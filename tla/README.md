# mixle-mlops: a verification development

TLA+ models of `mixle_mlops`, the serving and MLOps platform in `src/`: a
FastAPI gateway in front of language-model engines and of fitted *mixle*
models, with accounts, conversations, caches, retrieval, a GPU job launcher and
a subsystem that improves the hosted models while they are served. Every module
is translated from the code; line references are to files of
`src/mixle_mlops/` unless they say otherwise. `PROJECT.json` maps each
definition to its lines, lists the hazards of the code with the properties that
cover them, and pairs every property with a plausible bug (a mutated form of a
definition, kept next to it in the module) that breaks it.

Contents: [1 the system](#1-the-system) · [2 how the code runs](#2-how-the-code-runs)
· [3 the modules](#3-the-modules) · [4 the runs](#4-the-runs) ·
[5 fairness](#5-fairness) · [6 what is proved](#6-what-is-proved) ·
[7 what the models show about the code](#7-what-the-models-show-about-the-code)
· [8 not modelled](#8-not-modelled) · [9 plan](#9-plan)

## 1 The system

| Component | State it keeps | Operations | What is hard about it | What makes it correct |
|---|---|---|---|---|
| **Self-evolution** `evolve/{worker,scheduler,signals,lineage}.py`, `gateway/routes/evolve.py`, `gateway/app.py:93-110`, `models/mixle_model.py` | the adapter's `_model`, `_previous_model`, `_fit_data`; `EvolutionRecord` rows | `run`, `_promote`, `rollback`, `tick`, `record_run`, the timer loop | runs and rollbacks of several threads and of the event loop share three attributes without a lock; the record is committed after the promotion; a restart forgets the promotion and keeps the record | the served model never gets worse; the lineage explains what is served; a rollback serves what the last promotion displaced; the loop never dies |
| **Device grant** `accounts/devicecode.py`, `gateway/routes/accounts.py` | a `DeviceCode` row, `ApiKey` rows | `new_device_code`, `approve`, `deny`, `poll` | read-decide-write on one row by overlapping requests; two commits in one poll; expiry at any moment | one verdict, one token, and a device that is told when to stop |
| **GPU launcher** `compute/{launcher,vast,jobspec}.py` | rented boxes (at the provider), one watchdog thread per box | `launch` (attended and unattended), `_safe_destroy`, `destroy_confirmed` | provider replies that fail, lie or get lost; a timer that races the `finally` clause; commands that hang | no box is left running unreported, within the attempt budget and under a hard cap |
| **Rate limiter** `cache/{ratelimit,memory,redis_cache}.py`, `gateway/routes/chat.py:74-85` | one counter per window, or one bucket, in the cache | `check` with two algorithms, the gate of the chat route | replicas race on a shared Redis; expiry; checks that last over the end of a window; a cache that fails | no more than the limit is admitted, and nobody is denied without cause |
| **Conversations** `conversations/{service,models}.py`, `gateway/routes/{chat.py:47-63,conversations.py}` | `Conversation` and `Message` rows | `persist_turn`, `append_message`, `delete_conversation` | a turn is three commits; deletes run in other threads; errors are swallowed | an acknowledged turn is whole, answers follow questions, nobody writes to another's thread, a delete leaves nothing behind |
| **Chat pipeline** `gateway/routes/chat.py` | locals of one request | stages from rate limit to dispatch, each with its early return and fallback | which strategy answers; which answers are cached, recorded, streamed; a client that leaves | a turn is recorded whole, once and last, or not at all; a cached answer was given to the same request |
| **Response and semantic caches** `cache/responses.py` | answers by key; an index of embeddings in one cache value | `get`, `set`, `lookup`, `store` | the index is read, extended and written back; entries expire one by one | a hit is a stored answer, no entry is lost |
| **Answer strategies** `gateway/{agent_loop,cascade,bestofn,moa,constrained,verifiers}.py` | locals of one request | tool loop, escalation, sampling and voting, validate-and-repair | bounded loops over a model that may answer anything | they end within their bounds with an answer, or the best attempt |
| **Decoding engine** `engines/{decode,regex_fsa,grammar}.py`, `models/local_engine.py` | locals of one call: tokens so far, state of the mask | greedy, speculative and grammar-masked decoding; compilation of regexes, schemas and choices | the position of the first mismatch, the token budget, dead ends of the mask, characters split over tokens | speculation returns what the target alone returns; a mask lets through what was asked for and nothing else, but for schemas it gets wrong; a stream shows the answer |
| **Accounts, keys, OAuth** `accounts/{service,oauth,security}.py`, `gateway/auth.py` | `User`, `ApiKey`, `OAuthIdentity` rows | sign-up, log-in, sign-in by provider, create, resolve and revoke keys | two first sign-ins at a time; two commits in sequence; a sign-up under the name a sign-in makes up; a key is read and written back | one account per identity; a revoked key stays revoked |
| **RAG and documents** `rag/*`, `documents/parse.py`, `gateway/routes/{rag,files}.py`, and the **blob store** `multimodal/*` | rows of a vector table, document rows, two files per blob | upload, index, re-index, list, search | delete-then-add; three stores written one after the other; windows that overlap | a listed document can be read and its passages found; re-indexing is idempotent |
| **MCP client and server** `mcp/*` | a child process's pipes, ids, a lock | initialise, list, call over HTTP or stdio | a cancelled request leaves its reply in the pipe | a caller gets the reply of its own request |
| **Model server, drift** `app.py`, `drift_retrain.py`, `seed_registry.py` | the promoted version, `reference.json`, the service a process has loaded | seed, drift test, retrain and promote, lazy load | promotion and the reference are two steps, written in one order and read in the other | drift is measured against the sample of the model that is served |
| **Registry and adapters, predictive and decision layer** `core/*`, `models/{mixle_model,task_cascade}.py`, `gateway/routes/mixle.py` | the adapter's model, Service and fit data | capabilities, predict, score, latent, decide, chat | each endpoint goes by other attributes; a promotion changes one of them in mid-answer | what is advertised is answered; an answer is what it is said to be |
| **Datasets** `datasets/*`, `gateway/routes/datasets.py` | a blob and a row per dataset | generate (from a model or an LLM), export | coercion to a schema, names for columns, what counts as a scalar, steps that fail one by one | a listed dataset has its rows and columns |
| **Feedback and reward models** `feedback/*`, `gateway/routes/feedback.py` | `Feedback` rows | post, fit, export | a reply lost after the commit; two types of one item | a judgement counts as often as it was kept |
| **Web frontend** `frontend/app/chat/page.tsx`, `frontend/lib/api.ts` | React state and two refs of the chat page | send, edit, regenerate, Stop, New chat | callbacks of a turn run when another turn, or another chat, is on the page | the turns of a chat are one conversation; Stop reaches the turn that runs |
| **Images, object storage, deployment** | see [8](#8-not-modelled) | | | |

How they interact. The chat route calls, in this order, the rate limiter, the
RAG index, the answer strategies, the caches and a model adapter of the
registry, and then records the turn with the conversations. The evolution
subsystem mutates the adapters the registry handed out to the same process. The
device grant ends in `service.create_api_key` of the accounts. The launcher is
called from the command line and talks to the provider and
to `ssh`. The database and, when configured, Redis are shared by all replicas
of the gateway; everything else lives in one process.

## 2 How the code runs

Three facts decide what may interleave and are used by every model:

1. Routes declared `def` run on threads of Starlette's thread pool, so two of
   them overlap at any attribute access or statement. Routes declared
   `async def`, and the timer loop, run on the event loop and give way only at an
   `await`.
2. Each request has its own SQLAlchemy session: reads see what was committed,
   and a commit is the step at which its writes appear. No statement of the
   modelled code tests the old value in its `WHERE` clause. An UPDATE of a row
   that has gone raises `StaleDataError`; a DELETE of one does not.
3. Replicas of the gateway (`deploy/`) share only the database and Redis.

So an action is the code between two points at which others can come in: one
access to a shared attribute (evolution), one statement or commit (grant,
conversations), one call to the cache (limiter), one request to the provider
(launcher), one awaited call of a model, or one access to the cache or the
history (chat pipeline).

## 3 The modules

**`Evolution`** - one hosted model. `served`, `previous` and `fitData` are the
adapter's attributes, `lineage` the promoted records of the table, `pc` and
`job` the run of each thread, `bpc` and `target` the rollbacks. `Begin` is the entry of
`EvolutionWorker.run` up to the read of the champion (worker.py:35-48),
`ReadRetained` the choice of observations with its early return,
`NoPromotion`/`Verified` the outcomes of `mixle.evolve.improve` (external: from
how its result is used, a verified challenger beats the champion improve was
given), `ReadOutgoing`, `KeepOutgoing`, `Swap`, `RetainRows` the four accesses
of `_promote`, `RecordRun`/`RecordFails` the commit of `record_run` in the
routes and in the scheduler, `RollbackRead`/`Restore`/`Clear` the three accesses
of `rollback`, `Restart` a new process. `alone` is chosen in the initial state
and says whether runs and rollbacks come one at a time: a behaviour with
`alone` is a special case of the others, kept apart so that what holds only
there can be stated. `everServed` and `unrecorded` are history.

**`ChampionSlot`** - the promise of that subsystem about the model attribute
alone: a step installs a challenger that beats something already served, or
puts back something already served. `Evolution` implements it in every
interleaving (`SlotSpec`).

**`DeviceGrant`** - one device code. `ApproveRead`/`ApproveWrite`,
`DenyRead`/`DenyWrite` are the SELECT and the COMMIT of the two verdicts (deny
looks at no clock); a poll is `PollResolved`, `PollFindsExpired`, `PollClaimed`
or `PollApproved` by what it reads, then `PollExpire`, or `PollMint` (the commit
inside `create_api_key`) and `PollClaim`. `PollCrash` ends a poll between its
commits. **`OneShotGrant`** is the abstract grant: one verdict, one token. The
refinement mapping counts a token from the claim that makes it final.

**`GpuLauncher`** - `launch()` in both modes. `box` is the provider's truth, and
the launcher acts on replies only: `RentReplyLost`, `Delete` without effect,
`SeenAlive` on errors, `SeenBlank` on a body that is not JSON. The caller's
thread is `pc`/`current`/`after`, each boot attempt's timer is `watchdog[o]`,
and both destroy through the same actions, told apart by `BoxOf`, the argument
the timer was armed with.

**`FixedWindow`** - one identity's counter per window over Redis (replicas; INCR
and PEXPIRE are two calls) or over the memory cache (one process), with the
chat route's gate that serves a request when the cache raises. Time is counted
in ticks of the clock. **`TokenBucket`** - the second algorithm: clock, read and
write-back as three steps, the key's lifetime of four windows, levels scaled by
`Window` so that the rate is an integer.

**`Conversations`** - turns recorded by one gateway process or by two replicas
(`oneGateway`), deletes in other threads. A turn is `Lookup`, `Create`,
`AppendUser`, `Reload`, `AppendAssistant`, `Reply`: the commits of `persist_turn`
and the attribute accesses in between that reload an expired row. `messages` is the set of
rows; the clock of `created_at`, which orders them, is counted in commits. `Crash` is a
commit that raises or a process that ends.

**`ChatPipeline`** - requests to `/v1/chat/completions`, with the answer
strategies and the response cache they share. `pc[r]` is the call a request waits
in, or how it ended. `Route` is the precedence of the strategies in
`chat_completions`, streaming exceptions included. The strategies:
`AgentCalls`/`RunTool`/`AgentAnswers` are `run_agent_loop` (`log` is what it adds to
the messages, `calls` the tool calls of the reply being served);
`CascadeSignal`/`CascadeVote`/`FrontierAnswers` are `cascade`; `BestAnswers` is
`best_of_n` with the majority vote of `Wins`, or with a verifier;
`LayerProposes`/`AggregatorAnswers` are `mixture_of_agents`; `MaskedAnswers`/
`MaskedRaises` the masked decoding that may give way to `ConstrainedAnswers`/
`Repair`, the validate-and-repair loop (`tries`). `Lookup` and `Store` are the two
calls of the cache around a plain answer, each of which may fail, `Expire` its
time to live; `Key` is `chat_request_key`. `Chunk`/`StreamEnds` are the event stream,
`ClientGone` the cancellation of a generator where it waits, and `Persist` is
`_persist`: best effort, and for signed-in users. Of the neighbours only the outcome is in
this module: the limiter admits or not (`Reject`), and a turn is recorded or not
(the commits inside that step are `Conversations`). **`AnsweredTurn`** is the promise
of a turn: the client hears an answer, and the history gets all of it, once and
last, or nothing. `ChatPipeline` implements it (`TurnSpec`).

**`DecodeLoop`** - `decode_iter`: one token per step (`Yield`), picked among those the
logits may prefer (data: `prefers`), masked to what the automaton allows, until the
budget, the end token, a final state or a dead end (`Return`). **`TokenFsa`** is the
automaton of `engines/grammar.py`. **`SpeculativeDecoding`** - the greedy
`speculative_decode` that `SpeculativeAdapter` runs: `Propose`, `TargetPass`, `Verify`,
`Bonus`, `Keep`. Draft and target are arbitrary functions from contexts to tokens.
It refines `DecodeLoop` with the target's preferences (`SpeculationIsGreedy`).
**`LocalEngine`** - `LocalEngineAdapter` over `DecodeLoop`: `ChatYields`/`ChatAnswers` and
`StreamYields`/`StreamStops`/`StreamEnds` with their two ways of treating stop tokens.
**`Engines`** joins the two adapters: a behaviour is one call of either.
**`RegexFsa`** - the compiler of `engines/regex_fsa.py`: a recursive-descent parser that
builds a Thompson automaton, the subset construction over the tokens of a vocabulary, the
schema-to-regex translation and the choice automaton. **`RegexMeaning`** is its reference:
the texts an expression, a schema or a list of choices stands for, by structure and
without an automaton. What it takes for an instance of a schema is JSON's own grammar, in the
one layout that the translation knows: `null` is the literal null, a literal of an enum is what
JSON writes for it, no number has a leading zero and no string a raw newline. Only what the
source declares a bound of its own is taken over: an object or an array nested too deep, and a
property without a type, is a string (regex_fsa.py:286, 309).

**`Accounts`** - the user, identity and key tables. A sign-in is `Exchange`,
`FindIdentity`, `FindByEmail`, `AddUser`, `AddIdentity` (`find_or_create_user`, one statement
each), then `CreateApiKey`; `Resolve`/`LastUsed` are the read and the write of
`resolve_api_key`, `RevokeKey` the revocation, `Crash` the end of a request between two
commits. What a provider says of its user may change from one sign-in to the next. An account is
named by its email, and `Signup` takes any: what `AddUser` makes up for a subject included
(`Placeholder`). `registered` is history: the accounts whose email somebody gave.

**`McpSession`** - callers of one `MCPClient`. Over stdio: the lock's queue, a thread that
writes, a thread that reads a line, and `Cancel`, which frees the lock and leaves the threads
to themselves. Over HTTP: `Post`. `Serve` is the server's dispatch with its catalog of tools,
built anew for each request.

**`Documents`** - uploads and re-indexings. `Parse`, `WriteBin`, `WriteMeta`, `AddDocument`,
`DeleteSelect`, `DeleteCommit`, `Embed`, `Add` are the steps of `upload_document` and
`index_*`; `Fail` ends a job at any of them. The chunks are `chunk_text`, character by
character; `Embed` may use the remote embedder or fall back to the local one, whose
vectors have another dimension.

**`ModelServer`** - `BeginSeed`, and `BeginRetrain`, `Detect`, `Promote`, `Truncate`, `Write` of
the retraining job (opening a file for writing empties it first); `ReadReference`,
`ReadModel` of a server's lazy load; `Cut` ends a job anywhere.

**`HostedModels`** - an adapter and what its endpoints answer. A fitted model is the set of
its features (methods, and what conditioning leaves of them). `Score` and `ScoreSemantics`
are apart because a promotion (`Promote`, in another thread) may fall between them.

**`Selection`** - `focal_diversity_select`, one pick per step, over all small tables of
distances. **`Datasets`** - one request to `/datasets/generate`, from the refusals through
`GenerateFromMixle`/`GenerateFromLlm`, `Export` and `Persist`, each of which may fail. A draw is a
dict, a tuple (or a scalar) or an array; `Taken` is what its branches make of the last two. The
schema has an order (`spec.order`), since a record is given up at the first column that does not fit.
**`Feedback`** - bodies posted to `/feedback`, of which the commit or the reply may be lost,
and `Fit`: the pairs that are fitted, exported and promoted from. The last two keep some elements of
a sequence with `Positions` (`AtPositions`), rather than `SelectSeq`, so that they can be proved about.

**`ChatPage`** - the chat page of a signed-in user. A turn is `Send`, `Edit` or `Regenerate`
(with uploads first, if any), then the callbacks of its stream or advanced completion up
to the search for its conversation (`ListConversations`, `Discover`); `Stop` and `NewChat` are
the buttons; `Record` is the gateway's recording of the turn, `Elsewhere` another tab. The user may
have conversations from before (`Earlier`). `AdvancedEnds` leaves the reference as it was: the page
asks for `X-Conversation-Id`, which the gateway sends and does not expose to other origins.

**`EvolutionProofs`, `DeviceGrantProofs`, `GpuLauncherProofs`,
`FixedWindowProofs`, `TokenBucketProofs`, `ChatPipelineProofs`** hold the theorems
about the module they are named after, **`TurnProofs`** those about `Conversations` and
`Engines`, **`ServicesProofs`** those about the services of `MCServices`. **`MCEvolution`**, **`MCChatPipeline`** and
**`MCDecoding`** hold the values of constants that a `.cfg` cannot write; `MCDecoding` also states
what a mask is to accept. **`MCServices`**, with the inputs of
**`MCInputs`**, checks the nine services `Accounts` to `Feedback` in one run: they share no
state in the code, so a behaviour is one of a single part (`part`) and the others stay as
they begin. The other modules take their constants from the `.cfg` directly.

## 4 The runs

| Run | States | Properties | What it shows |
|---|---|---|---|
| `Evolution_any` | 861 000 | `NeverBelowInitial`, `ServedAccounted`, `SlotSpec`, `LoopKeepsTicking`, `NeverDegradeAlone`, `RollbackPointAlone` | Under every overlap of a trigger, the loop, a rollback and restarts the served model is never below the initial one, is explained by the lineage or by a run about to record (or failing to), and is a champion slot; the loop goes on. One at a time, promotions never degrade, and pair the right rollback point. |
| `Evolution_degrade` | - | `NeverDegrade` (violated) | Overlapping runs do degrade: see [7](#7-what-the-models-show-about-the-code). |
| `DeviceGrant_any` | 32 000 | `ClaimedHasToken`, `DeviceIsAnswered`, `GrantAlone` | With overlapping requests and a dying poll a claimed code has its token and the device is answered; one at a time the row is a one-shot grant. |
| `DeviceGrant_twice` | - | `OneShot` (violated) | Two polls at a time mint two tokens. |
| `GpuLauncher_any` | 133 000 | `NothingLeaks`, `HardCap`, `LaunchEnds` | Every live box is in hand, returned unattended, reported, or one whose reply was unusable; a hung job is stopped; launch ends. |
| `FixedWindow_any` | 1 000 000 | `WithinLimit`, `DenialIsEarned` | The limit within a window, at most one late admission per replica after it, and no denial without `Limit` others. |
| `TokenBucket_any` | 69 000 | `WithinRate`, `DenialIsEarned` | Without a race the bucket admits what a full bucket and the rate allow over any stretch of time, through the key's expiry; with races it never denies a request the rate would have allowed. |
| `Conversations_any` | 424 000 | `RepliedTurnIsWhole`, `AnswerFollowsQuestion`, `DeleteRemovesEndedTurns` | Acknowledged turns are whole and in a conversation of their user, questions and answers alternate within one process, and a delete removes every turn that had ended when it began. |
| `ChatPipeline_any` | 140 000 | `HitIsAnEarlierAnswer`, `AgentProtocol`, `TurnSpec`, `RequestsEnd` | With models that raise, stores that fail and clients that leave, a turn is recorded whole, once and last, or not at all; a hit is what another request with the same options was answered; the tool loop keeps the function-calling protocol; every request ends. |
| `Decoding_any` | 201 000 | `SpeculationIsGreedy`, `MaskIsExact`, `StreamShowsTheAnswer` | For every draft and target over two tokens, speculation yields token by token what the target alone would. A mask accepts the texts asked for and no others, forbids no token that could be continued to one, and a masked answer fits unless the budget, a dead end of the vocabulary or an end token with a text of its own is in the way; schemas with a null or a literal that Python writes otherwise, and texts with leading zeros or raw newlines, are excepted by name (`AsksForNull`, `AsksForPython`, `Loose`; see [7](#7-what-the-models-show-about-the-code)). A stream shows what a chat answers for its tokens, unless characters are split. |
| `Decoding_valid` | - | `MaskedAnswerIsValid` (violated) | A masked answer the budget cut short, while the mask allowed more tokens, does not fit what was asked. |
| `Services_any` | 1 722 000 | see below | The nine services, one at a time. |

`Services_any` by part:

- *Accounts*: a provider's user comes back to one account, unless two sign-ins overlapped and
  were told different things, and is refused the account of its own name only for a sign-up under
  that name, a sign-in of it that was cut short or one that overlapped (`SameAccountEachTime`); a
  revoked key stays revoked (`RevokedStaysOut`, an action property).
- *MCP*: an answer is the caller's own until a caller is cancelled, and then it is an older one
  that nobody else gets; nobody waits for ever while the server runs (`AnswersAreOwn`).
- *Documents*: a listed document has its file, and every passage up to the overlap is whole
  in some row its search ranks (`DocumentsAreKept`); unless re-indexings overlap, the rows
  of a conversation are those of one run (`MemoryIsOfOneRun`).
- *Model server*: what a server loaded from a job that ran alone is one sample and its
  model (`DriftIsAgainstOwnSample`).
- *Chat page*: a chat is one conversation and a conversation one chat, with the exceptions the
  code leaves, and a conversation older than the page is taken up only after a turn that went
  unrecorded (`ConversationPerChat`); Stop is shown for, and reaches, the turn that runs
  (`StopReachesTheTurn`).
- *Hosted models*: `CapabilitiesAreHonest`, `AnswersAreHonest`, `EscalationAgrees`.
- *Selection, datasets, feedback*: `SelectionIsSpread`, `DatasetIsWhole`, `PreferencesCount`.

Each module has one type invariant where its proofs need it (`TypeOK`). Those of the
modules proved on their own, and `RowsKeptAlone`, `BootedWithinBudget` and `EveryCounterExpires`, are theorems
([6](#6-what-is-proved)) and are not checked again by a run.

Bounds, and why they are enough:

- *Evolution*: one trigger, the loop and one rollback, each run any number of
  times. Two runs and a rollback make every pair of overlapping operations occur,
  the lost-update pairs included; a third run could only repeat one of them. Four
  models: the initial one, two better ones (so that a challenger can beat the
  initial model and still be worse than another run's) and a worse one. Three
  observations with `MinRows = 2` and `MaxFit = 3` fill the window and overflow
  it by one; 4 and 10000 in the source.
- *DeviceGrant*: two approvals (by two users), a denial, two polls, one failing
  poll. Requests of a kind may be repeated without limit.
- *GpuLauncher*: three offers and two attempts, so that the budget ends the loop
  in some behaviours and the offers in others; each destroyer re-issues its
  DELETE once, which separates first from later polls.
- *FixedWindow*: two replicas, a limit of two, two full windows and the start of
  a third, five checks per window (two beyond what both replicas can overshoot by),
  one failing call.
- *TokenBucket*: the lifetime is four windows of two ticks, the clock runs to
  ten, so that the key expires and time is left to use the new bucket; a bucket of
  eight tokens is four limits, the largest that is full again in that lifetime,
  and costs of one and five reach every level. Two callers, two races.
- *Conversations*: two turns of two users, two deletes, two ids (a deleted id is
  not used again, so each turn may create its own).
- *ChatPipeline*: two requests of any two of twelve kinds: one per strategy, with
  streaming where it changes the route, and plain ones that differ in the user, the
  tools and the extra options, which is what separates the cache's key from the
  request. Requests meet in the cache only, where one fills an entry and the other
  finds it. Two chunks, two rounds of up to two tool calls, two layers and two
  repairs, so that every loop both stops early and runs out; three candidates of two
  texts with a quorum of three, so that votes are unanimous or split.
- *Decoding*: contexts are the last two tokens of two, which makes 32 drafts by 32 targets;
  budgets of 0, 3 and 4 with one to three drafted tokens end before, in and after a round.
  The vocabulary has twenty-one tokens: characters, longer tokens that cut across operators, two
  end tokens (one that is also a character), the pieces of JSON, two halves of a character, and
  what JSON has not everywhere: a zero, a newline, Python's `True`.
  Expressions are every operator over every kind of atom, and pairs of them, two deep; schemas
  have every type, nested arrays and objects; plain calls yield at most three tokens, masked ones
  six. A token a mask forbids is tried with every continuation by two more tokens.
- *Services*: three requests, calls, jobs, retrainings and turns: two that race and one that
  finds what they left; the one that signs up gives an email of its own or the one made up for the
  provider's user that signs in. Texts are all those of up to seven inked or blank characters, with chunks
  of one, four and eight characters and overlaps on both sides of the clamps. On the page two chats, and at most
  two things that go wrong (`MaxSlips`). Two queries per hosted model (`MaxQueries`: one to
  advertise, one to ask), over all models that differ in a feature the code looks at.
  Panels of four with three distances, and of three with grades. Datasets of two rows out of up
  to three records, with numbers that no float or no integer holds before and after a column
  that does not fit, and three posts of feedback (`MaxPosts`).

`CHECK_DEADLOCK FALSE` stands where the modelled activity really ends: a launch
that returned, a clock at its bound, turns, deletes, calls, jobs and requests that are all done. The
evolution loop and the device's polling never stop, and there deadlock is checked.

## 5 Fairness

- *Evolution*: weak fairness of the loop's own steps. `_evolution_loop` is a task
  of the event loop that sleeps and is always scheduled again; nothing is
  assumed of triggers, rollbacks and restarts. `LoopKeepsTicking` then says that
  passes start for ever whatever the others do, failures of its own records
  included. (For `alone` behaviours nothing is claimed: a thread that keeps its
  turn would be an assumption of the model, not of the code.)
- *DeviceGrant*: the clock advances, a handler that has read a row commits, and
  the device polls until it is told to stop, which is what RFC 8628 asks of it and
  what the CLI does. Approvals and denials need not come.
- *GpuLauncher*: requests end because every call has an HTTP timeout, `Timer`
  threads fire, the loop of the caller's thread goes on and the boot wait is
  bounded. A remote command has no timeout in the code (launcher.py:138), so no
  fairness is assumed of it once it hangs: `LaunchEnds` allows for it, and
  `HardCap` holds by the watchdog alone.
- *ChatPipeline*: each request goes on. Its handler is resumed by the event loop
  when the call it waits for is over; calls of a backend have a timeout
  (models/openai_compat.py:29), local decoding ends at its token budget, and the
  agent's tools run in the process. A stream ends after `MaxChunks`, which stands for
  the token budget. No client is assumed to leave or to stay.
- The limiter, the conversations, decoding and the services are checked for safety only, without
  fairness. (That nobody waits for ever on the MCP pipe is said as an invariant: an answer is on
  its way for every thread that reads.)

## 6 What is proved

Each `...Proofs` module proves, with TLAPS, that an inductive invariant holds of
every behaviour of `Spec`, and from it the properties below, for every value of
the constants that satisfies the module's named assumptions. Where the table
names a property, the run of section 4 shows it on an instance and the theorem
everywhere.

| Module (assumptions) | Theorem | Statement |
|---|---|---|
| `EvolutionProofs` (`ModelAssumption`: the initial model is a model, `NoModel` is not, qualities are integers; `RunAssumption`: the loop is no trigger; `DataAssumption`: observations are rows, the window is positive) | `EvolutionInvariant` | `[](TypeOK /\ Grounded)` |
| | `TypeCorrect` | `[]TypeOK` |
| | `FloorHolds` | `[]NeverBelowInitial` |
| | `ImplementsSlot` | `SlotSpec`, the refinement of `ChampionSlot` |
| | `LineageHolds` | `[]ServedAccounted` |
| | `SequentialInvariant` | `[]Sequential` |
| | `NeverDegradesAlone` | `NeverDegradeAlone` |
| | `RollbackPointHoldsAlone` | `RollbackPointAlone` |
| | `RowsAreKeptAlone` | `RowsKeptAlone` |
| `DeviceGrantProofs` (`GrantAssumption`: `NoUser` is no user) | `GrantInvariant` | `[]GrantInv` |
| | `ClaimHasToken` | `[]ClaimedHasToken` |
| | `GrantImplemented` | `GrantAlone`, the refinement of `OneShotGrant` |
| `GpuLauncherProofs` (`LauncherAssumption`: at least one offer and one attempt) | `LaunchInvariant` | `[]LaunchInv` |
| | `NothingIsLeaked` | `[]NothingLeaks` |
| | `BudgetHolds` | `[]BootedWithinBudget` |
| `FixedWindowProofs` (`FixedWindowAssumption`: finitely many replicas, limit and window positive) | `WindowInvariant` | `[]WindowInv` |
| | `LimitHolds` | `[]WithinLimit` |
| | `WindowDenialsAreEarned` | `[]DenialIsEarned` |
| | `CountersExpire` | `[]EveryCounterExpires` |
| `TokenBucketProofs` (`BucketAssumption`: burst, limit, window and costs positive) | `BucketInvariant` | `[]BucketInv` |
| | `RateHolds` | `[]WithinRate` |
| | `DenialsAreEarned` | `DenialIsEarned` |
| `ChatPipelineProofs` (`ShapesAssumption`, `ValidAssumption`, `CacheOnAssumption`: the constants have their types; `BoundsAssumption`, `SamplesAssumption`: naturals, positive where a loop has a body; `NoTurnAssumption`: no turn is no answer) | `PipelineInvariant` | `[]IInv` |
| | `PipelineTypeOK` | `[]TypeOK` |
| | `HitsAreEarlierAnswers` | `[]HitIsAnEarlierAnswer` |
| | `AgentKeepsProtocol` | `[]AgentProtocol` |
| | `PipelineImplementsTurns` | `TurnSpec`, the refinement of `AnsweredTurn` |
| `TurnProofs` (`NoIdAssumption`: no id is `NoId`) | `HistoryTypeCorrect`, `HistoryInvHolds` | `[]TypeOK`, `[]HistoryInv` |
| | `WholeTurnHolds` | `[]RepliedTurnIsWhole` |
| | `AnswerHolds` | `[]AnswerFollowsQuestion` |
| | `DeleteHolds` | `DeleteRemovesEndedTurns` |
| `TurnProofs` (hypotheses: jobs of `JobType`; `ContextsAreRead`, that a context determines what both models prefer) | `SpeculationHolds` | `SpeculationIsGreedy`, the refinement of `DecodeLoop` |
| `TurnProofs` (hypothesis: `TextsAreRead`, that no tokens have no text and any have a sequence of characters) | `StreamHolds` | `[]StreamShowsTheAnswer` |
| `ServicesProofs` (`JobAssumption`, `AccountAssumption`, `PageAssumption`: the names of jobs, emails and turns are none of the values that stand for "none", and conversations of the page are told from earlier ones and another tab's; an email may be a placeholder; `CharsAssumption`: a token stands for some characters) | `DriftHolds` | `[]DriftIsAgainstOwnSample` |
| | `SameAccountHolds`, `RevocationHolds` | `[]SameAccountEachTime`, `RevokedStaysOut` |
| | `ChatsHold`, `StopHolds` | `[]ConversationPerChat`, `[]StopReachesTheTurn` |
| | `MemoryHolds` | `[]MemoryIsOfOneRun` |
| | `ModelsInvHolds` | `[]ModelsInv` |
| | `CapabilitiesHold`, `AnswersHold`, `EscalationHolds` | `[]CapabilitiesAreHonest`, `[]AnswersAreHonest`, `[]EscalationAgrees` |
| | `AnySelectionHolds`, `SelectionHolds` | `[]SelectionIsSpread`, of any pool and of those of the run |
| | `AnyDatasetHolds`, `DatasetHolds` | `[]DatasetIsWhole`, of any requests and of those of the run |
| | `PreferencesHold` | `[]PreferencesCount` |
| | `OwnAnswersHold` | `[]AnswersAreOwn` |
| | `ChunkHolds` | short passages are whole in a chunk, for any text |
| | `AnyDocumentsHold`, `DocumentsHold` | `[]DocumentsAreKept` (and `[]MemoryIsOfOneRun`), of any texts and sizes and of those of the run |

The bounds `MaxTime`, `MaxRaces`, `MaxServed`, `MaxFailures` and `MaxCrashes` remain
in the guards, but the theorems hold for every value of them.

Along which argument:

- *Evolution.* `NeverBelowInitial` is not inductive: a promotion installs
  `job[r].result`, of which the state says nothing. `Grounded` adds what a run and
  a rollback carry with them: the champion a run read, the outgoing model it
  remembers and the target of a rollback have been served; a result on its way to
  being promoted beats that champion; whatever has been served is at least as good
  as the initial model. Then `Swap` installs something better than a model above
  the floor, a rollback restores something served, a restart the initial model;
  and each step is a `Promote`, a `Restore` or a stutter of the slot.
  `LineageExplains` extends `ServedAccounted` from the model in service to all that
  can come back into service: the rollback point, the outgoing model of a run, the
  target of a rollback. It is inductive because a promotion stays explained while
  it moves from its run to the table or to the failures (`AccountedStays`).
  `Sequential` says that in `alone` behaviours one operation at a time is under way
  and what it has read still holds; the three `...Alone` properties follow from it
  step by step.
- *Device grant.* `GrantInv` is `TypeOK`; `TokenBeforeClaim` (a poll about to claim
  has minted, so the claim finds a token even if another poll died);
  `MintsForUser`; and `Sequential`, which says of requests that come one at
  a time, and do not die half way, that the row is still as the one under way read
  it. The refinement sends each verdict to
  `Decide`, an expiry to `Lapse`, a mint to `Redeem`, and everything else, the
  claim included, to a stutter.
- *Launcher.* `NothingLeaks` has to know where the caller's thread is (`Thread`),
  that offers not yet reached are untouched, so that renting cannot overwrite a live
  box (`Untouched`), and that a timer is armed for, and a destroyer works on, a box
  that was rented (`Rented`). `Budget` counts exactly: the boxes whose reply came
  are as many as the attempts.
- *Fixed window.* `Ledger(w)` keeps the books of one window. While it lasts, each
  request let through, and each replica about to arm the expiry, has a count of
  its own (`Admissions`); once it is over, each check it has left behind can admit
  one more, hence the `Cardinality(Replicas)` of `WithinLimit`. In the other
  direction every count is the count of some request (`Counts`), so none is denied
  for a count nobody made. `Timely` keeps a counter from expiring within its window.
  `OtherWindows` and `CheckEnds` say how a step moves the number of checks under way.
- *Token bucket.* `BucketInv` compares the level with the debt, the abstract measure
  of admitted traffic that shrinks at the rate. `Generous`: whatever races, the
  bucket has at least what the debt leaves, since a racing write can only
  restore tokens; a denial is therefore earned. `Accounts`: until checks race it has
  exactly that, through the expiry of the key, because a bucket that four windows
  fill is full when the key goes (`FullAtEndOfLife`); hence the rate.
- *Chat pipeline.* `HitIsAnEarlierAnswer` needs to know where cached answers come
  from. `CacheUsers` keeps the cache to requests without tools and streams;
  `CacheIsGiven` says that each entry is what a request with that key was answered, and
  `GaveStays` that this request's answer never changes again, so a hit (`HitIsGiven`) has
  its giver even after the entry expired. `LoopInv` follows the tool loop between two
  questions to the model: `log[r]` is answered up to the call to run next, which
  `SamePrefix`, `NewReply` and `NextResult` carry through each append. `Unsaid` says that
  nothing was said before a strategy answers, so that its completion is the whole of
  the answer; with it each step is a `Say`, a `Note`, a `Close` or a stutter. The
  actions are many and the variables each moves few: `StepFrame`, `StepType` and
  `StepEffect` state that once, and the invariant is proved from the effects.

- *Conversations.* `HistoryInv` ties what a turn and a delete remember to the rows. A turn
  records into a conversation of its user's; while that one exists the turn has written what
  its program counter says (`WrittenSoFar`), and each row points back to a turn that far. A
  delete keeps what it read (`DoomsAreRead`): every row still there of a turn that had ended is
  among those it removes. Within one gateway one turn records at a time and its question is the
  latest row of all, so the answer comes next (`QuestionIsLast`).
- *Speculative decoding.* `RoundInv`: as far as the target's pass is verified it agrees with the
  draft, and what is accepted is the target's choice, each token after the ones before it
  (`IsTargets`). Then every accepted token, kept or cut by the budget or the end token, is a
  step of `DecodeLoop` that the target's preferences allow.
- *Streaming*. `StreamInv`: only the last token of a stream can be a stop token, and then it has
  answered; what was shown is the text of the tokens before it. A text that extends the one
  before is what it has grown by put after it (`GrowthIsAppended`), and what chat trims of these
  tokens is that last one (`TrimmedIsShown`). The number of stop tokens does not matter. That
  characters are whole must be said of every two prefixes: a text that shrinks and
  grows again would be shown twice in part.
- *Model server.* While every job that promoted has also written its reference, alone, the
  reference is the sample of the promoted version (`WholeIsLeft`), so a load during which that did
  not change has read a pair (`SteadyLoads`).
- *Accounts.* Two sign-ins of one provider user that are both to link an identity overlap, and what
  they were told is on record (`PairsAreTold`); so is, of a sign-in that is still to link when an
  identity is there already, what that one's account came from (`LinkedIsTold`). The account named
  after a subject is explained by an identity, by the sign-in about to link it, or by one cut short
  (`PlaceholderIsExplained`) - or somebody registered it.
- *Chat page.* At most one turn is unfinished while none overlap (`OneUnfinished`); Stop is
  shown for it, and the aborter is its own (`StopIsShown`); the conversation the page holds is
  the one the turns of the chat were recorded in (`ChatsAreApart`, `ChatsAreWhole`), turns that
  open a conversation unseen aside (`Seen`). The conversations from before are taken up only
  once a turn went unrecorded, and none of the page's is one of them (`EarlierIsOlder`).
- *Documents.* Sources are apart, a job that is to delete rows has rows of its own conversation
  only (`DoomedAreOwn`), and between runs that take turns the rows are those of the last one
  that ended, or none (`RunsTakeTurns`). How far an upload has come says which files, row and
  chunks it has left (`Stage`), and nobody drops them: another upload with its source is blank and
  was refused (`DropsAreOwn`). The recursive function of `chunk_text` is unfolded by showing
  that there is a function that satisfies its equation from the last start on down to the first
  (`ChunksSlide`). A window that ends within a passage is over half full (`EndIs`), so the passage
  starts after the window does, and no earlier than the next window (`ChunkHolds`).
- *Hosted models.* What is being answered has been in service since the query came (`ServedOK`);
  what was advertised is what the adapter has while nothing was promoted (`ToldOK`); what an
  endpoint of a task model said is what it always says of that input (`TaskSays`).
- *Selection.* Each pick is as good as any proposer that remained when it was made
  (`GoodChoice`), and a proposer only comes nearer to what is chosen as more is. That a finite
  set of numbers has a least one, and that the average distance moves as it does, are proved from
  a smallest counterexample.
- *Datasets.* `RowsOK` says of the rows, once made, what the property says of the file; what is
  parsed from an LLM's text is as long as there are records that fit (`ParsedIs`), and a tuple
  without repeated names makes as many columns as values (`RowOfDrawIs`, a bijection).
- *Feedback.* Of every row, how often it is known to be kept, how often it is there and how often it
  was posted move together (`FbInv`, `TimesGrows`, `RowsGrow`); what is listed are such rows
  (`ListedAre`), so the export and the pairs have the same length, and each text is its item's or came
  with it (`BodiesAre`). Of two items the leader beats the only other one (`PreferencesAre`).
- *MCP.* Over stdio the queue is whoever waits for the lock or has it, once each, and those that have
  not been sent are in the order of their ids (`QueueIs`). A request or its answer is in one place: with
  a thread that is to write it, in a pipe, or with a caller (`OnceOK`). What was sent has an earlier id than
  whoever waits for the lock, and no later one than whoever holds it to read (`OrderOK`), so the line
  that is next is never from a later request; while nobody was cancelled it is what the lock is held
  for (`OwnOK`). The count of answers to come (`UnreadOK`) has to count the requests that threads of cancelled
  callers are still to write (`Stray`): each of them pays for the answer that it will leave.

The theorems of `ServicesProofs` are about `MCSpec`, for every set of requests, jobs,
subjects, emails, turns and models in the constants, with the inputs that `MCInputs` lists (texts of a plan,
features of models, kinds of records). `AnySelectionHolds`, `AnyDatasetHolds` and `AnyDocumentsHold` do
without the lists: they hold of any pool, of any requests, draws and texts, and of any uploads and
conversations whose sources are their own.

Induction over data needs the library's induction theorems, whose operator parameter the provers
cannot instantiate; where it is needed (`SomeLeast`, `NthIs`, and `ChunksSlide` and
`ChunkHolds`, which take the last start that fails) it is replaced by a smallest
counterexample, which the well-foundedness of the strict subset order provides.

Only model-checked:

- the liveness properties (`LoopKeepsTicking`, `DeviceIsAnswered`, `HardCap`, `LaunchEnds`,
  `RequestsEnd`), which are out of the prover's reach;
- `MaskIsExact`, whose modules declare the recursive operators of `RegexFsa` and `RegexMeaning`, and
  which is an induction over regexes and schemas.

## 7 What the models show about the code

Three statements of the code are refuted by a run of their own:

- *evolve/worker.py:7, "a run can never serve a worse model"*, and
  evolve/scheduler.py:6. `_promote` (worker.py:92) serves what beat the champion
  its own run read at line 48. Two overlapping runs: one promotes the better
  model, then the other replaces it with one that only beats the first champion.
  What does hold in every interleaving is the floor (`NeverBelowInitial`), and,
  of runs that come one at a time, the statement itself (`NeverDegradeAlone`).
- *accounts/devicecode.py:106, "one-shot: a device code yields a token exactly
  once"*. Two polls that both read `approved` each commit a key before either
  commits `claimed` (lines 111-112).
- *gateway/routes/chat.py:234, "masking makes the output well-formed by construction"*. The header
  `X-Constrained-Valid: 1` is set for every masked answer; `max_tokens` may end one before the
  automaton accepts: of the choices "aab" and "b" the mask is at "a" when one token is all
  there is. A mask may also begin what the vocabulary cannot spell and end at once, which
  `MaskedAnswerIsValid` leaves out to show the budget. What does hold is `MaskIsExact`, which lists
  the exceptions.

Four more are contradicted by exceptions that the properties of the passing runs need, and would
fail without:

- *engines/regex_fsa.py:331, "masking that makes the output valid, schema-conforming JSON by
  construction"*, twice. The type `null` falls to the default of `_value_regex` (309), a quoted string
  (gateway/constrained.py:105 has null as `NoneType`). A literal of an enum is
  written with `str` (293), which is `True`, `False` and `None` where JSON has `true`, `false`
  and `null`; digits and characters are taken as they come (297-301), so
  numbers with leading zeros and strings with raw control characters pass too. `MaskIsExact`
  holds without such schemas and texts.
- *accounts/oauth.py:242, "key by (provider, sub) so we never collide with - or hijack - an existing
  account"*. The address made up in line 244 is an email like any other, and sign-up takes any text
  for an email (routes/accounts.py:43, service.py:16): once somebody has it, the provider's user is
  refused on the unique email. What does hold is `SameAccountEachTime`, which has `registered` among
  its exceptions.
- *frontend/lib/api.ts:310, "X-Conversation-Id: the persisted conversation this turn threaded into"*.
  The page is of another origin than the gateway, whose CORSMiddleware (gateway/app.py:135) exposes
  no header, so page.tsx:175 never has one: an advanced turn that opens a conversation is followed
  by one that opens another. `ConversationPerChat` excepts these turns (`OpensUnseen`).
- *datasets/generate.py:8, "scalar/array/tuple draws get positional column names"*, and the comment
  at line 89. An array has an `item`, so line 91 sends it to the branch of scalars; its `item()`
  raises, and the row is one column with the array in it. `DatasetIsWhole` excepts arrays.

Further behaviours appear as exceptions written into properties, so that what is
left is exact:

- A rollback can restore a predecessor read before another promotion, and
  clear the rollback point of that promotion (worker.py:106-109); so
  `RollbackPointAlone` is about operations one at a time.
- A run without enough rows reads the retained ones and, once promoted, appends
  them to themselves (worker.py:95): the window then holds observations twice.
- The promotion precedes its record and no adapter has a `_registry`
  (worker.py:84), so a failing commit or a restart makes lineage and served model
  disagree; `ServedAccounted` lists the cases.
- `NothingLeaks` excepts boxes whose creation reply was lost (launcher.py:131)
  and those for which a status reply without JSON was taken for "absent"
  (vast.py:140 with 48-49). The unattended mode arms no watchdog
  (launcher.py:111-116): `HardCap` is about the attended mode.
- `WithinLimit` counts apart what a check admits that lasts beyond the end of its
  window (ratelimit.py:66): the expired counter begins again at one, and since it
  lives a window from its first count this happens at most once per replica.
- The token bucket's read and write-back are two calls (ratelimit.py:83-92):
  racing checks admit too much, never too little. A bucket that takes longer than
  four windows to fill is full too early when its key expires (line 88).
- A message recorded while its conversation is being deleted outlives it
  (conversations/service.py:100); SQLite enforces no foreign key by default.
- An answer found in the cache is returned before the turn is recorded
  (routes/chat.py:262), and a client that leaves a stream ends the generator before
  `_persist`: both turns are missing from the history. `TurnSpec` therefore allows "not at
  all", and forbids a part of an answer.
- The cache's key leaves out the user (cache/base.py:79), so one user is answered with
  what another was; `HitIsAnEarlierAnswer` says between which requests. It names the
  model and not its version: an entry outlives a promotion by up to its time to live.
- A mask whose end token has a text loses its end: the token's own move overwrites it
  (regex_fsa.py:255 before 256). The docstring (regex_fsa.py:5) promises `{n,m}`, and the parser takes
  `{n}` only.
- A stream sends what the text has grown by (local_engine.py:120): a character split over tokens
  that decode to a placeholder one by one is never corrected. Of several stop tokens the loop
  knows one (line 86): a chat decodes past the others, a stream stops at them.
- Two first sign-ins of one provider user that are told different emails get two accounts; one cut
  short between its commits (oauth.py:247) leaves an account without identity, on whose unique name
  a later sign-in without a verified email fails.
- After a cancelled stdio call every later caller gets the answer to an earlier request
  (mcp/client.py:97): one reply is left in the pipe per cancelled caller.
- Overlapping re-indexings leave the rows of both, and a failing one leaves none
  (rag/index.py:107).
- `drift_retrain.py` promotes, then rewrites the reference in place (lines 54-56): in between, or when
  it is cut short, a server measures drift against a sample its model was not trained on, or cannot
  read it.
- `score` answers from the Service of before a promotion and reports the semantics of the new
  model (mixle_model.py:164-173); `decide` and `score` may be advertised and fail, or work and not be
  advertised (lines 82-93). A record whose condition takes away the CDF is answered by draws and
  reported as exact (predictive.py:177, 227). An escalation for lack of density is unknown
  to the chat (task_cascade.py:111).
- On the chat page a turn's conversation is taken to be the latest one (page.tsx:231), and editing or
  regenerating does not wait for the turn that runs (298, 312): `ConversationPerChat` and
  `StopReachesTheTurn` list what follows. After a first turn that went unrecorded the latest
  conversation may be one from before the page was opened. The page's feedback goes to
  `/feedback` (lib/api.ts:179), where no route is: the router is mounted under `/v1` (app.py:148).
- Padded column names may repeat given ones (generate.py:100); an infinite number for an integer
  field, or an integer beyond every float for a number, is an error 500 (lines 188, 190), unless a
  column before it does not fit. `1` is preferred to `"1"` (collect.py:55). A lost reply to a
  judgement makes it count twice (collect.py:156). Unanimous judgements have intervals without width,
  so a single one promotes (loop.py:42).

## 8 Not modelled

- *Numerics*: the fits of `improve`, of the reward models (`feedback/reward.py`, `feature_reward.py`), of
  the predictive layer's samples and of `core/decision.py`'s losses and intervals; similarity
  scores; sampling in `speculative_decode`, whose acceptance test is on floating-point
  probabilities; fused logits. The models keep which of them is computed, and from what.
- *Image generation, object storage, the database setup*: calls of diffusers, boto3 and SQLAlchemy
  with no control of their own. *Deployment* (`deploy/`, `k8s/`): manifests and Terraform.
- *Texts*: prompts, answer extraction, JSON validation of the repair loop (`constrained.py`), tool
  implementations and schemas, file formats (`documents/parse.py`), wording of replies.
- Of the chat pipeline: RAG and file references, which rewrite the messages before a
  strategy is chosen; the response headers. `SemanticCache` is in no route's path.
- Of the decoding engine: the bound on the states of a mask (`max_states`), which only raises; an
  empty prompt, which no adapter passes.
- Of the accounts: the redirects to a provider and their signed state, which are HTTP and
  cryptography; listing of keys.
- Of the chat page: users who are not signed in, whose turns no conversation holds; the text of the
  deltas. The other pages show the reply of one request.
- Of the evolution and the launcher: a tick over several models and the usage signals (scheduler.py,
  signals.py); `plan`, `run_local` and `jobspec.py`, which build and check commands and run one local
  process. A launcher process that is killed takes its daemon timers with it: nothing in the
  code handles that, and no run claims anything of it.
- Listing, reading and exporting conversations, and downloads of datasets, which change nothing.

## 9 Plan

Done in this order, most important behaviour first: evolution with its slot; device grant with
its abstract grant; launcher; limiter; chat pipeline with its abstract turn; each with its
proofs; conversations; the decoding engine; the services around the pipeline.

Every safety property that a run checks is a theorem but for `MaskIsExact`. Next are models:
evolution over several hosted models with its usage signals; the JSON validation of the repair
loop.
