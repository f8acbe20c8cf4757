----------------------------- MODULE McpSession -----------------------------
(* Calls that share one MCP client over a transport (mcp/client.py), and the *)
(* server at the other end (mcp/server.py).  Over stdio a lock is held from  *)
(* the write of a request to the read of a line; the write and the read run  *)
(* on threads, which a cancelled caller cannot stop.  Over HTTP every        *)
(* request has a connection of its own.                                      *)
EXTENDS Integers, Sequences, FiniteSets, Positions

CONSTANTS Call,          \* callers, of one call each
          Model,         \* the hosted models
          Scores(_)      \* whether a model has the score capability

VARIABLES over,          \* the transport: "stdio" or "http"
          wants,         \* what each caller asks for: [method, tool, goes]
          at,            \* where each caller is
          id,            \* the id of its request, 0 before it has one
          nextId,        \* MCPClient._id
          queue,         \* callers waiting for the lock or holding it, its holder first
          writes,        \* messages that threads are to write
          readers,       \* callers whose threads read a line
          toServer, fromServer,   \* the two pipes
          open,          \* the server runs
          reply          \* the line each caller was given

vars == <<over, wants, at, id, nextId, queue, writes, readers, toServer, fromServer, open, reply>>

-----------------------------------------------------------------------------
(* The server: what it answers to a message.                                *)

ListModels == <<"list_models">>
Chat(m) == <<"chat", m>>
Score(m) == <<"score", m>>

\* build_model_tools: the catalog, built again for every request.
Tools == {ListModels} \cup {Chat(m) : m \in Model} \cup {Score(m) : m \in {n \in Model : Scores(n)}}

Result(msg, body) == [id |-> msg.id, result |-> body]
Error(msg, code) == [id |-> msg.id, error |-> code]

\* What a tool does with its arguments: they are refused, the model cannot
\* score, the model raises, or there is a text.  What a tool raises is a
\* result, except a refusal.
CallTool(msg) ==
    IF msg.tool \notin Tools \/ msg.goes \in {"refused", "incapable"}
    THEN Error(msg, "invalid params")
    ELSE Result(msg, [isError |-> msg.goes = "raises", of |-> msg.tool])

Dispatch(msg) ==
    CASE msg.method = "initialize" -> Result(msg, "capabilities")
      [] msg.method = "ping" -> Result(msg, "nothing")
      [] msg.method = "tools/list" -> Result(msg, Tools)
      [] msg.method = "tools/call" -> CallTool(msg)
      [] OTHER -> Error(msg, "method not found")

IsNotification(msg) == msg.id = 0

\* serve_stdio: one message after another; a notification has no answer.
Serve ==
    /\ open /\ toServer # <<>>
    /\ toServer' = Tail(toServer)
    /\ fromServer' = IF IsNotification(Head(toServer)) THEN fromServer
                     ELSE Append(fromServer, Dispatch(Head(toServer)))
    /\ UNCHANGED <<over, wants, at, id, nextId, queue, writes, readers, open, reply>>

\* The server process ends; what it has written can still be read.
ServerEnds ==
    /\ open /\ over = "stdio"
    /\ open' = FALSE
    /\ UNCHANGED <<over, wants, at, id, nextId, queue, writes, readers, toServer, fromServer, reply>>

-----------------------------------------------------------------------------
(* The client.                                                              *)

Nothing == [id |-> 0]

InitIn(transports, plans) ==
    /\ over \in transports
    /\ wants \in plans
    /\ at = [c \in Call |-> "idle"]
    /\ id = [c \in Call |-> 0]
    /\ nextId = 0
    /\ queue = <<>>
    /\ writes = {}
    /\ readers = {}
    /\ toServer = <<>>
    /\ fromServer = <<>>
    /\ open = TRUE
    /\ reply = [c \in Call |-> Nothing]

Goto(c, there) == at' = [at EXCEPT ![c] = there]

RequestOf(c) == [id |-> id[c], method |-> wants[c].method, tool |-> wants[c].tool, goes |-> wants[c].goes]
Initialized == [id |-> 0, method |-> "notifications/initialized"]

\* The request of a caller, or after an answer to initialize the notification
\* that confirms it.
Confirms(c) == at[c] \in {"confirm", "notify"}
Message(c) == IF Confirms(c) THEN Initialized ELSE RequestOf(c)

\* _call: the id is taken before the lock is asked for.
Begin(c) ==
    /\ at[c] = "idle"
    /\ nextId' = nextId + 1
    /\ id' = [id EXCEPT ![c] = nextId']
    /\ queue' = IF over = "stdio" THEN Append(queue, c) ELSE queue
    /\ Goto(c, IF over = "stdio" THEN "waiting" ELSE "posting")
    /\ UNCHANGED <<over, wants, writes, readers, toServer, fromServer, open, reply>>

\* request: the lock is taken and the write handed to a thread.
Send(c) ==
    /\ at[c] \in {"waiting", "confirm"} /\ queue # <<>> /\ Head(queue) = c
    /\ writes' = writes \cup {[by |-> c, message |-> Message(c)]}
    /\ Goto(c, IF Confirms(c) THEN "notify" ELSE "sending")
    /\ UNCHANGED <<over, wants, id, nextId, queue, readers, toServer, fromServer, open, reply>>

\* A thread writes the line; the pipe of a server that has ended is broken.
Write(w) ==
    /\ w \in writes
    /\ writes' = writes \ {w}
    /\ IF open
       THEN /\ toServer' = Append(toServer, w.message)
            /\ CASE at[w.by] = "sending" -> Goto(w.by, "sent") /\ UNCHANGED queue
                 [] at[w.by] = "notify" -> Goto(w.by, "answered") /\ queue' = Tail(queue)
                 [] OTHER -> UNCHANGED <<at, queue>>
       ELSE /\ UNCHANGED toServer
            /\ IF at[w.by] \in {"sending", "notify"}
               THEN Goto(w.by, "failed") /\ queue' = Tail(queue)
               ELSE UNCHANGED <<at, queue>>
    /\ UNCHANGED <<over, wants, id, nextId, readers, fromServer, open, reply>>

\* Mutated form of Lock: the lock is held for the write only.
LockForTheWrite(c) == Tail(queue)

\* What a caller whose request is written leaves of the lock while it reads.
Lock(c) == queue

StartReading(c) ==
    /\ at[c] = "sent"
    /\ readers' = readers \cup {c}
    /\ queue' = Lock(c)
    /\ Goto(c, "reading")
    /\ UNCHANGED <<over, wants, id, nextId, writes, toServer, fromServer, open, reply>>

Released(c) == AtPositions(queue, {i \in DOMAIN queue : queue[i] # c})

\* A thread gets the next line, whoever's answer it is: the ids are not
\* compared.  The thread of a cancelled caller drops the line.
ReadLine(c) ==
    /\ c \in readers /\ fromServer # <<>>
    /\ readers' = readers \ {c}
    /\ fromServer' = Tail(fromServer)
    /\ IF at[c] = "reading"
       THEN Goto(c, "read") /\ reply' = [reply EXCEPT ![c] = Head(fromServer)]
       ELSE UNCHANGED <<at, reply>>
    /\ UNCHANGED <<over, wants, id, nextId, queue, writes, toServer, open>>

EndOfFile(c) ==
    /\ c \in readers /\ fromServer = <<>> /\ ~open
    /\ readers' = readers \ {c}
    /\ IF at[c] = "reading" THEN Goto(c, "failed") /\ queue' = Released(c) ELSE UNCHANGED <<at, queue>>
    /\ UNCHANGED <<over, wants, id, nextId, writes, toServer, fromServer, open, reply>>

IsError(line) == "error" \in DOMAIN line

\* _call and initialize, after the answer: an error is raised, and an answer
\* to initialize is confirmed.
Answered(c) ==
    /\ at[c] = "read"
    /\ IF wants[c].method = "initialize" /\ ~IsError(reply[c])
       THEN /\ Goto(c, "confirm")
            /\ queue' = IF over = "stdio" THEN Append(Released(c), c) ELSE queue
       ELSE Goto(c, IF IsError(reply[c]) THEN "raised" ELSE "answered") /\ queue' = Released(c)
    /\ UNCHANGED <<over, wants, id, nextId, writes, readers, toServer, fromServer, open, reply>>

\* HTTPTransport.request: an answer, or a status or a timeout that is raised.
Post(c) ==
    /\ over = "http"
    /\ \/ /\ at[c] = "posting"
          /\ Goto(c, "read")
          /\ reply' = [reply EXCEPT ![c] = Dispatch(Message(c))]
       \/ at[c] = "confirm" /\ Goto(c, "answered") /\ UNCHANGED reply
       \/ at[c] \in {"posting", "confirm"} /\ Goto(c, "failed") /\ UNCHANGED reply
    /\ UNCHANGED <<over, wants, id, nextId, queue, writes, readers, toServer, fromServer, open>>

InCall == {"waiting", "sending", "sent", "reading", "read", "confirm", "notify", "posting"}

\* The caller is cancelled (a timeout of its own, a request that is dropped):
\* the lock is released, a write no thread has begun may be withdrawn.
Cancel(c) ==
    /\ at[c] \in InCall
    /\ Goto(c, "cancelled")
    /\ queue' = Released(c)
    /\ writes' \in {writes, {w \in writes : w.by # c}}
    /\ UNCHANGED <<over, wants, id, nextId, readers, toServer, fromServer, open, reply>>

Next ==
    \/ Serve \/ ServerEnds
    \/ \E c \in Call : \/ Begin(c) \/ Send(c) \/ StartReading(c) \/ ReadLine(c) \/ EndOfFile(c)
                       \/ Answered(c) \/ Post(c) \/ Cancel(c)
    \/ \E w \in writes : Write(w)

-----------------------------------------------------------------------------
\* The calls cancelled before an answer or while it was confirmed.
Cancelled == {c \in Call : at[c] = "cancelled"}
Requests(pipe) == {i \in DOMAIN pipe : ~IsNotification(pipe[i])}
Unread == Len(fromServer) + Cardinality(Requests(toServer))

\* StdioTransport.request (no id is compared): an answer is the caller's own
\* unless a caller was cancelled, and then that of an earlier request, which no
\* other caller is given; answers nobody reads are at most as many as cancelled
\* callers; and while the server runs an answer is on its way for every thread
\* that reads, so no caller waits for ever.
AnswersAreOwn ==
    /\ \A c \in Call : reply[c] # Nothing =>
         /\ reply[c].id <= id[c]
         /\ Cancelled = {} => reply[c].id = id[c]
         /\ reply[c].id = id[c] => reply[c] = Dispatch(RequestOf(c))
         /\ \A d \in Call \ {c} : reply[d] # Nothing => reply[d].id # reply[c].id
    /\ open => /\ Unread <= Cardinality(readers) + Cardinality({c \in Call : at[c] = "sent"})
                             + Cardinality(Cancelled)
               /\ Cardinality(readers) <= Unread

=============================================================================
