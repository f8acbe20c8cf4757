--------------------------- MODULE Conversations ---------------------------
(***************************************************************************)
(* Conversation history: mixle_mlops/conversations/service.py, the         *)
(* _persist of gateway/routes/chat.py and DELETE /v1/conversations/{id}.   *)
(* A chat turn is recorded with up to three commits; a delete lists the    *)
(* messages, then removes those and the conversation with one commit.      *)
(* Turns of one gateway process do not overlap (_persist never awaits);    *)
(* deletes run on threadpool threads and come between any two steps.       *)
(*                                                                         *)
(* The database is the default SQLite, which enforces no foreign keys.     *)
(* An UPDATE or a reload of a row that has gone raises; _persist swallows  *)
(* what is raised.  Every turn names its model, so that a conversation     *)
(* without one, which persist_turn would complete, does not occur.         *)
(*                                                                         *)
(* A thread is read in the order of created_at, which is taken when a      *)
(* message is made, one after the other within a turn.                     *)
(***************************************************************************)
EXTENDS Naturals

CONSTANTS
    Users,
    Turns,          \* chat completions being recorded
    Deletes,        \* delete requests
    Ids,            \* conversation ids
    NoId            \* no conversation_id in the request, or in the reply

ASSUME NoIdAssumption == NoId \notin Ids

VARIABLES
    oneGateway, \* TRUE: one gateway process; FALSE: a replica per turn
    owner,      \* owner[i]: conversations ever created (history)
    live,       \* ids of the conversations in the table
    messages,   \* the rows of the message table
    clock,      \* the time that the next message is created at
    pc,         \* pc[t]: where a turn is
    user,       \* user[t]
    conv,       \* conv[t]: the conversation a turn works on
    replied,    \* replied[t]: the id sent back, in X-Conversation-Id
    dpc,        \* dpc[d]: where a delete is
    doomed      \* doomed[d]: what a delete is about to remove, and (history)
                \* the turns that had ended when it read that

table == <<owner, live, messages, clock>>
turns == <<pc, user, conv, replied>>
deletes == <<dpc, doomed>>
vars == <<oneGateway, table, turns, deletes>>

Message == [conv : Ids, turn : Turns, role : {"user", "assistant"}, created : Nat]
NoDoom == [conv |-> NoId, rows |-> {}, ended |-> {}]
Doom == [conv : Ids \cup {NoId}, rows : SUBSET Message, ended : SUBSET Turns]
PcType == {"new", "create", "user", "reload", "assistant", "reply", "done", "failed"}

TypeOK ==
    /\ oneGateway \in BOOLEAN
    /\ DOMAIN owner \subseteq Ids
    /\ \A i \in DOMAIN owner : owner[i] \in Users
    /\ live \subseteq DOMAIN owner
    /\ messages \subseteq Message
    /\ clock \in Nat
    /\ pc \in [Turns -> PcType]
    /\ user \in [Turns -> Users]
    /\ conv \in [Turns -> Ids \cup {NoId}]
    /\ replied \in [Turns -> Ids \cup {NoId}]
    /\ dpc \in [Deletes -> {"new", "commit", "done"}]
    /\ doomed \in [Deletes -> Doom]

Init ==
    /\ oneGateway \in BOOLEAN
    /\ owner = [i \in {} |-> NoId]
    /\ live = {}
    /\ messages = {}
    /\ clock = 0
    /\ pc = [t \in Turns |-> "new"]
    /\ user \in [Turns -> Users]
    /\ conv = [t \in Turns |-> NoId]
    /\ replied = [t \in Turns |-> NoId]
    /\ dpc = [d \in Deletes |-> "new"]
    /\ doomed = [d \in Deletes |-> NoDoom]

-----------------------------------------------------------------------------
(* _persist and persist_turn *)

Recording(t) == pc[t] \notin {"new", "done", "failed"}

Goto(t, where) == pc' = [pc EXCEPT ![t] = where]

\* Mutated form of Lookup: recording a turn lets other turns in between.
LookupWhileRecording(t) ==
    /\ pc[t] = "new"
    /\ \E i \in DOMAIN owner \cup {NoId} :
        IF i \in live /\ owner[i] = user[t]
        THEN Goto(t, "user") /\ conv' = [conv EXCEPT ![t] = i]
        ELSE Goto(t, "create") /\ UNCHANGED conv
    /\ UNCHANGED <<table, user, replied, deletes>>

\* The request names a conversation, perhaps deleted or of another user, or none.
Lookup(t) ==
    /\ pc[t] = "new"
    /\ oneGateway => ~\E other \in Turns : Recording(other)
    /\ \E i \in DOMAIN owner \cup {NoId} :
        IF i \in live /\ owner[i] = user[t]
        THEN Goto(t, "user") /\ conv' = [conv EXCEPT ![t] = i]
        ELSE Goto(t, "create") /\ UNCHANGED conv
    /\ UNCHANGED <<table, user, replied, deletes>>

\* create_conversation, with a fresh uuid.
Create(t) ==
    /\ pc[t] = "create"
    /\ \E i \in Ids \ DOMAIN owner :
        /\ owner' = [j \in DOMAIN owner \cup {i} |-> IF j = i THEN user[t] ELSE owner[j]]
        /\ live' = live \cup {i}
        /\ conv' = [conv EXCEPT ![t] = i]
    /\ Goto(t, "user")
    /\ UNCHANGED <<messages, clock, user, replied, deletes>>

\* append_message: one commit inserts the message and updates the conversation.
AppendMessage(t, role, where) ==
    /\ IF conv[t] \in live
       THEN /\ messages' = messages \cup {[conv |-> conv[t], turn |-> t, role |-> role, created |-> clock]}
            /\ clock' = clock + 1
            /\ Goto(t, where)
       ELSE /\ UNCHANGED <<messages, clock>>
            /\ Goto(t, "failed")
    /\ UNCHANGED <<owner, live, user, conv, replied, deletes>>

AppendUser(t) == pc[t] = "user" /\ AppendMessage(t, "user", "reload")

\* conv.id after a commit reads the conversation again.
Reload(t) ==
    /\ pc[t] = "reload"
    /\ Goto(t, IF conv[t] \in live THEN "assistant" ELSE "failed")
    /\ UNCHANGED <<table, user, conv, replied, deletes>>

\* Mutated form of AppendAssistant: the reply does not wait for the second message.
AppendAssistantSkipped(t) ==
    /\ pc[t] = "assistant"
    /\ Goto(t, "reply")
    /\ UNCHANGED <<table, user, conv, replied, deletes>>

AppendAssistant(t) == pc[t] = "assistant" /\ AppendMessage(t, "assistant", "reply")

Reply(t) ==
    /\ pc[t] = "reply"
    /\ IF conv[t] \in live
       THEN replied' = [replied EXCEPT ![t] = conv[t]] /\ Goto(t, "done")
       ELSE UNCHANGED replied /\ Goto(t, "failed")
    /\ UNCHANGED <<table, user, conv, deletes>>

\* A commit raises, or the process ends.
Crash(t) ==
    /\ Recording(t)
    /\ Goto(t, "failed")
    /\ UNCHANGED <<table, user, conv, replied, deletes>>

-----------------------------------------------------------------------------
(* delete_conversation *)

Ended == {t \in Turns : pc[t] \in {"done", "failed"}}
RowsOf(i) == {m \in messages : m.conv = i}

\* A user deletes a conversation of theirs: it and its messages are read.
DeleteRead(d) ==
    /\ dpc[d] = "new"
    /\ \E i \in live :
        doomed' = [doomed EXCEPT ![d] = [conv |-> i, rows |-> RowsOf(i), ended |-> Ended]]
    /\ dpc' = [dpc EXCEPT ![d] = "commit"]
    /\ UNCHANGED <<table, turns>>

\* Mutated form of DeleteCommit: only the user's side of the thread is removed.
DeleteCommitQuestions(d) ==
    /\ dpc[d] = "commit"
    /\ live' = live \ {doomed[d].conv}
    /\ messages' = messages \ {m \in doomed[d].rows : m.role = "user"}
    /\ dpc' = [dpc EXCEPT ![d] = "done"]
    /\ doomed' = [doomed EXCEPT ![d] = NoDoom]
    /\ UNCHANGED <<owner, clock, turns>>

\* A row that another delete removed first is no error.
DeleteCommit(d) ==
    /\ dpc[d] = "commit"
    /\ live' = live \ {doomed[d].conv}
    /\ messages' = messages \ doomed[d].rows
    /\ dpc' = [dpc EXCEPT ![d] = "done"]
    /\ doomed' = [doomed EXCEPT ![d] = NoDoom]
    /\ UNCHANGED <<owner, clock, turns>>

-----------------------------------------------------------------------------
Turn(t) ==
    \/ Lookup(t)
    \/ Create(t)
    \/ AppendUser(t)
    \/ Reload(t)
    \/ AppendAssistant(t)
    \/ Reply(t)
    \/ Crash(t)

Delete(d) == DeleteRead(d) \/ DeleteCommit(d)

Next ==
    /\ (\E t \in Turns : Turn(t)) \/ (\E d \in Deletes : Delete(d))
    /\ UNCHANGED oneGateway

Spec == Init /\ [][Next]_vars

-----------------------------------------------------------------------------
(* Properties *)

Rows(t) == {m \in messages : m.turn = t}

\* What a turn wrote is a question and, later, an answer.
QuestionThenAnswer(t) ==
    \E q, a \in messages :
        Rows(t) = {q, a} /\ q.role = "user" /\ a.role = "assistant" /\ q.created < a.created

\* Nothing in the thread of two messages comes between them.
NextTo(q, a) ==
    /\ q.conv = a.conv /\ q.created < a.created
    /\ \A m \in messages : m.conv = a.conv => m.created <= q.created \/ a.created <= m.created

\* A turn whose conversation id the client is given is in the history whole and
\* in order, as long as the conversation exists; and no turn, however it ends,
\* has left anything in another user's conversation.
RepliedTurnIsWhole ==
    /\ \A t \in Turns : replied[t] \in live => QuestionThenAnswer(t)
    /\ \A m \in messages : owner[m.conv] = user[m.turn]

\* Within one gateway process each answer follows the question it answers, even
\* when other turns of the conversation fail half way.
AnswerFollowsQuestion ==
    oneGateway => \A a \in messages :
        a.role = "assistant" /\ a.conv \in live =>
            \E q \in messages : q.turn = a.turn /\ q.role = "user" /\ NextTo(q, a)

\* "Delete a conversation (and its messages)" (service.py): of a turn that had
\* ended when the delete began, nothing stays in the table.  What may outlive its
\* conversation is a message of a turn recorded while the delete ran.
DeleteRemovesEndedTurns ==
    [][\A d \in Deletes : DeleteCommit(d) =>
            \A m \in messages' :
                m.conv = doomed[d].conv => m.turn \notin doomed[d].ended]_vars
=============================================================================
