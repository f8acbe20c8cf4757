------------------------------ MODULE ChatPage ------------------------------
(* The chat page of a signed-in user (frontend/app/chat/page.tsx, and the    *)
(* streaming client of frontend/lib/api.ts), click by click and callback by  *)
(* callback, with the recording of its turns by the gateway and another tab. *)
(*                                                                           *)
(* A turn is one completion the page runs: a message sent, edited or         *)
(* regenerated.  A chat is what the user sees between two clicks on New      *)
(* chat.  The conversation a turn opens is named after the turn.             *)
EXTENDS Naturals, Sequences, FiniteSets

CONSTANTS Turn,        \* turns, in the order they are begun: 1 .. some bound
          MaxChats,    \* bound on the chats of the page
          None,        \* no conversation, no turn
          Earlier,     \* a conversation the user had before the page was opened
          OtherTab     \* the conversation of another tab

VARIABLES messages,         \* sequence of [role, turn, pending]
          streaming,        \* React state
          abortRef,         \* the turn whose controller Stop aborts
          conversationRef,  \* the conversation the next turn is threaded into
          turn,             \* [at, advanced, history, asks, found, chat] of each turn
          recorded,         \* the conversation the gateway put a turn in
          gateway,          \* turns the gateway is still at work on
          recent,           \* the conversation updated last
          chat,             \* number of the chat on the page
          hasty,            \* chats that were left while a turn of theirs was unfinished
          overlaps,         \* turns were on their way at the same time
          upsets            \* what else went wrong: "stopped", "broken", "error", "late",
                            \* "unrecorded", "elsewhere"

vars == <<messages, streaming, abortRef, conversationRef, turn, recorded, gateway, recent,
          chat, hasty, overlaps, upsets>>

NoTurn == [at |-> "none", advanced |-> FALSE, history |-> <<>>, asks |-> None, found |-> None, chat |-> 0]

Init ==
    /\ messages = <<>>
    /\ streaming = FALSE
    /\ abortRef = None
    /\ conversationRef = None
    /\ turn = [t \in Turn |-> NoTurn]
    /\ recorded = [t \in Turn |-> None]
    /\ gateway = {}
    /\ recent \in {None, Earlier}
    /\ chat = 1
    /\ hasty = {}
    /\ overlaps = FALSE
    /\ upsets = {}

In(t, places) == turn[t].at \in places
Goto(t, there) == turn' = [turn EXCEPT ![t].at = there, ![t].found = None]

\* The next turn; the numbers bound how many there are.
Next1(t) == In(t, {"none"}) /\ \A u \in Turn : u < t => ~In(u, {"none"})

Running == {t \in Turn : In(t, {"running"})}
Unfinished == {t \in Turn : In(t, {"uploading", "running", "ended", "listing"})}

User(t) == [role |-> "user", turn |-> t, pending |-> FALSE]
Assistant(t) == [role |-> "assistant", turn |-> t, pending |-> TRUE]

-----------------------------------------------------------------------------
(* runCompletion.                                                           *)

\* Up to the request: the messages are set, the conversation is read.
RunCompletion(t, history, c) ==
    /\ messages' = Append(history, Assistant(t))
    /\ streaming' = TRUE
    /\ abortRef' = t
    /\ \E advanced \in BOOLEAN :
         turn' = [turn EXCEPT ![t] = [at |-> "running", advanced |-> advanced, history |-> <<>>,
                                      asks |-> conversationRef, found |-> None, chat |-> c]]
    /\ gateway' = gateway \cup {t}
    /\ overlaps' = (overlaps \/ Unfinished \ {t} # {})
    /\ UNCHANGED <<conversationRef, recorded, recent, chat, hasty, upsets>>

\* onSend: the attachments are uploaded before the completion begins, and the
\* messages are those of the click.
SendWithFiles(t) ==
    /\ Next1(t) /\ ~streaming
    /\ turn' = [turn EXCEPT ![t] = [NoTurn EXCEPT !.at = "uploading", !.chat = chat,
                                                  !.history = Append(messages, User(t))]]
    /\ overlaps' = (overlaps \/ Unfinished # {})
    /\ UNCHANGED <<messages, streaming, abortRef, conversationRef, recorded, gateway, recent,
                   chat, hasty, upsets>>

Uploaded(t) == In(t, {"uploading"}) /\ RunCompletion(t, turn[t].history, turn[t].chat)

Send(t) == Next1(t) /\ ~streaming /\ RunCompletion(t, Append(messages, User(t)), chat)

\* onEditUser, onRegenerate: the buttons are there while a turn runs as well.
Edit(t, i) ==
    /\ Next1(t) /\ messages[i].role = "user"
    /\ RunCompletion(t, SubSeq(messages, 1, i), chat)

Regenerate(t, i) ==
    /\ Next1(t) /\ messages[i].role = "assistant" /\ ~messages[i].pending
    /\ RunCompletion(t, SubSeq(messages, 1, i - 1), chat)

Settled(t) ==
    [i \in DOMAIN messages |->
       IF messages[i] = Assistant(t) THEN [messages[i] EXCEPT !.pending = FALSE] ELSE messages[i]]

\* Mutated form of Finally: done for a turn that was answered, and no other.
FinallyIfAnswered(t) ==
    /\ streaming' = (t \in gateway)
    /\ abortRef' = IF t \in gateway THEN abortRef ELSE None

\* What the end of a turn sets, whichever turn Stop would abort by then.
Finally(t) == streaming' = FALSE /\ abortRef' = None

Answered(t) == t \notin gateway

\* The answer of an advanced strategy.  Its X-Conversation-Id header names the
\* conversation, but the page is of another origin than the gateway, whose
\* CORSMiddleware exposes no header: the page reads null and keeps its reference.
AdvancedEnds(t) ==
    /\ t \in Running /\ turn[t].advanced /\ Answered(t)
    /\ messages' = Settled(t)
    /\ Finally(t)
    /\ Goto(t, "done")
    /\ UNCHANGED <<conversationRef, recorded, gateway, recent, chat, hasty, overlaps, upsets>>

\* A status that is not ok, or no connection: caught.
AdvancedFails(t) ==
    /\ t \in Running /\ turn[t].advanced
    /\ messages' = Settled(t)
    /\ Finally(t)
    /\ Goto(t, "done")
    /\ upsets' = upsets \cup {"error"}
    /\ UNCHANGED <<conversationRef, recorded, gateway, recent, chat, hasty, overlaps>>

\* The stream ends after the gateway has recorded the turn; an error event, or
\* a status that is not ok, ends it before.  The page asks for the user's
\* conversations when it has none for its own.
StreamEnds(t) ==
    /\ t \in Running /\ ~turn[t].advanced
    /\ messages' = Settled(t)
    /\ Finally(t)
    /\ \/ /\ Answered(t)
          /\ Goto(t, IF conversationRef = None THEN "ended" ELSE "done")
          /\ UNCHANGED upsets
       \/ Goto(t, "done") /\ upsets' = upsets \cup {"error"}
    /\ UNCHANGED <<conversationRef, recorded, gateway, recent, chat, hasty, overlaps>>

\* The connection breaks in the middle of a stream: nothing catches it.
StreamBreaks(t) ==
    /\ t \in Running /\ ~turn[t].advanced
    /\ Goto(t, "broken")
    /\ upsets' = upsets \cup {"broken"}
    /\ UNCHANGED <<messages, streaming, abortRef, conversationRef, recorded, gateway, recent,
                   chat, hasty, overlaps>>

ListConversations(t) ==
    /\ In(t, {"ended"})
    /\ turn' = [turn EXCEPT ![t].at = "listing", ![t].found = recent]
    /\ UNCHANGED <<messages, streaming, abortRef, conversationRef, recorded, gateway, recent,
                   chat, hasty, overlaps, upsets>>

\* What is on the page by now is not looked at.
Discover(t) ==
    /\ In(t, {"listing"})
    /\ conversationRef' = IF turn[t].found = None THEN conversationRef ELSE turn[t].found
    /\ Goto(t, "done")
    /\ UNCHANGED <<messages, streaming, abortRef, recorded, gateway, recent, chat, hasty,
                   overlaps, upsets>>

-----------------------------------------------------------------------------
(* The other buttons.                                                       *)

\* stop: the fetch of the turn that abortRef holds rejects.  A stream that is
\* aborted is left as it is, an advanced turn is settled and finished.
Stop ==
    /\ streaming
    /\ upsets' = upsets \cup {"stopped"}
    /\ IF abortRef \in Running
       THEN /\ Goto(abortRef, IF turn[abortRef].advanced THEN "done" ELSE "aborted")
            /\ IF turn[abortRef].advanced
               THEN messages' = Settled(abortRef) /\ Finally(abortRef)
               ELSE streaming' = FALSE /\ UNCHANGED <<messages, abortRef>>
       ELSE streaming' = FALSE /\ UNCHANGED <<turn, messages, abortRef>>
    /\ UNCHANGED <<conversationRef, recorded, gateway, recent, chat, hasty, overlaps>>

\* Mutated form of Forgotten: the reference outlives the messages.
ForgottenNot == conversationRef

Forgotten == None

\* New chat: what runs goes on.
NewChat ==
    /\ messages # <<>> /\ chat < MaxChats
    /\ messages' = <<>>
    /\ conversationRef' = Forgotten
    /\ hasty' = IF Unfinished = {} THEN hasty ELSE hasty \cup {chat}
    /\ chat' = chat + 1
    /\ UNCHANGED <<streaming, abortRef, turn, recorded, gateway, recent, overlaps, upsets>>

-----------------------------------------------------------------------------
(* The gateway, and another tab.                                            *)

\* A turn is recorded in the conversation it asks for, or in one of its own.
\* A turn that is refused, that fails, whose recording fails or whose reader
\* has left may go unrecorded.
Record(t) ==
    /\ t \in gateway
    /\ gateway' = gateway \ {t}
    /\ \/ /\ recorded' = [recorded EXCEPT ![t] = IF turn[t].asks = None THEN t ELSE turn[t].asks]
          /\ recent' = recorded'[t]
          /\ upsets' = IF t \in Running THEN upsets ELSE upsets \cup {"late"}
       \/ upsets' = upsets \cup {"unrecorded"} /\ UNCHANGED <<recorded, recent>>
    /\ UNCHANGED <<messages, streaming, abortRef, conversationRef, turn, chat, hasty, overlaps>>

\* A turn of another tab is recorded.
Elsewhere ==
    /\ recent # OtherTab
    /\ recent' = OtherTab
    /\ upsets' = upsets \cup {"elsewhere"}
    /\ UNCHANGED <<messages, streaming, abortRef, conversationRef, turn, recorded, gateway,
                   chat, hasty, overlaps>>

Next ==
    \/ \E t \in Turn : \/ SendWithFiles(t) \/ Uploaded(t) \/ Send(t)
                       \/ \E i \in DOMAIN messages : Edit(t, i) \/ Regenerate(t, i)
                       \/ AdvancedEnds(t) \/ AdvancedFails(t) \/ StreamEnds(t) \/ StreamBreaks(t)
                       \/ ListConversations(t) \/ Discover(t) \/ Record(t)
    \/ Stop \/ NewChat \/ Elsewhere

-----------------------------------------------------------------------------
Recorded == {t \in Turn : recorded[t] # None}

\* A turn whose conversation the page does not learn of.
OpensUnseen(t) == turn[t].advanced /\ turn[t].asks = None

\* runCompletion, conversationRef and New chat.  Two chats share a conversation
\* only after a chat was left while a turn of it was on its way, a turn was
\* recorded late or not at all, or another tab was used; a chat is split in two
\* conversations only after that, after turns that overlapped, after a turn
\* that was stopped or failed, whose conversation the page does not look for, or
\* by an advanced turn that opened one, which api.ts has the page told of and the
\* browser keeps from it.  The page takes up a conversation that is older than it
\* only after a turn went unrecorded.
ConversationPerChat ==
    \A t, u \in Recorded :
      /\ recorded[t] = recorded[u] /\ turn[t].chat # turn[u].chat =>
           hasty # {} \/ upsets \cap {"late", "unrecorded", "elsewhere"} # {}
      /\ recorded[t] # recorded[u] /\ turn[t].chat = turn[u].chat =>
           \/ overlaps \/ hasty # {} \/ upsets \cap {"stopped", "error", "broken", "elsewhere"} # {}
           \/ OpensUnseen(t) \/ OpensUnseen(u)
      /\ recorded[t] = OtherTab => "elsewhere" \in upsets
      /\ recorded[t] = Earlier => "unrecorded" \in upsets

\* stop and the two ends of runCompletion: while turns did not overlap and no
\* connection broke, the page shows Stop exactly while a turn runs, Stop would
\* abort that turn, its answer is on the page until New chat is pressed, and
\* no other message waits for an answer but those of streams that were stopped.
StopReachesTheTurn ==
    ~overlaps /\ "broken" \notin upsets =>
      /\ streaming <=> Running # {}
      /\ \A t \in Running : /\ abortRef = t
                            /\ turn[t].chat = chat => \E i \in DOMAIN messages : messages[i] = Assistant(t)
      /\ \A i \in DOMAIN messages : messages[i].pending =>
           In(messages[i].turn, {"running", "aborted"})

=============================================================================
