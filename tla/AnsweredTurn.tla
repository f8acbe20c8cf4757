---------------------------- MODULE AnsweredTurn ----------------------------
(***************************************************************************)
(* What the chat route promises about a request and the conversation it    *)
(* belongs to: the client hears an answer, and the history either gets all *)
(* of it, once and last, or nothing of it.                                 *)
(***************************************************************************)
EXTENDS Sequences

CONSTANTS
    Requests,
    Texts,
    NoTurn

VARIABLES
    heard,      \* heard[r]: what the client has been answered, in order
    noted,      \* noted[r]: the answer in the history, or NoTurn
    closed      \* the requests that are over

turnVars == <<heard, noted, closed>>

TurnInit ==
    /\ heard = [r \in Requests |-> <<>>]
    /\ noted = [r \in Requests |-> NoTurn]
    /\ closed = {}

Say(r) ==
    /\ r \notin closed
    /\ \E text \in Texts : heard' = [heard EXCEPT ![r] = Append(@, text)]
    /\ closed' \in {closed, closed \cup {r}}
    /\ UNCHANGED noted

\* The turn is recorded, and the request is over.
Note(r) ==
    /\ r \notin closed
    /\ noted' = [noted EXCEPT ![r] = heard[r]]
    /\ closed' = closed \cup {r}
    /\ UNCHANGED heard

Close(r) ==
    /\ r \notin closed
    /\ closed' = closed \cup {r}
    /\ UNCHANGED <<heard, noted>>

TurnNext == \E r \in Requests : Say(r) \/ Note(r) \/ Close(r)

TurnSpec == TurnInit /\ [][TurnNext]_turnVars
=============================================================================
