------------------------------- MODULE Engines -------------------------------
(* One call of a local engine of either kind: the speculative adapter        *)
(* (SpeculativeDecoding) or the local engine adapter (LocalEngine).  The     *)
(* call that is not made stays as it begins.                                 *)
EXTENDS SpeculativeDecoding

CONSTANTS TextOf(_),
          Jobs, IdleJob,    \* the calls of the speculative adapter, and one that is not made
          Calls, IdleCall   \* those of the local engine

VARIABLES part,     \* the adapter called
          call, yielded, state, done, shown, answered

engineVars == <<call, yielded, state, done, shown, answered>>

Engine == INSTANCE LocalEngine WITH out <- yielded

Speculating ==
    /\ part = "speculative"
    /\ RoundNext
    /\ UNCHANGED <<part, engineVars>>

Engaged ==
    /\ part = "local"
    /\ Engine!Next
    /\ UNCHANGED <<part, roundVars>>

EnginesInit ==
    \/ part = "speculative" /\ InitIn(Jobs) /\ Engine!InitIn({IdleCall})
    \/ part = "local" /\ InitIn({IdleJob}) /\ Engine!InitIn(Calls)

EnginesSpec == EnginesInit /\ [][Speculating \/ Engaged]_<<part, roundVars, engineVars>>

\* LocalEngineAdapter.stream: what the client was sent is the text that chat
\* gives for these tokens.
StreamShowsTheAnswer == Engine!StreamShowsTheAnswer

=============================================================================
