---------------------------- MODULE ChampionSlot ----------------------------
(***************************************************************************)
(* What the evolution subsystem promises about the one model a hosted      *)
(* adapter serves, whatever runs and rollbacks overlap: a step either      *)
(* leaves the slot alone, installs a challenger that beats some model this *)
(* slot has served before, or puts back a model it has served before.      *)
(***************************************************************************)
EXTENDS Integers

CONSTANTS
    Models,     \* fitted models
    Initial,    \* the model the adapter is built with
    Quality     \* Quality[m]: the measured objective of m, higher is better

VARIABLES
    served,     \* the model answering requests
    everServed  \* every model that has answered requests (history)

slotVars == <<served, everServed>>

Beats(m, c) == Quality[m] > Quality[c]

SlotInit ==
    /\ served = Initial
    /\ everServed = {Initial}

Promote ==
    \E m \in Models, c \in everServed :
        /\ Beats(m, c)
        /\ served' = m
        /\ everServed' = everServed \cup {m}

Restore ==
    /\ served' \in everServed
    /\ UNCHANGED everServed

SlotNext == Promote \/ Restore

SlotSpec == SlotInit /\ [][SlotNext]_slotVars
=============================================================================
