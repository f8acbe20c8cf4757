----------------------------- MODULE Evolution -----------------------------
(***************************************************************************)
(* The self-evolution of one hosted mixle model: mixle_mlops/evolve and    *)
(* its routes.  Runs (POST /v1/evolve/{model} on threadpool threads, and   *)
(* the timer loop of gateway/app.py) and rollbacks share the adapter's     *)
(* three attributes with no lock; every attribute access is a step.        *)
(*                                                                         *)
(* mixle.evolve.improve is outside src/: it raises, returns no verified    *)
(* challenger, or returns one that beats the champion it was GIVEN.        *)
(***************************************************************************)
EXTENDS Integers, Sequences

CONSTANTS
    Models, Initial, Quality,   \* as in ChampionSlot
    NoModel,                    \* Python's None in a model attribute
    Triggers,                   \* threadpool threads serving POST /v1/evolve/{model}
    Loop,                       \* the timer task _evolution_loop
    Rollbackers,                \* threads serving POST /v1/evolve/{model}/rollback
    Row,                        \* observations
    Requests,                   \* the records a POST body may carry
    InitialFit, NoFit,          \* the adapter's fit_data argument, or NoFit for None
    MinRows,                    \* 4 in the source: what improve needs to split
    MaxFit                      \* 10000 in the source: observations retained

ASSUME ModelAssumption ==
    /\ Initial \in Models
    /\ NoModel \notin Models
    /\ Quality \in [Models -> Int]
ASSUME RunAssumption == Loop \notin Triggers
ASSUME DataAssumption ==
    /\ Requests \subseteq Seq(Row)
    /\ NoFit \notin Seq(Row)
    /\ InitialFit \in Seq(Row) \cup {NoFit}
    /\ MinRows \in Nat
    /\ MaxFit \in Nat \ {0}

Runs == Triggers \cup {Loop}

VARIABLES
    alone,      \* TRUE: runs and rollbacks happen to come one at a time
    served,     \* adapter._model
    previous,   \* adapter._previous_model
    fitData,    \* adapter._fit_data
    lineage,    \* promoted models with a committed EvolutionRecord (database)
    unrecorded, \* promoted models whose record could not be committed (history)
    everServed, \* every model served so far (history)
    pc,         \* where each run is
    job,        \* the locals of each run
    bpc,        \* where each rollback is
    target      \* the predecessor each rollback has read

adapter == <<served, previous, fitData>>
records == <<lineage, unrecorded>>
rollbacks == <<bpc, target>>
vars == <<alone, adapter, records, everServed, pc, job, rollbacks>>

Beats(m, c) == Quality[m] > Quality[c]

NewJob(champion, supplied) ==
    [champion |-> champion, rows |-> supplied, retained |-> <<>>,
     result |-> NoModel, outgoing |-> NoModel]
NoJob == NewJob(NoModel, <<>>)

ModelOrNone == Models \cup {NoModel}

JobType == [champion : ModelOrNone, rows : Seq(Row), retained : Seq(Row),
            result : ModelOrNone, outgoing : ModelOrNone]

PcType == {"idle", "retained", "improve", "outgoing", "keep", "swap", "fit", "record"}

TypeOK ==
    /\ alone \in BOOLEAN
    /\ served \in Models
    /\ previous \in ModelOrNone
    /\ fitData \in Seq(Row) \cup {NoFit}
    /\ lineage \subseteq Models
    /\ unrecorded \subseteq Models
    /\ everServed \subseteq Models
    /\ pc \in [Runs -> PcType]
    /\ job \in [Runs -> JobType]
    /\ bpc \in [Rollbackers -> {"idle", "restore", "clear"}]
    /\ target \in [Rollbackers -> ModelOrNone]

Init ==
    /\ alone \in BOOLEAN
    /\ served = Initial
    /\ previous = NoModel
    /\ fitData = InitialFit
    /\ lineage = {}
    /\ unrecorded = {}
    /\ everServed = {Initial}
    /\ pc = [r \in Runs |-> "idle"]
    /\ job = [r \in Runs |-> NoJob]
    /\ bpc = [b \in Rollbackers |-> "idle"]
    /\ target = [b \in Rollbackers |-> NoModel]

MayStart ==
    alone => /\ \A r \in Runs : pc[r] = "idle"
             /\ \A b \in Rollbackers : bpc[b] = "idle"

-----------------------------------------------------------------------------
(* EvolutionWorker.run *)

\* Mutated form of Begin: the champion is the one cached when the adapter was built.
BeginCachedChampion(r, supplied) ==
    /\ pc[r] = "idle"
    /\ MayStart
    /\ job' = [job EXCEPT ![r] = NewJob(Initial, supplied)]
    /\ pc' = [pc EXCEPT ![r] = "retained"]
    /\ UNCHANGED <<adapter, records, everServed, rollbacks>>

\* The run enters and reads the champion.
Begin(r, supplied) ==
    /\ pc[r] = "idle"
    /\ MayStart
    /\ job' = [job EXCEPT ![r] = NewJob(served, supplied)]
    /\ pc' = [pc EXCEPT ![r] = "retained"]
    /\ UNCHANGED <<adapter, records, everServed, rollbacks>>

Trigger(r) ==
    /\ r \in Triggers
    /\ \E supplied \in Requests : Begin(r, supplied)

\* The loop's sleep is over: a tick supplies no data.
Tick(r) == r = Loop /\ Begin(r, <<>>)

\* The run is over but for its record, which says what it promoted, if anything.
ToRecord(r, promoted) ==
    /\ pc' = [pc EXCEPT ![r] = "record"]
    /\ job' = [job EXCEPT ![r] = [NoJob EXCEPT !.result = promoted]]

Retained == IF fitData = NoFit THEN <<>> ELSE fitData

\* The observations to improve on: fall back to the retained ones when the
\* request brought too few.
Observations(supplied) ==
    IF Len(supplied) < MinRows THEN Retained \o supplied ELSE supplied

ReadRetained(r) ==
    /\ pc[r] = "retained"
    /\ LET rows == Observations(job[r].rows) IN
        IF Len(rows) < MinRows
        THEN ToRecord(r, NoModel)
        ELSE /\ job' = [job EXCEPT ![r].retained = Retained, ![r].rows = rows]
             /\ pc' = [pc EXCEPT ![r] = "improve"]
    /\ UNCHANGED <<adapter, records, everServed, rollbacks>>

\* improve raised, or verified no challenger, or one that promote=False or a
\* policy with approval holds back.
NoPromotion(r) ==
    /\ pc[r] = "improve"
    /\ ToRecord(r, NoModel)
    /\ UNCHANGED <<adapter, records, everServed, rollbacks>>

\* Mutated form of Verified: a result is promoted without looking at .verified.
VerifiedUnchecked(r) ==
    /\ pc[r] = "improve"
    /\ \E m \in Models : job' = [job EXCEPT ![r].result = m]
    /\ pc' = [pc EXCEPT ![r] = "outgoing"]
    /\ UNCHANGED <<adapter, records, everServed, rollbacks>>

\* improve returned a challenger it verified against the run's champion.
Verified(r) ==
    /\ pc[r] = "improve"
    /\ \E m \in Models :
        /\ Beats(m, job[r].champion)
        /\ job' = [job EXCEPT ![r].result = m]
    /\ pc' = [pc EXCEPT ![r] = "outgoing"]
    /\ UNCHANGED <<adapter, records, everServed, rollbacks>>

-----------------------------------------------------------------------------
(* EvolutionWorker._promote: four accesses to the adapter *)

ReadOutgoing(r) ==
    /\ pc[r] = "outgoing"
    /\ job' = [job EXCEPT ![r].outgoing = served]
    /\ pc' = [pc EXCEPT ![r] = "keep"]
    /\ UNCHANGED <<adapter, records, everServed, rollbacks>>

\* Mutated form of KeepOutgoing: the first rollback point is never replaced.
KeepFirstOutgoing(r) ==
    /\ pc[r] = "keep"
    /\ previous' = IF previous = NoModel THEN job[r].outgoing ELSE previous
    /\ pc' = [pc EXCEPT ![r] = "swap"]
    /\ UNCHANGED <<served, fitData, records, everServed, job, rollbacks>>

KeepOutgoing(r) ==
    /\ pc[r] = "keep"
    /\ previous' = job[r].outgoing
    /\ pc' = [pc EXCEPT ![r] = "swap"]
    /\ UNCHANGED <<served, fitData, records, everServed, job, rollbacks>>

Swap(r) ==
    /\ pc[r] = "swap"
    /\ served' = job[r].result
    /\ everServed' = everServed \cup {job[r].result}
    /\ pc' = [pc EXCEPT ![r] = "fit"]
    /\ UNCHANGED <<previous, fitData, records, job, rollbacks>>

\* (retained + rows)[-MaxFit:]
LastRows(s) == IF Len(s) > MaxFit THEN SubSeq(s, Len(s) - MaxFit + 1, Len(s)) ELSE s

RetainRows(r) ==
    /\ pc[r] = "fit"
    /\ fitData' = IF fitData = NoFit THEN NoFit
                  ELSE LastRows(job[r].retained \o job[r].rows)
    /\ ToRecord(r, job[r].result)
    /\ UNCHANGED <<served, previous, records, everServed, rollbacks>>

-----------------------------------------------------------------------------
(* record_run, and the end of the request or of the pass *)

Finish(r) ==
    /\ pc' = [pc EXCEPT ![r] = "idle"]
    /\ job' = [job EXCEPT ![r] = NoJob]
    /\ UNCHANGED <<adapter, everServed, rollbacks>>

Promoted(r) == {job[r].result} \cap Models

\* Mutated form of RecordRun: the committed record does not say `promoted'.
RecordUnpromoted(r) ==
    /\ pc[r] = "record"
    /\ UNCHANGED records
    /\ Finish(r)

RecordRun(r) ==
    /\ pc[r] = "record"
    /\ lineage' = lineage \cup Promoted(r)
    /\ UNCHANGED unrecorded
    /\ Finish(r)

\* Mutated form of RecordFails: the loop does not catch what a pass raises.
RecordFailureEndsLoop(r) ==
    /\ pc[r] = "record"
    /\ unrecorded' = unrecorded \cup Promoted(r)
    /\ pc' = [pc EXCEPT ![r] = IF r = Loop THEN "ended" ELSE "idle"]
    /\ job' = [job EXCEPT ![r] = NoJob]
    /\ UNCHANGED <<adapter, lineage, everServed, rollbacks>>

\* The commit raises: a trigger answers 500, the loop swallows the exception.
RecordFails(r) ==
    /\ pc[r] = "record"
    /\ unrecorded' = unrecorded \cup Promoted(r)
    /\ UNCHANGED lineage
    /\ Finish(r)

-----------------------------------------------------------------------------
(* EvolutionWorker.rollback *)

\* Mutated form of RollbackRead: no test for a missing predecessor.
RollbackReadUnchecked(b) ==
    /\ bpc[b] = "idle"
    /\ MayStart
    /\ target' = [target EXCEPT ![b] = previous]
    /\ bpc' = [bpc EXCEPT ![b] = "restore"]
    /\ UNCHANGED <<adapter, records, everServed, pc, job>>

RollbackRead(b) ==
    /\ bpc[b] = "idle"
    /\ MayStart
    /\ previous # NoModel
    /\ target' = [target EXCEPT ![b] = previous]
    /\ bpc' = [bpc EXCEPT ![b] = "restore"]
    /\ UNCHANGED <<adapter, records, everServed, pc, job>>

RollbackRestore(b) ==
    /\ bpc[b] = "restore"
    /\ served' = target[b]
    /\ target' = [target EXCEPT ![b] = NoModel]
    /\ bpc' = [bpc EXCEPT ![b] = "clear"]
    /\ UNCHANGED <<previous, fitData, records, everServed, pc, job>>

RollbackClear(b) ==
    /\ bpc[b] = "clear"
    /\ previous' = NoModel
    /\ bpc' = [bpc EXCEPT ![b] = "idle"]
    /\ UNCHANGED <<served, fitData, records, everServed, pc, job, target>>

-----------------------------------------------------------------------------
\* The gateway process dies and is started again: build_registry builds the
\* adapter anew, requests in flight are gone, the lineage table survives.
Restart ==
    /\ served' = Initial
    /\ previous' = NoModel
    /\ fitData' = InitialFit
    /\ pc' = [r \in Runs |-> "idle"]
    /\ job' = [r \in Runs |-> NoJob]
    /\ bpc' = [b \in Rollbackers |-> "idle"]
    /\ target' = [b \in Rollbackers |-> NoModel]
    /\ UNCHANGED <<records, everServed>>

Run(r) ==
    \/ Trigger(r)
    \/ Tick(r)
    \/ ReadRetained(r)
    \/ NoPromotion(r)
    \/ Verified(r)
    \/ ReadOutgoing(r)
    \/ KeepOutgoing(r)
    \/ Swap(r)
    \/ RetainRows(r)
    \/ RecordRun(r)
    \/ RecordFails(r)

Rollback(b) == RollbackRead(b) \/ RollbackRestore(b) \/ RollbackClear(b)

Next ==
    /\ \/ \E r \in Runs : Run(r)
       \/ \E b \in Rollbackers : Rollback(b)
       \/ Restart
    /\ UNCHANGED alone

Spec == Init /\ [][Next]_vars

\* The event loop keeps scheduling its timer task; requests and restarts come
\* when they come.
FairSpec == Spec /\ WF_vars(Run(Loop) /\ UNCHANGED alone)

-----------------------------------------------------------------------------
(* Properties *)

\* Whatever runs, rollbacks and restarts overlap, the model being served is at
\* least as good as the one the adapter was built with: every challenger beat a
\* champion that had itself been served.
NeverBelowInitial == Quality[served] >= Quality[Initial]

\* Every model a run or a rollback carries has been served, except a verified
\* result, which beats the champion its run read; and nothing served is below
\* the initial model.  This is what makes the slot's promise inductive.
Grounded ==
    /\ {Initial, served} \subseteq everServed
    /\ previous \in everServed \cup {NoModel}
    /\ \A r \in Runs : pc[r] \notin {"idle", "record"} => job[r].champion \in everServed
    /\ \A r \in Runs : pc[r] \in {"outgoing", "keep", "swap"} =>
            job[r].result \in Models /\ Beats(job[r].result, job[r].champion)
    /\ \A r \in Runs : pc[r] = "keep" => job[r].outgoing \in everServed
    /\ \A b \in Rollbackers : bpc[b] = "restore" => target[b] \in everServed
    /\ \A m \in everServed : Quality[m] >= Quality[Initial]

\* The lineage explains the model being served: it is the initial model, or a
\* promotion the table records, or one whose run has not come to record_run yet
\* or could not commit there.
Accounted(m) ==
    \/ m \in {Initial} \cup lineage \cup unrecorded
    \/ \E r \in Runs : pc[r] \in {"fit", "record"} /\ job[r].result = m
ServedAccounted == Accounted(served)

\* "A run can never serve a worse model" (worker.py): the model a promotion puts
\* in service is no worse than the one it displaces.
NeverDegrade ==
    [][\A r \in Runs : Swap(r) => Quality[served'] >= Quality[served]]_vars

\* That holds of runs and rollbacks that come one at a time, across any sequence
\* of promotions, rollbacks and restarts.
NeverDegradeAlone ==
    [][alone => \A r \in Runs : Swap(r) => Quality[served'] >= Quality[served]]_vars

\* One at a time, a promotion makes what it displaces the rollback point, and a
\* rollback serves the rollback point.
RollbackPointAlone ==
    [][alone => /\ \A r \in Runs : Swap(r) => previous' = served
                /\ \A b \in Rollbackers : RollbackRestore(b) => served' = previous]_vars

\* One at a time, retaining a run's observations loses none that were retained
\* before, until the window is full.
RowsOf(s) == {s[i] : i \in DOMAIN s}
RowsKeptAlone ==
    [][alone => \A r \in Runs : RetainRows(r) /\ fitData # NoFit =>
            Len(fitData') = MaxFit \/ RowsOf(fitData) \subseteq RowsOf(fitData')]_vars

\* The timer loop starts passes for ever, whatever earlier passes ran into and
\* whatever overlaps them.
LoopKeepsTicking == []<>(alone \/ pc[Loop] = "retained")

\* The adapter's model attribute is a champion slot: the abstract promise of
\* ChampionSlot holds of every interleaving.
Slot == INSTANCE ChampionSlot
SlotSpec == Slot!SlotSpec
=============================================================================
