--------------------------- MODULE EvolutionProofs ---------------------------
(***************************************************************************)
(* What holds of Evolution for every set of models, runs, rollbacks and    *)
(* observations.  TypeOK and Grounded are inductive together: from them    *)
(* follow NeverBelowInitial and the refinement of ChampionSlot.  Two       *)
(* further invariants, LineageExplains and Sequential, give what holds of  *)
(* the lineage and of operations that come one at a time.                  *)
(***************************************************************************)
EXTENDS Evolution, TLAPS

\* The retained window of a sequence of observations is one too.
LEMMA LastRowsType ==
    ASSUME NEW s \in Seq(Row)
    PROVE  LastRows(s) \in Seq(Row)
  <1>1. CASE Len(s) > MaxFit
    <2>1. \A i \in Len(s) - MaxFit + 1 .. Len(s) : i \in 1 .. Len(s)
      BY <1>1, DataAssumption
    <2>2. SubSeq(s, Len(s) - MaxFit + 1, Len(s)) \in Seq(Row)
      BY <1>1, <2>1, DataAssumption
    <2>3. QED
      BY <1>1, <2>2 DEF LastRows
  <1>2. CASE ~(Len(s) > MaxFit)
    BY <1>2 DEF LastRows
  <1>3. QED
    BY <1>1, <1>2

\* The observations a run falls back to are observations.
LEMMA RetainedType ==
    ASSUME TypeOK
    PROVE  Retained \in Seq(Row)
  BY DEF TypeOK, Retained

\* What a run starts from is well typed.
LEMMA NewJobType ==
    ASSUME NEW m \in ModelOrNone, NEW s \in Seq(Row)
    PROVE  NewJob(m, s) \in JobType
  BY DEF NewJob, JobType, ModelOrNone

\* So is a run that has not started.
LEMMA NoJobType == NoJob \in JobType
  <1>1. <<>> \in Seq(Row)
    OBVIOUS
  <1>2. NoModel \in ModelOrNone
    BY DEF ModelOrNone
  <1>3. QED
    BY <1>1, <1>2, NewJobType DEF NoJob

\* A run that is over but for its record is well typed.
LEMMA ToRecordType ==
    ASSUME TypeOK, NEW r \in Runs, NEW m \in ModelOrNone, ToRecord(r, m)
    PROVE  job' \in [Runs -> JobType] /\ pc' \in [Runs -> PcType]
  <1>1. [NoJob EXCEPT !.result = m] \in JobType
    BY NoJobType DEF JobType
  <1>2. QED
    BY <1>1 DEF ToRecord, TypeOK, PcType

\* What such a run still has to say keeps nothing else from being grounded.
LEMMA ToRecordGrounded ==
    ASSUME TypeOK, Grounded, NEW r \in Runs, NEW m \in ModelOrNone, ToRecord(r, m),
           UNCHANGED <<served, previous, everServed, rollbacks>>
    PROVE  Grounded'
  <1>1. pc' = [pc EXCEPT ![r] = "record"]
    BY DEF ToRecord
  <1>2. \A q \in Runs : q # r => job'[q] = job[q]
    BY DEF ToRecord, TypeOK
  <1>3. QED
    BY <1>1, <1>2 DEF rollbacks, TypeOK, Grounded, Beats

\* The initial state is well typed, and every model in it is the initial one.
LEMMA InitInv == Init => TypeOK /\ Grounded
  <1> SUFFICES ASSUME Init PROVE TypeOK /\ Grounded
    OBVIOUS
  <1>1. TypeOK
    BY ModelAssumption, DataAssumption, NoJobType DEF Init, TypeOK, ModelOrNone, PcType
  <1>2. Grounded
    BY ModelAssumption DEF Init, Grounded
  <1>3. QED
    BY <1>1, <1>2

\* Every step of a run keeps the types.
LEMMA RunTypeOK ==
    ASSUME TypeOK, Grounded, NEW r \in Runs, Run(r), UNCHANGED alone
    PROVE  TypeOK'
  <1> USE DEF adapter, records, rollbacks
  <1>1. ASSUME NEW supplied \in Seq(Row), Begin(r, supplied)
        PROVE  TypeOK'
    <2>1. NewJob(served, supplied) \in JobType
      BY NewJobType DEF TypeOK, ModelOrNone
    <2>2. QED
      BY <1>1, <2>1 DEF Begin, TypeOK, PcType
  <1>2. CASE Trigger(r)
    BY <1>1, <1>2, DataAssumption DEF Trigger
  <1>3. CASE Tick(r)
    <2>1. <<>> \in Seq(Row)
      OBVIOUS
    <2>2. QED
      BY <1>1, <1>3, <2>1 DEF Tick
  <1>4. CASE ReadRetained(r)
    <2> DEFINE rows == Observations(job[r].rows)
    <2>1. Retained \in Seq(Row)
      BY RetainedType
    <2>2. rows \in Seq(Row)
      BY <2>1 DEF Observations, TypeOK, JobType
    <2>3. [job EXCEPT ![r].retained = Retained,
                      ![r].rows = rows] \in [Runs -> JobType]
      BY <2>1, <2>2 DEF TypeOK, JobType
    <2>4. job' \in [Runs -> JobType] /\ pc' \in [Runs -> PcType]
      <3>1. CASE Len(rows) < MinRows
        BY <1>4, <3>1, ToRecordType DEF ReadRetained, ModelOrNone
      <3>2. CASE ~(Len(rows) < MinRows)
        BY <1>4, <2>3, <3>2 DEF ReadRetained, TypeOK, PcType
      <3>3. QED
        BY <3>1, <3>2
    <2>5. QED
      BY <1>4, <2>4 DEF ReadRetained, TypeOK
  <1>5. CASE NoPromotion(r)
    <2>1. job' \in [Runs -> JobType] /\ pc' \in [Runs -> PcType]
      BY <1>5, ToRecordType DEF NoPromotion, ModelOrNone
    <2>2. QED
      BY <1>5, <2>1 DEF NoPromotion, TypeOK
  <1>6. CASE Verified(r)
    <2>1. ASSUME NEW m \in Models
          PROVE  [job EXCEPT ![r].result = m] \in [Runs -> JobType]
      BY DEF TypeOK, JobType, ModelOrNone
    <2>2. job' \in [Runs -> JobType]
      BY <1>6, <2>1 DEF Verified, TypeOK
    <2>3. pc' \in [Runs -> PcType]
      BY <1>6 DEF Verified, TypeOK, PcType
    <2>4. QED
      BY <1>6, <2>2, <2>3 DEF Verified, TypeOK
  <1>7. CASE ReadOutgoing(r)
    <2>1. [job EXCEPT ![r].outgoing = served] \in [Runs -> JobType]
      BY DEF TypeOK, JobType, ModelOrNone
    <2>2. QED
      BY <1>7, <2>1 DEF ReadOutgoing, TypeOK, PcType
  <1>8. CASE KeepOutgoing(r)
    BY <1>8 DEF KeepOutgoing, TypeOK, PcType, JobType
  <1>9. CASE Swap(r)
    <2>1. job[r].result \in Models
      BY <1>9 DEF Swap, Grounded
    <2>2. QED
      BY <1>9, <2>1 DEF Swap, TypeOK, PcType
  <1>10. CASE RetainRows(r)
    <2>1. job[r].retained \o job[r].rows \in Seq(Row)
      BY DEF TypeOK, JobType
    <2>2. LastRows(job[r].retained \o job[r].rows) \in Seq(Row)
      BY <2>1, LastRowsType
    <2>3. job[r].result \in ModelOrNone
      BY DEF TypeOK, JobType
    <2>4. job' \in [Runs -> JobType] /\ pc' \in [Runs -> PcType]
      BY <1>10, <2>3, ToRecordType DEF RetainRows
    <2>5. QED
      BY <1>10, <2>2, <2>4 DEF RetainRows, TypeOK
  <1>11. CASE RecordRun(r)
    BY <1>11, NoJobType DEF RecordRun, Finish, Promoted, TypeOK, PcType
  <1>12. CASE RecordFails(r)
    BY <1>12, NoJobType DEF RecordFails, Finish, Promoted, TypeOK, PcType
  <1>13. QED
    BY <1>2, <1>3, <1>4, <1>5, <1>6, <1>7, <1>8, <1>9, <1>10, <1>11, <1>12 DEF Run

\* Every step of a run keeps the models it carries grounded.
LEMMA RunGrounded ==
    ASSUME TypeOK, Grounded, NEW r \in Runs, Run(r)
    PROVE  Grounded'
  <1> USE DEF adapter, records, rollbacks
  <1>1. ASSUME NEW supplied, Begin(r, supplied)
        PROVE  Grounded'
    BY <1>1 DEF Begin, NewJob, TypeOK, Grounded, Beats
  <1>2. CASE Trigger(r)
    BY <1>1, <1>2 DEF Trigger
  <1>3. CASE Tick(r)
    BY <1>1, <1>3 DEF Tick
  <1>4. CASE ReadRetained(r)
    <2> DEFINE rows == Observations(job[r].rows)
    <2>1. CASE Len(rows) < MinRows
      BY <1>4, <2>1, ToRecordGrounded DEF ReadRetained, ModelOrNone
    <2>2. CASE ~(Len(rows) < MinRows)
      <3>1. /\ job' = [job EXCEPT ![r].retained = Retained, ![r].rows = rows]
            /\ pc' = [pc EXCEPT ![r] = "improve"]
            /\ UNCHANGED <<adapter, records, everServed, rollbacks>>
        BY <1>4, <2>2 DEF ReadRetained
      <3>2. pc[r] = "retained"
        BY <1>4 DEF ReadRetained
      <3>3. QED
        BY <3>1, <3>2 DEF TypeOK, JobType, Grounded, Beats
    <2>3. QED
      BY <2>1, <2>2
  <1>5. CASE NoPromotion(r)
    BY <1>5, ToRecordGrounded DEF NoPromotion, ModelOrNone
  <1>6. CASE Verified(r)
    <2>1. PICK m \in Models :
            /\ Beats(m, job[r].champion)
            /\ job' = [job EXCEPT ![r].result = m]
      BY <1>6 DEF Verified
    <2>2. \A q \in Runs : job'[q].champion = job[q].champion
                       /\ job'[q].outgoing = job[q].outgoing
                       /\ (q # r => job'[q] = job[q])
      BY <2>1 DEF TypeOK, JobType
    <2>3. job'[r].result = m
      BY <2>1 DEF TypeOK, JobType
    <2>4. QED
      BY <1>6, <2>1, <2>2, <2>3 DEF Verified, TypeOK, Grounded, Beats
  <1>7. CASE ReadOutgoing(r)
    BY <1>7 DEF ReadOutgoing, TypeOK, JobType, Grounded, Beats
  <1>8. CASE KeepOutgoing(r)
    BY <1>8 DEF KeepOutgoing, TypeOK, Grounded
  <1>9. CASE Swap(r)
    <2>1. job[r].result \in Models /\ Beats(job[r].result, job[r].champion)
      BY <1>9 DEF Swap, Grounded
    <2>2. job[r].champion \in everServed
      BY <1>9 DEF Swap, Grounded
    <2>3. Quality[job[r].result] >= Quality[Initial]
      BY <2>1, <2>2, ModelAssumption DEF Beats, Grounded, TypeOK
    <2>4. QED
      BY <1>9, <2>1, <2>3 DEF Swap, TypeOK, Grounded
  <1>10. CASE RetainRows(r)
    <2>1. job[r].result \in ModelOrNone
      BY DEF TypeOK, JobType
    <2>2. QED
      BY <1>10, <2>1, ToRecordGrounded DEF RetainRows
  <1>11. CASE RecordRun(r) \/ RecordFails(r)
    BY <1>11 DEF RecordRun, RecordFails, Finish, TypeOK, Grounded
  <1>12. QED
    BY <1>2, <1>3, <1>4, <1>5, <1>6, <1>7, <1>8, <1>9, <1>10, <1>11 DEF Run

\* Rollbacks and restarts keep both.
LEMMA OtherStepsInv ==
    ASSUME TypeOK, Grounded,
           Restart \/ (\E b \in Rollbackers : Rollback(b)) \/ UNCHANGED vars,
           UNCHANGED alone
    PROVE  TypeOK' /\ Grounded'
  <1> USE DEF adapter, records, rollbacks
  <1>1. CASE Restart
    <2>1. TypeOK'
      BY <1>1, ModelAssumption, DataAssumption, NoJobType
         DEF Restart, TypeOK, PcType, ModelOrNone
    <2>2. Initial \in everServed
      <3>1. QED
        BY DEF Grounded
    <2>3. QED
      BY <1>1, <2>1, <2>2 DEF Restart, Grounded
  <1>2. ASSUME NEW b \in Rollbackers, RollbackRead(b)
        PROVE  TypeOK' /\ Grounded'
    BY <1>2 DEF RollbackRead, TypeOK, ModelOrNone, Grounded
  <1>3. ASSUME NEW b \in Rollbackers, RollbackRestore(b)
        PROVE  TypeOK' /\ Grounded'
    BY <1>3 DEF RollbackRestore, TypeOK, ModelOrNone, Grounded
  <1>4. ASSUME NEW b \in Rollbackers, RollbackClear(b)
        PROVE  TypeOK' /\ Grounded'
    BY <1>4 DEF RollbackClear, TypeOK, ModelOrNone, Grounded
  <1>5. CASE UNCHANGED vars
    BY <1>5 DEF vars, TypeOK, Grounded
  <1>6. QED
    BY <1>1, <1>2, <1>3, <1>4, <1>5 DEF Rollback

\* The inductive invariant of the evolution loop.
THEOREM EvolutionInvariant == Spec => [](TypeOK /\ Grounded)
  <1>1. TypeOK /\ Grounded /\ [Next]_vars => (TypeOK /\ Grounded)'
    <2> SUFFICES ASSUME TypeOK, Grounded, [Next]_vars
                 PROVE  (TypeOK /\ Grounded)'
      OBVIOUS
    <2>1. UNCHANGED alone
      BY DEF Next, vars
    <2>2. QED
      BY <2>1, RunTypeOK, RunGrounded, OtherStepsInv DEF Next
  <1>2. QED
    BY <1>1, InitInv, PTL DEF Spec

\* Types hold in every reachable state.
COROLLARY TypeCorrect == Spec => []TypeOK
  BY EvolutionInvariant, PTL

\* However many runs, rollbacks and restarts overlap, the served model is never
\* below the one the adapter was built with.
THEOREM FloorHolds == Spec => []NeverBelowInitial
  <1>1. TypeOK /\ Grounded => NeverBelowInitial
    BY DEF Grounded, NeverBelowInitial
  <1>2. QED
    BY <1>1, EvolutionInvariant, PTL

\* A step of a run is a promotion of the slot or leaves it alone.
LEMMA RunRefines ==
    ASSUME TypeOK, Grounded, NEW r \in Runs, Run(r)
    PROVE  Slot!Promote \/ UNCHANGED Slot!slotVars
  <1> USE DEF adapter, records, rollbacks
  <1>1. CASE Swap(r)
    <2>1. job[r].result \in Models /\ Beats(job[r].result, job[r].champion)
      BY <1>1 DEF Swap, Grounded
    <2>2. job[r].champion \in everServed
      BY <1>1 DEF Swap, Grounded
    <2>3. QED
      BY <1>1, <2>1, <2>2 DEF Swap, Beats, Slot!Promote, Slot!Beats
  <1>2. CASE ~Swap(r)
    BY <1>2 DEF Run, Trigger, Tick, Begin, ReadRetained, NoPromotion, Verified,
                ReadOutgoing, KeepOutgoing, RetainRows, RecordRun, RecordFails,
                Finish, Slot!slotVars
  <1>3. QED
    BY <1>1, <1>2

\* The detailed evolution loop implements the champion slot.
THEOREM ImplementsSlot == Spec => SlotSpec
  <1>1. Init => Slot!SlotInit
    BY DEF Init, Slot!SlotInit
  <1>2. TypeOK /\ Grounded /\ [Next]_vars => [Slot!SlotNext]_(Slot!slotVars)
    <2> SUFFICES ASSUME TypeOK, Grounded, [Next]_vars
                 PROVE  [Slot!SlotNext]_(Slot!slotVars)
      OBVIOUS
    <2>1. ASSUME NEW r \in Runs, Run(r)
          PROVE  [Slot!SlotNext]_(Slot!slotVars)
      BY <2>1, RunRefines DEF Slot!SlotNext
    <2>2. ASSUME NEW b \in Rollbackers, Rollback(b)
          PROVE  [Slot!SlotNext]_(Slot!slotVars)
      BY <2>2 DEF Rollback, RollbackRead, RollbackRestore, RollbackClear, Grounded,
                  Slot!SlotNext, Slot!Restore, Slot!slotVars, adapter, records
    <2>3. CASE Restart
      BY <2>3 DEF Restart, Grounded, Slot!SlotNext, Slot!Restore, records
    <2>4. CASE UNCHANGED vars
      BY <2>4 DEF vars, adapter, Slot!slotVars
    <2>5. QED
      BY <2>1, <2>2, <2>3, <2>4 DEF Next
  <1>3. QED
    BY <1>1, <1>2, EvolutionInvariant, PTL DEF Spec, SlotSpec, Slot!SlotSpec

-----------------------------------------------------------------------------
(* The lineage *)

\* Every model the adapter or a rollback may put in service again is explained by
\* the lineage, as the one in service is.
LineageExplains ==
    /\ Accounted(served)
    /\ previous # NoModel => Accounted(previous)
    /\ \A r \in Runs : pc[r] = "keep" => Accounted(job[r].outgoing)
    /\ \A b \in Rollbackers : bpc[b] = "restore" => Accounted(target[b])

\* A run touches no other run and no rollback.
LEMMA RunIsLocal ==
    ASSUME TypeOK, NEW r \in Runs, Run(r)
    PROVE  /\ \A q \in Runs : q # r => pc'[q] = pc[q] /\ job'[q] = job[q]
           /\ UNCHANGED rollbacks
  BY DEF TypeOK, Run, Trigger, Tick, Begin, ToRecord, ReadRetained, NoPromotion, Verified,
         ReadOutgoing, KeepOutgoing, Swap, RetainRows, RecordRun, RecordFails, Finish

\* What has been explained stays so: a promotion passes from its run to the table,
\* or to those that could not be recorded.
LEMMA AccountedStays ==
    ASSUME TypeOK, NEW r \in Runs, Run(r), NEW m \in Models, Accounted(m)
    PROVE  Accounted(m)'
  <1>1. lineage \subseteq lineage' /\ unrecorded \subseteq unrecorded'
    BY DEF Run, Trigger, Tick, Begin, ReadRetained, NoPromotion, Verified, ReadOutgoing,
           KeepOutgoing, Swap, RetainRows, RecordRun, RecordFails, Finish, records
  <1>2. CASE m \in {Initial} \cup lineage \cup unrecorded
    BY <1>1, <1>2 DEF Accounted
  <1>3. ASSUME NEW q \in Runs, q # r, pc[q] \in {"fit", "record"}, job[q].result = m
        PROVE  Accounted(m)'
    BY <1>3, RunIsLocal DEF Accounted
  <1>4. CASE pc[r] = "fit" /\ job[r].result = m
    <2>1. RetainRows(r)
      BY <1>4 DEF Run, Trigger, Tick, Begin, ReadRetained, NoPromotion, Verified, ReadOutgoing,
                  KeepOutgoing, Swap, RecordRun, RecordFails
    <2>2. pc'[r] = "record" /\ job'[r].result = m
      BY <1>4, <2>1, NoJobType DEF RetainRows, ToRecord, TypeOK, JobType
    <2>3. QED
      BY <2>2 DEF Accounted
  <1>5. CASE pc[r] = "record" /\ job[r].result = m
    <2>1. RecordRun(r) \/ RecordFails(r)
      BY <1>5 DEF Run, Trigger, Tick, Begin, ReadRetained, NoPromotion, Verified, ReadOutgoing,
                  KeepOutgoing, Swap, RetainRows
    <2>2. m \in lineage' \cup unrecorded'
      BY <1>5, <2>1 DEF RecordRun, RecordFails, Promoted
    <2>3. QED
      BY <2>2 DEF Accounted
  <1>6. QED
    BY <1>2, <1>3, <1>4, <1>5 DEF Accounted

\* A run keeps the lineage an explanation.
LEMMA RunExplained ==
    ASSUME TypeOK, Grounded, LineageExplains, NEW r \in Runs, Run(r)
    PROVE  LineageExplains'
  <1> USE DEF adapter, records, rollbacks
  <1>1. \A m \in Models : Accounted(m) => Accounted(m)'
    BY AccountedStays
  <1>2. served' \in Models /\ Accounted(served)'
    <2>1. CASE Swap(r)
      <3>1. served' = job[r].result /\ job'[r] = job[r] /\ pc'[r] = "fit"
        BY <2>1 DEF Swap, TypeOK
      <3>2. served' \in Models
        BY <2>1, <3>1 DEF Swap, Grounded
      <3>3. QED
        BY <3>1, <3>2 DEF Accounted
    <2>2. CASE ~Swap(r)
      <3>1. served' = served
        BY <2>2 DEF Run, Trigger, Tick, Begin, ReadRetained, NoPromotion, Verified, ReadOutgoing,
                    KeepOutgoing, RetainRows, RecordRun, RecordFails, Finish
      <3>2. PICK m \in Models : m = served
        BY DEF TypeOK
      <3>3. Accounted(m)'
        BY <1>1, <3>2 DEF LineageExplains
      <3>4. QED
        BY <3>1, <3>2, <3>3 DEF Accounted
    <2>3. QED
      BY <2>1, <2>2
  <1>3. previous' # NoModel => Accounted(previous)'
    <2>1. CASE KeepOutgoing(r)
      <3>1. previous' = job[r].outgoing /\ pc[r] = "keep"
        BY <2>1 DEF KeepOutgoing
      <3>2. job[r].outgoing \in everServed /\ Accounted(job[r].outgoing)
        BY <3>1 DEF Grounded, LineageExplains
      <3>3. PICK m \in Models : m = job[r].outgoing
        BY <3>2 DEF TypeOK
      <3>4. Accounted(m) /\ previous' = m
        BY <3>1, <3>2, <3>3
      <3>5. Accounted(m)'
        BY <1>1, <3>4
      <3>6. QED
        BY <3>4, <3>5 DEF Accounted
    <2>2. CASE ~KeepOutgoing(r)
      <3>1. previous' = previous
        BY <2>2 DEF Run, Trigger, Tick, Begin, ReadRetained, NoPromotion, Verified, ReadOutgoing,
                    Swap, RetainRows, RecordRun, RecordFails, Finish
      <3>2. SUFFICES ASSUME previous # NoModel PROVE Accounted(previous)'
        BY <3>1
      <3>3. PICK m \in Models : m = previous
        BY <3>2 DEF TypeOK, ModelOrNone
      <3>4. Accounted(m)'
        BY <1>1, <3>2, <3>3 DEF LineageExplains
      <3>5. QED
        BY <3>1, <3>3, <3>4 DEF Accounted
    <2>3. QED
      BY <2>1, <2>2
  <1>4. ASSUME NEW q \in Runs, pc'[q] = "keep"
        PROVE  Accounted(job[q].outgoing)'
    <2>1. CASE pc[q] = "keep"
      <3>1. job'[q] = job[q]
        BY <1>4, <2>1, RunIsLocal
        DEF Run, Trigger, Tick, Begin, ReadRetained, NoPromotion, Verified, ReadOutgoing,
            KeepOutgoing, Swap, RetainRows, RecordRun, RecordFails
      <3>2. PICK m \in Models : m = job[q].outgoing
        BY <2>1 DEF Grounded, TypeOK
      <3>3. Accounted(m)'
        BY <1>1, <2>1, <3>2 DEF LineageExplains
      <3>4. QED
        BY <3>1, <3>2, <3>3 DEF Accounted
    <2>2. CASE pc[q] # "keep"
      <3>1. q = r /\ ReadOutgoing(r)
        BY <1>4, <2>2, RunIsLocal
        DEF Run, Trigger, Tick, Begin, ReadRetained, ToRecord, NoPromotion, Verified,
            KeepOutgoing, Swap, RetainRows, RecordRun, RecordFails, Finish, TypeOK
      <3>2. job'[q].outgoing = served /\ served' = served
        BY <3>1 DEF ReadOutgoing, TypeOK, JobType
      <3>3. QED
        BY <1>2, <3>2 DEF Accounted
    <2>3. QED
      BY <2>1, <2>2
  <1>5. ASSUME NEW b \in Rollbackers, bpc'[b] = "restore"
        PROVE  Accounted(target[b])'
    <2>1. bpc[b] = "restore" /\ target'[b] = target[b]
      BY <1>5, RunIsLocal
    <2>2. PICK m \in Models : m = target[b]
      BY <2>1 DEF Grounded, TypeOK
    <2>3. Accounted(m)'
      BY <1>1, <2>1, <2>2 DEF LineageExplains
    <2>4. QED
      BY <2>1, <2>2, <2>3 DEF Accounted
  <1>6. QED
    BY <1>2, <1>3, <1>4, <1>5 DEF LineageExplains

\* So do rollbacks and restarts.
LEMMA OtherStepsExplained ==
    ASSUME TypeOK, LineageExplains,
           Restart \/ (\E b \in Rollbackers : Rollback(b)) \/ UNCHANGED vars
    PROVE  LineageExplains'
  <1> USE DEF adapter, records
  <1>1. CASE Restart
    BY <1>1 DEF Restart, LineageExplains, Accounted
  <1>2. CASE \E b \in Rollbackers : Rollback(b)
    BY <1>2 DEF Rollback, RollbackRead, RollbackRestore, RollbackClear, LineageExplains,
                Accounted, TypeOK
  <1>3. CASE UNCHANGED vars
    BY <1>3 DEF vars, rollbacks, LineageExplains, Accounted
  <1>4. QED
    BY <1>1, <1>2, <1>3

\* However runs, rollbacks and restarts overlap, and whichever commits fail, the
\* lineage explains the model being served, the failures aside.
THEOREM LineageHolds == Spec => []ServedAccounted
  <1>1. Init => LineageExplains
    BY DEF Init, LineageExplains, Accounted
  <1>2. TypeOK /\ Grounded /\ LineageExplains /\ [Next]_vars => LineageExplains'
    BY RunExplained, OtherStepsExplained DEF Next
  <1>3. LineageExplains => ServedAccounted
    BY DEF LineageExplains, ServedAccounted
  <1>4. QED
    BY <1>1, <1>2, <1>3, EvolutionInvariant, PTL DEF Spec

-----------------------------------------------------------------------------
(* Runs and rollbacks that come one at a time *)

OneAtATime ==
    /\ \A q, r \in Runs : pc[q] # "idle" /\ pc[r] # "idle" => q = r
    /\ \A b, c \in Rollbackers : bpc[b] # "idle" /\ bpc[c] # "idle" => b = c
    /\ \A r \in Runs, b \in Rollbackers : pc[r] = "idle" \/ bpc[b] = "idle"

\* What a run or a rollback has read of the adapter is still what the adapter has.
RunUpToDate(r) ==
    /\ pc[r] \in {"retained", "improve", "outgoing", "keep", "swap"} => job[r].champion = served
    /\ pc[r] = "keep" => job[r].outgoing = served
    /\ pc[r] = "swap" => previous = served
    /\ pc[r] \in {"improve", "outgoing", "keep", "swap", "fit"} => job[r].retained = Retained

Sequential ==
    alone => /\ OneAtATime
             /\ \A r \in Runs : RunUpToDate(r)
             /\ \A b \in Rollbackers : bpc[b] = "restore" => target[b] = previous

\* While a run is under way nothing else is, and nothing was when it began.
LEMMA RunAlone ==
    ASSUME Sequential, alone, NEW r \in Runs, Run(r)
    PROVE  /\ \A q \in Runs : q # r => pc[q] = "idle"
           /\ \A b \in Rollbackers : bpc[b] = "idle"
  <1>1. CASE pc[r] = "idle"
    BY <1>1 DEF Run, Trigger, Tick, Begin, ReadRetained, NoPromotion, Verified, ReadOutgoing,
                KeepOutgoing, Swap, RetainRows, RecordRun, RecordFails, MayStart
  <1>2. CASE pc[r] # "idle"
    BY <1>2 DEF Sequential, OneAtATime
  <1>3. QED
    BY <1>1, <1>2

\* Each step of a run leaves it up to date.
LEMMA RunStaysUpToDate ==
    ASSUME TypeOK, Sequential, alone, NEW r \in Runs, Run(r)
    PROVE  RunUpToDate(r)'
  <1> USE DEF adapter, Retained
  <1>1. RunUpToDate(r)
    BY DEF Sequential
  <1>2. CASE Trigger(r) \/ Tick(r)
    BY <1>2 DEF Trigger, Tick, Begin, NewJob, TypeOK, RunUpToDate
  <1>3. CASE ReadRetained(r)
    <2> DEFINE rows == Observations(job[r].rows)
    <2>1. CASE Len(rows) < MinRows
      BY <1>3, <2>1 DEF ReadRetained, ToRecord, TypeOK, RunUpToDate
    <2>2. CASE ~(Len(rows) < MinRows)
      <3>1. /\ job' = [job EXCEPT ![r].retained = Retained, ![r].rows = rows]
            /\ pc' = [pc EXCEPT ![r] = "improve"]
            /\ UNCHANGED <<served, previous, fitData>>
            /\ pc[r] = "retained"
        BY <1>3, <2>2 DEF ReadRetained
      <3>2. job'[r].champion = job[r].champion /\ job'[r].retained = Retained
        BY <3>1 DEF TypeOK, JobType
      <3>3. QED
        BY <1>1, <3>1, <3>2 DEF TypeOK, RunUpToDate
    <2>3. QED
      BY <2>1, <2>2
  <1>4. CASE NoPromotion(r) \/ RetainRows(r)
    BY <1>4 DEF NoPromotion, RetainRows, ToRecord, TypeOK, RunUpToDate
  <1>5. CASE Verified(r)
    <2>1. PICK m \in Models : job' = [job EXCEPT ![r].result = m]
      BY <1>5 DEF Verified
    <2>2. job'[r].champion = job[r].champion /\ job'[r].retained = job[r].retained
      BY <2>1 DEF TypeOK, JobType
    <2>3. QED
      BY <1>1, <1>5, <2>2 DEF Verified, TypeOK, RunUpToDate
  <1>6. CASE ReadOutgoing(r)
    <2>1. /\ job'[r].champion = job[r].champion /\ job'[r].retained = job[r].retained
          /\ job'[r].outgoing = served
      BY <1>6 DEF ReadOutgoing, TypeOK, JobType
    <2>2. QED
      BY <1>1, <1>6, <2>1 DEF ReadOutgoing, TypeOK, RunUpToDate
  <1>7. CASE KeepOutgoing(r)
    BY <1>1, <1>7 DEF KeepOutgoing, TypeOK, RunUpToDate
  <1>8. CASE Swap(r)
    BY <1>1, <1>8 DEF Swap, TypeOK, RunUpToDate
  <1>9. CASE RecordRun(r) \/ RecordFails(r)
    BY <1>9 DEF RecordRun, RecordFails, Finish, TypeOK, RunUpToDate
  <1>10. QED
    BY <1>2, <1>3, <1>4, <1>5, <1>6, <1>7, <1>8, <1>9 DEF Run

\* Runs stay one at a time and up to date.
LEMMA RunSequential ==
    ASSUME TypeOK, Sequential, NEW r \in Runs, Run(r), UNCHANGED alone
    PROVE  Sequential'
  <1> SUFFICES ASSUME alone
               PROVE  Sequential'
    BY DEF Sequential
  <1>1. /\ \A q \in Runs : q # r => pc'[q] = "idle"
        /\ \A b \in Rollbackers : bpc'[b] = "idle"
    BY RunAlone, RunIsLocal DEF rollbacks
  <1>2. OneAtATime'
    BY <1>1 DEF OneAtATime
  <1>3. \A q \in Runs : RunUpToDate(q)'
    BY <1>1, RunStaysUpToDate DEF RunUpToDate
  <1>4. QED
    BY <1>1, <1>2, <1>3 DEF Sequential

\* So do rollbacks and restarts.
LEMMA OtherStepsSequential ==
    ASSUME TypeOK, Sequential, UNCHANGED alone,
           Restart \/ (\E b \in Rollbackers : Rollback(b)) \/ UNCHANGED vars
    PROVE  Sequential'
  <1> USE DEF adapter, records, rollbacks
  <1>1. CASE Restart
    BY <1>1 DEF Restart, Sequential, OneAtATime, RunUpToDate
  <1>2. ASSUME NEW b \in Rollbackers, Rollback(b), alone
        PROVE  Sequential'
    <2>1. /\ \A r \in Runs : pc[r] = "idle"
          /\ \A c \in Rollbackers : c # b => bpc[c] = "idle"
      BY <1>2 DEF Rollback, RollbackRead, RollbackRestore, RollbackClear, MayStart, Sequential,
                  OneAtATime
    <2>2. /\ \A r \in Runs : pc'[r] = "idle"
          /\ \A c \in Rollbackers : c # b => bpc'[c] = "idle"
          /\ bpc'[b] = "restore" => target'[b] = previous'
      BY <1>2, <2>1 DEF Rollback, RollbackRead, RollbackRestore, RollbackClear, TypeOK
    <2>3. OneAtATime'
      BY <2>2 DEF OneAtATime
    <2>4. QED
      BY <2>2, <2>3 DEF Sequential, RunUpToDate
  <1>3. CASE UNCHANGED vars
    BY <1>3 DEF vars, Sequential, OneAtATime, RunUpToDate, Retained
  <1>4. CASE ~alone
    BY <1>4 DEF Sequential
  <1>5. QED
    BY <1>1, <1>2, <1>3, <1>4

\* The invariant of behaviours in which operations come one at a time.
THEOREM SequentialInvariant == Spec => []Sequential
  <1>1. Init => Sequential
    BY DEF Init, Sequential, OneAtATime, RunUpToDate
  <1>2. TypeOK /\ Sequential /\ [Next]_vars => Sequential'
    <2> SUFFICES ASSUME TypeOK, Sequential, [Next]_vars PROVE Sequential'
      OBVIOUS
    <2>1. UNCHANGED alone
      BY DEF Next, vars
    <2>2. QED
      BY <2>1, RunSequential, OtherStepsSequential DEF Next
  <1>3. QED
    BY <1>1, <1>2, EvolutionInvariant, PTL DEF Spec

\* "A run can never serve a worse model", of runs and rollbacks that come one at
\* a time.
THEOREM NeverDegradesAlone == Spec => NeverDegradeAlone
  <1>1. TypeOK /\ Grounded /\ Sequential =>
            (alone => \A r \in Runs : Swap(r) => Quality[served'] >= Quality[served])
    <2> SUFFICES ASSUME TypeOK, Grounded, Sequential, alone, NEW r \in Runs, Swap(r)
                 PROVE  Quality[served'] >= Quality[served]
      OBVIOUS
    <2>1. served' = job[r].result /\ pc[r] = "swap"
      BY DEF Swap
    <2>2. job[r].result \in Models /\ Beats(job[r].result, job[r].champion)
      BY <2>1 DEF Grounded
    <2>3. job[r].champion = served
      BY <2>1 DEF Sequential, RunUpToDate
    <2>4. Quality[job[r].result] \in Int /\ Quality[served] \in Int
      BY <2>2, ModelAssumption DEF TypeOK
    <2>5. QED
      BY <2>1, <2>2, <2>3, <2>4 DEF Beats
  <1>2. TypeOK /\ Grounded /\ Sequential /\ [Next]_vars =>
            [alone => \A r \in Runs : Swap(r) => Quality[served'] >= Quality[served]]_vars
    BY <1>1
  <1>3. QED
    BY <1>2, EvolutionInvariant, SequentialInvariant, PTL DEF Spec, NeverDegradeAlone

\* One at a time, the rollback point is what the last promotion displaced, and a
\* rollback serves it.
THEOREM RollbackPointHoldsAlone == Spec => RollbackPointAlone
  <1>1. Sequential => (alone => /\ \A r \in Runs : Swap(r) => previous' = served
                                /\ \A b \in Rollbackers : RollbackRestore(b) => served' = previous)
    BY DEF Sequential, RunUpToDate, Swap, RollbackRestore
  <1>2. Sequential /\ [Next]_vars =>
            [alone => /\ \A r \in Runs : Swap(r) => previous' = served
                      /\ \A b \in Rollbackers : RollbackRestore(b) => served' = previous]_vars
    BY <1>1
  <1>3. QED
    BY <1>2, SequentialInvariant, PTL DEF Spec, RollbackPointAlone

\* A window of observations is full, or it holds all of them.
LEMMA LastRowsKeep ==
    ASSUME NEW s \in Seq(Row), NEW t \in Seq(Row)
    PROVE  \/ Len(LastRows(s \o t)) = MaxFit
           \/ RowsOf(s) \subseteq RowsOf(LastRows(s \o t))
  <1>1. s \o t \in Seq(Row) /\ MaxFit \in Nat \ {0}
    BY DataAssumption
  <1>2. CASE Len(s \o t) > MaxFit
    <2>1. LastRows(s \o t) = SubSeq(s \o t, Len(s \o t) - MaxFit + 1, Len(s \o t))
      BY <1>2 DEF LastRows
    <2>2. Len(LastRows(s \o t)) = MaxFit
      BY <1>1, <1>2, <2>1
    <2>3. QED
      BY <2>2
  <1>3. CASE ~(Len(s \o t) > MaxFit)
    <2>1. LastRows(s \o t) = s \o t
      BY <1>3 DEF LastRows
    <2>2. \A i \in DOMAIN s : i \in DOMAIN (s \o t) /\ (s \o t)[i] = s[i]
      OBVIOUS
    <2>3. QED
      BY <2>1, <2>2 DEF RowsOf
  <1>4. QED
    BY <1>2, <1>3

\* One at a time, no retained observation is lost before the window is full.
THEOREM RowsAreKeptAlone == Spec => RowsKeptAlone
  <1>1. TypeOK /\ Sequential =>
            (alone => \A r \in Runs : RetainRows(r) /\ fitData # NoFit =>
                Len(fitData') = MaxFit \/ RowsOf(fitData) \subseteq RowsOf(fitData'))
    <2> SUFFICES ASSUME TypeOK, Sequential, alone, NEW r \in Runs, RetainRows(r), fitData # NoFit
                 PROVE  Len(fitData') = MaxFit \/ RowsOf(fitData) \subseteq RowsOf(fitData')
      OBVIOUS
    <2>1. pc[r] = "fit" /\ fitData' = LastRows(job[r].retained \o job[r].rows)
      BY DEF RetainRows
    <2>2. job[r].retained = fitData
      BY <2>1 DEF Sequential, RunUpToDate, Retained
    <2>3. fitData \in Seq(Row) /\ job[r].rows \in Seq(Row)
      BY DEF TypeOK, JobType
    <2>4. QED
      BY <2>1, <2>2, <2>3, LastRowsKeep
  <1>2. TypeOK /\ Sequential /\ [Next]_vars =>
            [alone => \A r \in Runs : RetainRows(r) /\ fitData # NoFit =>
                Len(fitData') = MaxFit \/ RowsOf(fitData) \subseteq RowsOf(fitData')]_vars
    BY <1>1
  <1>3. QED
    BY <1>2, EvolutionInvariant, SequentialInvariant, PTL DEF Spec, RowsKeptAlone
=============================================================================
