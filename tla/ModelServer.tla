---------------------------- MODULE ModelServer -----------------------------
(* The standalone model server (app.py) and the jobs that change what it     *)
(* serves: the seeding of the registry (seed_registry.py) and retraining on  *)
(* drift (drift_retrain.py).  They share a volume with the registry and the  *)
(* reference sample that drift is measured against.                          *)
(*                                                                           *)
(* A sample is the sequence of the batches it was put together from; a       *)
(* version of the model is the sample it was trained on.                     *)
EXTENDS Naturals, Sequences, FiniteSets

CONSTANTS Retrain,      \* runs of the retraining job
          Seed,         \* the run of the seeding job
          Server,       \* server processes
          NoModel       \* nothing is promoted, or loaded, or no sample is there

Job == Retrain \cup {Seed}
Partial == <<"cut">>    \* a file that is not valid JSON

VARIABLES production,   \* the sample of the version the alias points at
          reference,    \* reference.json
          at, sample,   \* of each job: where it is, and the sample in its hands
          service,      \* of each server: [model, reference], the loaded service
          load,         \* of each server: the reference it has read, and whether it loads
          whole,        \* the production model and the reference were left by a job that ran alone
          alone,        \* jobs that overlapped no other so far
          steady        \* servers whose last load met no job that was promoting

vars == <<production, reference, at, sample, service, load, whole, alone, steady>>

NotLoading == [on |-> FALSE, reference |-> NoModel]

Init ==
    /\ production = NoModel
    /\ reference = NoModel
    /\ at = [j \in Job |-> "idle"]
    /\ sample = [j \in Job |-> <<>>]
    /\ service = [s \in Server |-> NoModel]
    /\ load = [s \in Server |-> NotLoading]
    /\ whole = FALSE
    /\ alone = {}
    /\ steady = {}

Goto(j, there) == at' = [at EXCEPT ![j] = there]
Active == {j \in Job : at[j] \in {"detect", "trained", "promoted", "writing"}}
Promoting == {j \in Job : at[j] \in {"promoted", "writing"}}

-----------------------------------------------------------------------------
(* seed_registry.main and drift_retrain.main.                               *)

Begun(j) == alone' = IF Active = {} THEN alone \cup {j} ELSE alone \ Active

BeginSeed ==
    /\ at[Seed] = "idle"
    /\ sample' = [sample EXCEPT ![Seed] = <<Seed>>]
    /\ Goto(Seed, "trained")
    /\ Begun(Seed)
    /\ UNCHANGED <<production, reference, service, load, whole, steady>>

\* The production model and the reference are read; without either the job
\* fails.  The schedule starts no run while another is active; nothing keeps
\* the seeding job away.
BeginRetrain(j) ==
    /\ j \in Retrain /\ at[j] = "idle"
    /\ Active \cap Retrain = {}
    /\ IF production = NoModel \/ reference \in {NoModel, Partial}
       THEN Goto(j, "failed") /\ UNCHANGED <<sample, alone>>
       ELSE /\ sample' = [sample EXCEPT ![j] = reference]
            /\ Goto(j, "detect")
            /\ Begun(j)
    /\ UNCHANGED <<production, reference, service, load, whole, steady>>

TrainOn(j) == Append(sample[j], j)

\* No drift ends the job; on drift a version is trained and registered.
Detect(j) ==
    /\ at[j] = "detect"
    /\ \/ Goto(j, "done") /\ UNCHANGED sample
       \/ Goto(j, "trained") /\ sample' = [sample EXCEPT ![j] = TrainOn(j)]
    /\ UNCHANGED <<production, reference, service, load, whole, alone, steady>>

Promote(j) ==
    /\ at[j] = "trained"
    /\ production' = sample[j]
    /\ Goto(j, "promoted")
    /\ steady' = {s \in steady : ~load[s].on}
    /\ whole' = FALSE
    /\ UNCHANGED <<reference, sample, service, load, alone>>

\* open(..., "w") empties the file, and the dump fills it.
Truncate(j) ==
    /\ at[j] = "promoted"
    /\ reference' = Partial
    /\ Goto(j, "writing")
    /\ UNCHANGED <<production, sample, service, load, whole, alone, steady>>

\* Mutated form of Written: the sample the job had read.
WrittenAsRead(j) == IF j = Seed THEN sample[j] ELSE SubSeq(sample[j], 1, Len(sample[j]) - 1)

Written(j) == sample[j]

Write(j) ==
    /\ at[j] = "writing"
    /\ reference' = Written(j)
    /\ Goto(j, "done")
    /\ whole' = (j \in alone)
    /\ UNCHANGED <<production, sample, service, load, alone, steady>>

\* The job is killed, or one of its steps raises.
Cut(j) ==
    /\ j \in Active
    /\ Goto(j, "failed")
    /\ UNCHANGED <<production, reference, sample, service, load, whole, alone, steady>>

-----------------------------------------------------------------------------
(* _load_service, at the start of a server and for every reload: the        *)
(* reference is read before the model.                                      *)

ReadReference(s) ==
    /\ ~load[s].on
    /\ reference # Partial
    /\ load' = [load EXCEPT ![s] = [on |-> TRUE, reference |-> reference]]
    /\ steady' = IF Promoting = {} /\ whole THEN steady \cup {s} ELSE steady \ {s}
    /\ UNCHANGED <<production, reference, at, sample, service, whole, alone>>

\* Without a model the load raises, and what was served stays.
ReadModel(s) ==
    /\ load[s].on
    /\ load' = [load EXCEPT ![s] = NotLoading]
    /\ IF production = NoModel
       THEN UNCHANGED service
       ELSE service' = [service EXCEPT ![s] = [model |-> production, reference |-> load[s].reference]]
    /\ UNCHANGED <<production, reference, at, sample, whole, alone, steady>>

\* The process ends; the next one starts by loading.
Restart(s) ==
    /\ service[s] # NoModel \/ load[s].on
    /\ service' = [service EXCEPT ![s] = NoModel]
    /\ load' = [load EXCEPT ![s] = NotLoading]
    /\ UNCHANGED <<production, reference, at, sample, whole, alone, steady>>

Next ==
    \/ BeginSeed
    \/ \E j \in Job : \/ BeginRetrain(j) \/ Detect(j) \/ Promote(j) \/ Truncate(j) \/ Write(j) \/ Cut(j)
    \/ \E s \in Server : ReadReference(s) \/ ReadModel(s) \/ Restart(s)

-----------------------------------------------------------------------------
\* drift_retrain.main promotes first and writes the reference afterwards, and
\* _load_service reads in the other order: a server measures drift against the
\* sample its model was trained on, when it loaded what a job that overlapped
\* no other had left whole and no job was promoting meanwhile.  The reference
\* file is unreadable only while a job writes it or after one was cut short.
DriftIsAgainstOwnSample ==
    /\ \A s \in Server : s \in steady /\ service[s] # NoModel /\ ~load[s].on =>
                           service[s].reference = service[s].model
    /\ whole /\ Promoting = {} => reference = production
    /\ reference = Partial => \E j \in Job : at[j] \in {"writing", "failed"}

=============================================================================
