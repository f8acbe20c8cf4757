--------------------------- MODULE ServicesProofs ---------------------------
(***************************************************************************)
(* What holds of the services of MCServices for every set of requests,     *)
(* jobs, servers and so on.  Each part has its inductive invariant, a       *)
(* lemma that its initial states satisfy it, one that its steps preserve   *)
(* it, and the theorem about the property that the runs check.             *)
(***************************************************************************)
EXTENDS MCServices, SequenceTheorems, FiniteSetTheorems, TLAPS

\* What a part begins with, in its turn or not, is of what it may begin with.
LEMMA OfIsIn ==
    ASSUME NEW name, NEW inputs, NEW x \in inputs
    PROVE  Of(name, inputs) \subseteq inputs
<1>1. (CHOOSE y \in inputs : TRUE) \in inputs
  OBVIOUS
<1> QED
  BY <1>1 DEF Of

-----------------------------------------------------------------------------
(* The standalone model server (ModelServer).                               *)

Sample == Seq(Srv!Job)
SrvWhere == {"idle", "detect", "trained", "promoted", "writing", "done", "failed"}
Content == Sample \cup {NoModel, Srv!Partial}

SrvTypeOK ==
    /\ production \in Sample \cup {NoModel}
    /\ reference \in Content
    /\ runAt \in [Srv!Job -> SrvWhere]
    /\ sample \in [Srv!Job -> Sample]
    /\ service \in [Server -> {NoModel} \cup [model : Sample, reference : Content]]
    /\ load \in [Server -> [on : BOOLEAN, reference : Content]]
    /\ alone \subseteq Srv!Job
    /\ steady \subseteq Server

\* A job that overlapped no other so far is the only one that is active, and
\* once it has promoted, nobody else has.
AloneIsAlone ==
    \A j \in alone :
        /\ runAt[j] # "idle"
        /\ j \in Srv!Active => Srv!Active = {j}
        /\ runAt[j] \in {"promoted", "writing"} => production = sample[j]

\* What such a job left, nothing has changed since.
WholeIsLeft == whole => Srv!Promoting = {} /\ reference = production /\ production \in Sample

\* A server that loads meanwhile holds the reference of the model in place,
\* and one that has loaded, of the model it loaded.
SteadyLoads ==
    \A s \in steady :
        /\ load[s].on => load[s].reference = production /\ production \in Sample
        /\ ~load[s].on /\ service[s] # NoModel => service[s].reference = service[s].model

CutIsExplained == reference = Srv!Partial => \E j \in Srv!Job : runAt[j] \in {"writing", "failed"}

SrvInv == SrvTypeOK /\ AloneIsAlone /\ WholeIsLeft /\ SteadyLoads /\ CutIsExplained

\* A file that is cut short, or missing, is no sample.
LEMMA SamplesAreTold ==
    Srv!Partial \notin Sample /\ NoModel \notin Sample /\ NoModel # Srv!Partial
<1>1. Srv!Partial \notin Sample
  BY JobAssumption DEF Srv!Partial, Sample, Srv!Job
<1>2. Sample \subseteq Seq(Retrain \cup {Seed, "cut"})
  BY DEF Sample, Srv!Job
<1>3. Srv!Partial \in Seq(Retrain \cup {Seed, "cut"})
  BY DEF Srv!Partial
<1> QED
  BY <1>1, <1>2, <1>3, JobAssumption

LEMMA SrvInitHolds ==
    ASSUME Srv!Init
    PROVE  SrvInv
<1>1. <<>> \in Sample
  BY DEF Sample
<1>2. SrvTypeOK
  BY <1>1 DEF Srv!Init, Srv!NotLoading, SrvTypeOK, SrvWhere, Content
<1> QED
  BY <1>2, SamplesAreTold
  DEF Srv!Init, SrvInv, AloneIsAlone, WholeIsLeft, SteadyLoads, CutIsExplained

\* A job that begins while none is active is alone, and no other is any more.
LEMMA SrvBeginKeeps ==
    ASSUME SrvInv, NEW j \in Srv!Job, (Srv!BeginSeed /\ j = Seed) \/ Srv!BeginRetrain(j)
    PROVE  SrvInv'
<1> USE DEF SrvInv
<1>1. SrvTypeOK'
  <2>1. <<Seed>> \in Sample /\ Seed \in Srv!Job
    BY DEF Sample, Srv!Job
  <2> QED
    BY <2>1 DEF SrvTypeOK, SrvWhere, Content, Srv!BeginSeed, Srv!BeginRetrain, Srv!Goto, Srv!Begun
<1>2. runAt[j] = "idle" /\ \A k \in Srv!Job \ {j} : runAt'[k] = runAt[k] /\ sample'[k] = sample[k]
  BY DEF SrvTypeOK, Srv!BeginSeed, Srv!BeginRetrain, Srv!Goto
<1>3. UNCHANGED <<production, reference, service, load, whole, steady>>
  BY DEF Srv!BeginSeed, Srv!BeginRetrain
<1>4. runAt'[j] \in {"detect", "trained", "failed"}
  BY DEF SrvTypeOK, Srv!BeginSeed, Srv!BeginRetrain, Srv!Goto
<1>5. Srv!Active \subseteq Srv!Active' /\ Srv!Active' \subseteq Srv!Active \cup {j} /\ Srv!Promoting' = Srv!Promoting
  BY <1>2, <1>4 DEF SrvTypeOK, Srv!Active, Srv!Promoting
<1>6. AloneIsAlone'
  <2>1. CASE UNCHANGED alone /\ runAt'[j] = "failed"
    <3>1. Srv!Active' = Srv!Active
      BY <2>1, <1>2, <1>5 DEF Srv!Active
    <3>2. j \notin alone
      BY <1>2 DEF AloneIsAlone
    <3> QED
      BY <2>1, <3>1, <3>2, <1>2, <1>3 DEF AloneIsAlone, SrvTypeOK
  <2>2. CASE Srv!Begun(j)
    <3>1. CASE Srv!Active = {}
      <4>1. Srv!Active' \subseteq {j} /\ alone' = alone \cup {j}
        BY <2>2, <3>1, <1>5 DEF Srv!Begun
      <4> QED
        BY <4>1, <1>2, <1>3, <1>4 DEF AloneIsAlone, SrvTypeOK, Srv!Active
    <3>2. CASE Srv!Active # {}
      <4>1. alone' = alone \ Srv!Active
        BY <2>2, <3>2 DEF Srv!Begun
      <4>2. \A k \in alone' : k # j /\ runAt'[k] = runAt[k] /\ k \notin Srv!Active
        BY <4>1, <1>2 DEF AloneIsAlone, SrvTypeOK
      <4> QED
        BY <4>1, <4>2, <1>2, <1>3 DEF AloneIsAlone, SrvTypeOK, Srv!Active
    <3> QED
      BY <3>1, <3>2
  <2> QED
    BY <2>1, <2>2, <1>2 DEF SrvTypeOK, Srv!BeginSeed, Srv!BeginRetrain, Srv!Goto
<1>7. WholeIsLeft' /\ SteadyLoads'
  BY <1>3, <1>5 DEF WholeIsLeft, SteadyLoads
<1>8. CutIsExplained'
  BY <1>2, <1>3 DEF CutIsExplained
<1> QED
  BY <1>1, <1>6, <1>7, <1>8

\* Of the job that detects, trains and promotes.
LEMMA SrvTrainKeeps ==
    ASSUME SrvInv, NEW j \in Srv!Job, Srv!Detect(j) \/ Srv!Promote(j)
    PROVE  SrvInv'
<1> USE DEF SrvInv
<1>1. SrvTypeOK'
  <2>1. Srv!TrainOn(j) \in Sample
    BY DEF Sample, SrvTypeOK, Srv!TrainOn
  <2> QED
    BY <2>1 DEF SrvTypeOK, SrvWhere, Srv!Detect, Srv!Promote, Srv!Goto
<1>2. j \in Srv!Active /\ \A k \in Srv!Job \ {j} : runAt'[k] = runAt[k] /\ sample'[k] = sample[k]
  BY DEF SrvTypeOK, Srv!Detect, Srv!Promote, Srv!Goto, Srv!Active
<1>3. UNCHANGED <<reference, service, load, alone>>
  BY DEF Srv!Detect, Srv!Promote
<1>4. Srv!Active' \subseteq Srv!Active
  BY <1>2 DEF Srv!Active
<1>5. CutIsExplained'
  BY <1>2, <1>3 DEF CutIsExplained, SrvTypeOK, Srv!Detect, Srv!Promote, Srv!Goto, Srv!Active
<1>6. AloneIsAlone'
  <2>1. \A k \in alone \ {j} : k \notin Srv!Active /\ runAt'[k] = runAt[k]
    BY <1>2 DEF AloneIsAlone, SrvTypeOK
  <2>2. runAt'[j] \in {"done", "trained"} \/ (runAt'[j] = "promoted" /\ production' = sample'[j])
    BY DEF SrvTypeOK, Srv!Detect, Srv!Promote, Srv!Goto
  <2>3. j \in alone => Srv!Active' \subseteq {j}
    BY <1>2, <1>4 DEF AloneIsAlone
  <2> QED
    BY <2>1, <2>2, <2>3, <1>3 DEF AloneIsAlone, SrvTypeOK, Srv!Active
<1>7. CASE Srv!Detect(j)
  <2>1. Srv!Promoting' = Srv!Promoting /\ UNCHANGED <<production, whole, steady>>
    BY <1>2, <1>7 DEF SrvTypeOK, Srv!Detect, Srv!Goto, Srv!Promoting
  <2> QED
    BY <2>1, <1>1, <1>3, <1>5, <1>6 DEF WholeIsLeft, SteadyLoads
<1>8. CASE Srv!Promote(j)
  <2>1. ~whole' /\ steady' = {s \in steady : ~load[s].on}
    BY <1>8 DEF Srv!Promote
  <2> QED
    BY <2>1, <1>1, <1>3, <1>5, <1>6 DEF WholeIsLeft, SteadyLoads
<1> QED
  BY <1>7, <1>8

\* Of the job that replaces the reference, or is cut short.
LEMMA SrvWriteKeeps ==
    ASSUME SrvInv, NEW j \in Srv!Job, Srv!Truncate(j) \/ Srv!Write(j) \/ Srv!Cut(j)
    PROVE  SrvInv'
<1> USE DEF SrvInv
<1>1. SrvTypeOK'
  BY DEF SrvTypeOK, SrvWhere, Content, Srv!Truncate, Srv!Write, Srv!Written, Srv!Cut, Srv!Goto
<1>2. j \in Srv!Active /\ \A k \in Srv!Job \ {j} : runAt'[k] = runAt[k]
  BY DEF SrvTypeOK, Srv!Truncate, Srv!Write, Srv!Cut, Srv!Goto, Srv!Active
<1>3. UNCHANGED <<production, sample, service, load, alone, steady>>
  BY DEF Srv!Truncate, Srv!Write, Srv!Cut
<1>4. Srv!Active' \subseteq Srv!Active
  BY <1>2 DEF Srv!Active
<1>5. AloneIsAlone'
  <2>1. \A k \in alone \ {j} : k \notin Srv!Active /\ runAt'[k] = runAt[k]
    BY <1>2 DEF AloneIsAlone, SrvTypeOK
  <2>2. runAt'[j] \in {"done", "failed"} \/ (runAt'[j] = "writing" /\ runAt[j] = "promoted")
    BY DEF SrvTypeOK, Srv!Truncate, Srv!Write, Srv!Cut, Srv!Goto
  <2>3. j \in alone => Srv!Active' \subseteq {j}
    BY <1>2, <1>4 DEF AloneIsAlone
  <2> QED
    BY <2>1, <2>2, <2>3, <1>3 DEF AloneIsAlone, SrvTypeOK, Srv!Active
<1>6. SteadyLoads'
  BY <1>3 DEF SteadyLoads
<1>7. WholeIsLeft' /\ CutIsExplained'
  <2>1. CASE Srv!Truncate(j)
    <3>1. ~whole' /\ runAt'[j] = "writing"
      BY <2>1 DEF Srv!Truncate, Srv!Promoting, Srv!Goto, WholeIsLeft, SrvTypeOK
    <3> QED
      BY <3>1 DEF WholeIsLeft, CutIsExplained
  <2>2. CASE Srv!Write(j)
    <3>1. reference' = sample[j] /\ sample[j] \in Sample /\ whole' = (j \in alone) /\ runAt'[j] = "done"
          /\ runAt[j] = "writing"
      BY <2>2 DEF Srv!Write, Srv!Written, Srv!Goto, SrvTypeOK
    <3>2. j \in alone => Srv!Promoting' = {} /\ production' = sample[j]
      BY <1>2, <1>3, <3>1 DEF AloneIsAlone, Srv!Active, Srv!Promoting
    <3> QED
      BY <3>1, <3>2, SamplesAreTold DEF WholeIsLeft, CutIsExplained
  <2>3. CASE Srv!Cut(j)
    <3>1. UNCHANGED <<reference, whole>> /\ runAt'[j] = "failed"
      BY <2>3 DEF Srv!Cut, Srv!Goto, SrvTypeOK
    <3>2. Srv!Promoting' \subseteq Srv!Promoting
      BY <1>2, <3>1 DEF Srv!Promoting
    <3> QED
      BY <1>2, <1>3, <3>1, <3>2 DEF WholeIsLeft, CutIsExplained
  <2> QED
    BY <2>1, <2>2, <2>3
<1> QED
  BY <1>1, <1>5, <1>6, <1>7

\* Of a server that loads, or starts again.
LEMMA SrvLoadKeeps ==
    ASSUME SrvInv, NEW s \in Server, Srv!ReadReference(s) \/ Srv!ReadModel(s) \/ Srv!Restart(s)
    PROVE  SrvInv'
<1> USE DEF SrvInv
<1>1. UNCHANGED <<production, reference, runAt, sample, whole, alone>>
  BY DEF Srv!ReadReference, Srv!ReadModel, Srv!Restart
<1>2. AloneIsAlone' /\ WholeIsLeft' /\ CutIsExplained'
  BY <1>1 DEF AloneIsAlone, WholeIsLeft, CutIsExplained, Srv!Active, Srv!Promoting
<1>3. SrvTypeOK'
  <2>1. service' \in [Server -> {NoModel} \cup [model : Sample, reference : Content]]
    BY DEF SrvTypeOK, Srv!ReadReference, Srv!ReadModel, Srv!Restart
  <2>2. NoModel \in Content /\ reference \in Content
    BY DEF SrvTypeOK, Content
  <2>3. /\ [on |-> TRUE, reference |-> reference] \in [on : BOOLEAN, reference : Content]
        /\ Srv!NotLoading \in [on : BOOLEAN, reference : Content]
    BY <2>2 DEF Srv!NotLoading
  <2>4. load' \in [Server -> [on : BOOLEAN, reference : Content]]
    BY <2>3 DEF SrvTypeOK, Srv!ReadReference, Srv!ReadModel, Srv!Restart
  <2>5. steady' \subseteq Server
    BY DEF SrvTypeOK, Srv!ReadReference, Srv!ReadModel, Srv!Restart
  <2> QED
    BY <1>1, <2>1, <2>4, <2>5 DEF SrvTypeOK
<1>4. \A t \in Server \ {s} : load'[t] = load[t] /\ service'[t] = service[t] /\ (t \in steady' <=> t \in steady)
  BY DEF SrvTypeOK, Srv!ReadReference, Srv!ReadModel, Srv!Restart, Srv!NotLoading
<1>5. ASSUME s \in steady'
      PROVE  /\ load'[s].on => load'[s].reference = production /\ production \in Sample
             /\ ~load'[s].on /\ service'[s] # NoModel => service'[s].reference = service'[s].model
  <2>1. CASE Srv!ReadReference(s)
    <3>1. load'[s] = [on |-> TRUE, reference |-> reference] /\ Srv!Promoting = {} /\ whole
      BY <1>5, <2>1 DEF SrvTypeOK, Srv!ReadReference
    <3> QED
      BY <3>1 DEF WholeIsLeft
  <2>2. CASE Srv!ReadModel(s)
    <3>1. s \in steady /\ load[s].on /\ load'[s] = [on |-> FALSE, reference |-> NoModel]
      BY <1>5, <2>2 DEF SrvTypeOK, Srv!ReadModel, Srv!NotLoading
    <3>2. production # NoModel /\ load[s].reference = production
      BY <3>1, SamplesAreTold DEF SteadyLoads
    <3>3. service'[s] = [model |-> production, reference |-> production]
      BY <2>2, <3>2 DEF SrvTypeOK, Srv!ReadModel
    <3> QED
      BY <3>1, <3>3
  <2>3. CASE Srv!Restart(s)
    BY <2>3 DEF SrvTypeOK, Srv!Restart, Srv!NotLoading
  <2> QED
    BY <2>1, <2>2, <2>3
<1>6. SteadyLoads'
  BY <1>1, <1>3, <1>4, <1>5 DEF SteadyLoads, SrvTypeOK
<1> QED
  BY <1>2, <1>3, <1>6

LEMMA SrvStepKeeps ==
    ASSUME SrvInv, [Srv!Next]_(Srv!vars)
    PROVE  SrvInv'
<1>1. CASE UNCHANGED Srv!vars
  BY <1>1 DEF Srv!vars, SrvInv, SrvTypeOK, AloneIsAlone, WholeIsLeft, SteadyLoads, CutIsExplained,
              Srv!Active, Srv!Promoting
<1>2. CASE Srv!Next
  <2>1. Seed \in Srv!Job
    BY DEF Srv!Job
  <2> QED
    BY <1>2, <2>1, SrvBeginKeeps, SrvTrainKeeps, SrvWriteKeeps, SrvLoadKeeps DEF Srv!Next
<1> QED
  BY <1>1, <1>2

\* A step of the services is a step of the server's part or leaves it as it is.
LEMMA SrvOfStep ==
    ASSUME [MCNext]_allVars
    PROVE  [Srv!Next]_(Srv!vars)
BY DEF MCNext, AccountsStep, McpStep, DocumentsStep, ServerStep, PageStep, ModelsStep, SelectionStep,
       DatasetsStep, FeedbackStep, allVars, serverVars, Srv!vars

\* drift_retrain.main against _load_service, for any jobs and servers: drift is
\* measured against the sample of the model that is served.
THEOREM DriftHolds == MCSpec => []DriftIsAgainstOwnSample
<1>1. MCInit => SrvInv
  BY SrvInitHolds DEF MCInit
<1>2. SrvInv /\ [MCNext]_allVars => SrvInv'
  BY SrvOfStep, SrvStepKeeps
<1>3. SrvInv => DriftIsAgainstOwnSample
  BY DEF SrvInv, SrvTypeOK, SteadyLoads, WholeIsLeft, CutIsExplained, DriftIsAgainstOwnSample,
         Srv!DriftIsAgainstOwnSample
<1> QED
  BY <1>1, <1>2, <1>3, PTL DEF MCSpec

-----------------------------------------------------------------------------
(* Accounts, keys and sign-in (Accounts).                                   *)

AccWhere == Acc!Ended \cup {"begin", "find", "select", "create", "link", "mint", "touch", "revoke"}
Progress == [pc : AccWhere, claims : Acc!Claims, user : Acc!Account \cup {NoEmail}, key : Nat]
KeyRow == [owner : Acc!Account, used : BOOLEAN, revoked : BOOLEAN]

\* What a request may ask for.
AskOK(r) ==
    /\ ask[r].kind = "signin" => ask[r].subject \in Subject
    /\ ask[r].kind \in {"signup", "login"} => ask[r].email \in Acc!Account

AccTypeOK ==
    /\ \A r \in Request : AskOK(r)
    /\ DOMAIN users \subseteq Acc!Account
    /\ identities \subseteq [subject : Subject, user : Acc!Account]
    /\ keys \in Seq(KeyRow)
    /\ req \in [Request -> Progress]
    /\ cut \subseteq Subject

\* What a request has found by the time it is where it is.
RequestOK ==
    \A r \in Request :
        /\ req[r].pc \in {"link", "mint", "revoke", "touch"} => req[r].user \in Acc!Account
        /\ req[r].pc = "touch" => /\ req[r].key \in DOMAIN keys
                                  /\ ask[r].kind \in {"create_key", "revoke_key", "me"}
        /\ req[r].pc \in {"find", "select", "link"} => Acc!SigningIn(r)
        /\ req[r].pc = "select" => Acc!Vouched(req[r].claims)
        /\ req[r].pc = "create" => Acc!SigningIn(r) \/ ask[r].kind = "signup"
        /\ req[r].pc = "link" => req[r].user = Acc!NewAccount(r)

\* The account that a sign-in without an identity row comes to.
AccountOf(s, c) == IF Acc!Vouched(c) THEN c.email ELSE Acc!Placeholder(s)

Linking(r) == Acc!SigningIn(r) /\ req[r].pc \in {"select", "create", "link"}

\* Two sign-ins of a subject that look for it before either links it overlap.
PairsAreTold ==
    \A r, q \in Request :
        r # q /\ Linking(r) /\ Linking(q) /\ Acc!SubjectOf(r) = Acc!SubjectOf(q) =>
            [subject |-> Acc!SubjectOf(r), told |-> {req[r].claims, req[q].claims}] \in overlaps

\* What is linked while a sign-in of the subject is under way was linked by one
\* that overlapped, and by what that one was told.
LinkedIsTold ==
    \A r \in Request, i \in identities :
        Linking(r) /\ Acc!SubjectOf(r) = i.subject =>
            \E o \in overlaps, c \in Acc!Claims :
                /\ o.subject = i.subject /\ o.told = {c, req[r].claims}
                /\ AccountOf(i.subject, c) = i.user

\* An account named after a subject was registered under that name, is linked,
\* about to be, or was cut off.
PlaceholderIsExplained ==
    \A s \in Subject : Acc!Placeholder(s) \in DOMAIN users =>
        \/ s \in cut \/ Acc!Placeholder(s) \in registered
        \/ \E i \in identities : i.subject = s
        \/ \E q \in Request : Acc!SigningIn(q) /\ Acc!SubjectOf(q) = s /\ req[q].pc = "link"

AccInv ==
    /\ AccTypeOK /\ RequestOK /\ PairsAreTold /\ LinkedIsTold /\ PlaceholderIsExplained
    /\ Acc!SameAccountEachTime

\* Accounts are named apart.
LEMMA PlaceholdersAreTold ==
    \A s, t \in Subject : Acc!Placeholder(s) = Acc!Placeholder(t) => s = t
<1>1. \A s, t : [subject |-> s] = [subject |-> t] => s = t
  <2> TAKE s, t
  <2>1. [subject |-> s].subject = s /\ [subject |-> t].subject = t
    OBVIOUS
  <2> QED
    BY <2>1
<1> QED
  BY <1>1 DEF Acc!Placeholder

\* A sign-in, or a signup, comes to an account.
LEMMA NewAccountType ==
    ASSUME AccTypeOK, NEW r \in Request, Acc!SigningIn(r) \/ ask[r].kind = "signup"
    PROVE  /\ Acc!NewAccount(r) \in Acc!Account
           /\ Acc!SigningIn(r) => Acc!NewAccount(r) = AccountOf(Acc!SubjectOf(r), req[r].claims)
<1>1. req[r].claims \in Acc!Claims /\ AskOK(r)
  BY DEF AccTypeOK, Progress
<1>2. Acc!Vouched(req[r].claims) => req[r].claims.email \in Email
  BY <1>1 DEF Acc!Claims, Acc!Vouched
<1>3. Acc!SigningIn(r) => Acc!SubjectOf(r) \in Subject
  BY <1>1 DEF AskOK, Acc!SigningIn, Acc!SubjectOf
<1>4. ~Acc!SigningIn(r) => ask[r].email \in Acc!Account
  BY <1>1 DEF AskOK, Acc!SigningIn
<1> QED
  BY <1>2, <1>3, <1>4 DEF Acc!NewAccount, AccountOf, Acc!Account

\* A request that goes somewhere is well typed, and the others stay.
LEMMA ProgressType ==
    ASSUME req \in [Request -> Progress], NEW r \in Request, NEW pc \in AccWhere
    PROVE  /\ req[r].claims \in Acc!Claims
           /\ Acc!Goto(r, pc) => req' \in [Request -> Progress]
           /\ \A u \in Acc!Account : Acc!GotoWith(r, pc, u) => req' \in [Request -> Progress]
           /\ \A c \in Acc!Claims :
                req' = [req EXCEPT ![r].pc = pc, ![r].claims = c] => req' \in [Request -> Progress]
           /\ \A u \in Acc!Account, k \in Nat :
                req' = [req EXCEPT ![r].pc = pc, ![r].user = u, ![r].key = k] => req' \in [Request -> Progress]
<1> USE DEF Progress
<1>1. req[r].claims \in Acc!Claims
  OBVIOUS
<1>2. Acc!Goto(r, pc) => req' \in [Request -> Progress]
  BY DEF Acc!Goto
<1>3. ASSUME NEW u \in Acc!Account, Acc!GotoWith(r, pc, u) PROVE req' \in [Request -> Progress]
  BY <1>3 DEF Acc!GotoWith
<1>4. ASSUME NEW c \in Acc!Claims, req' = [req EXCEPT ![r].pc = pc, ![r].claims = c]
      PROVE  req' \in [Request -> Progress]
  BY <1>4
<1>5. ASSUME NEW u \in Acc!Account, NEW k \in Nat,
             req' = [req EXCEPT ![r].pc = pc, ![r].user = u, ![r].key = k]
      PROVE  req' \in [Request -> Progress]
  <2>1. [req[r] EXCEPT !.pc = pc, !.user = u, !.key = k] \in Progress
    <3>1. req[r] \in Progress
      OBVIOUS
    <3> QED
      BY <1>5, <3>1
  <2>2. req' = [req EXCEPT ![r] = [req[r] EXCEPT !.pc = pc, !.user = u, !.key = k]]
    BY <1>5
  <2> QED
    BY <2>1, <2>2
<1> QED
  BY <1>1, <1>2, <1>3, <1>4, <1>5

\* So is the table of keys when a column of one row is written.
LEMMA KeyRowsType ==
    ASSUME keys \in Seq(KeyRow), NEW k \in DOMAIN keys
    PROVE  /\ k \in Nat /\ keys[k] \in KeyRow /\ keys[k].owner \in Acc!Account
           /\ [keys EXCEPT ![k].used = TRUE] \in Seq(KeyRow)
           /\ [keys EXCEPT ![k].revoked = TRUE] \in Seq(KeyRow)
<1>1. k \in 1 .. Len(keys) /\ keys[k] \in KeyRow
  OBVIOUS
<1>2. /\ keys[k].owner \in Acc!Account
      /\ [keys[k] EXCEPT !.used = TRUE] \in KeyRow /\ [keys[k] EXCEPT !.revoked = TRUE] \in KeyRow
  BY <1>1 DEF KeyRow
<1> QED
  BY <1>1, <1>2, ExceptSeq


\* Wherever a request goes, the tables and the requests keep their types.
LEMMA AccTypeKeeps ==
    ASSUME AccTypeOK, RequestOK, NEW r \in Request,
           \/ Acc!Exchange(r) \/ Acc!FindIdentity(r) \/ Acc!FindByEmail(r) \/ Acc!AddUser(r)
           \/ Acc!AddIdentity(r) \/ Acc!Signup(r) \/ Acc!Login(r) \/ Acc!CreateApiKey(r)
           \/ Acc!Resolve(r) \/ Acc!LastUsed(r) \/ Acc!RevokeKey(r) \/ Acc!Crash(r)
    PROVE  AccTypeOK' /\ DOMAIN keys \subseteq DOMAIN keys'
<1> DEFINE Kept == /\ UNCHANGED ask
                   /\ DOMAIN users' \subseteq Acc!Account
                   /\ identities' \subseteq [subject : Subject, user : Acc!Account]
                   /\ keys' \in Seq(KeyRow) /\ DOMAIN keys \subseteq DOMAIN keys'
                   /\ req' \in [Request -> Progress]
                   /\ cut' \subseteq Subject
<1>1. SUFFICES Kept
  BY DEF AccTypeOK, AskOK
<1>2. \A pc \in {"refused", "find", "select", "create", "link", "mint", "duplicate", "done", "crashed",
                 "touch", "revoke"} : pc \in AccWhere
  BY DEF AccWhere, Acc!Ended
<1>3. /\ DOMAIN users \subseteq Acc!Account
      /\ identities \subseteq [subject : Subject, user : Acc!Account]
      /\ keys \in Seq(KeyRow) /\ req \in [Request -> Progress]
      /\ cut \subseteq Subject /\ AskOK(r)
  BY DEF AccTypeOK
<1> USE DEF Acc!At
<1>5. CASE Acc!Exchange(r)
  BY <1>2, <1>3, ProgressType, <1>5 DEF Acc!Exchange
<1>6. CASE Acc!FindIdentity(r)
  <2>1. \A i \in identities : i.user \in Acc!Account
    BY <1>3
  <2> QED
    BY <1>2, <1>3, ProgressType, <1>6, <2>1 DEF Acc!FindIdentity, Acc!RowsOf
<1>7. CASE Acc!FindByEmail(r)
  <2>1. Acc!Vouched(req[r].claims) /\ Acc!SigningIn(r)
    BY <1>7 DEF Acc!FindByEmail, RequestOK
  <2>2. req[r].claims.email \in Acc!Account
    BY <2>1, NewAccountType DEF Acc!NewAccount
  <2> QED
    BY <1>2, <1>3, ProgressType, <1>7, <2>2 DEF Acc!FindByEmail
<1>8. CASE Acc!AddUser(r)
  <2>1. Acc!NewAccount(r) \in Acc!Account
    BY <1>8, NewAccountType DEF Acc!AddUser, RequestOK
  <2>2. req' \in [Request -> Progress] /\ DOMAIN users' \subseteq Acc!Account
    BY <1>2, <1>3, ProgressType, <1>8, <2>1 DEF Acc!AddUser
  <2> QED
    BY <1>3, <1>8, <2>2 DEF Acc!AddUser
<1>9. CASE Acc!AddIdentity(r)
  <2>1. req[r].user \in Acc!Account /\ Acc!SubjectOf(r) \in Subject
    BY <1>3, <1>9 DEF Acc!AddIdentity, RequestOK, AskOK, Acc!SigningIn, Acc!SubjectOf
  <2>2. req' \in [Request -> Progress]
    BY <1>2, <1>3, ProgressType, <1>9 DEF Acc!AddIdentity
  <2>3. identities' \subseteq [subject : Subject, user : Acc!Account]
    BY <1>3, <1>9, <2>1 DEF Acc!AddIdentity
  <2> QED
    BY <1>3, <1>9, <2>2, <2>3 DEF Acc!AddIdentity
<1>10. CASE Acc!Signup(r) \/ Acc!Login(r)
  <2>1. ask[r].kind = "login" => ask[r].email \in Acc!Account
    BY <1>3 DEF AskOK, Acc!Account
  <2> QED
    BY <1>2, <1>3, ProgressType, <1>10, <2>1 DEF Acc!Signup, Acc!Login
<1>11. CASE Acc!CreateApiKey(r)
  <2>1. [owner |-> req[r].user, used |-> FALSE, revoked |-> FALSE] \in KeyRow
    BY <1>11 DEF Acc!CreateApiKey, RequestOK, KeyRow
  <2>2. keys' \in Seq(KeyRow) /\ DOMAIN keys \subseteq DOMAIN keys'
    BY <1>3, <1>11, <2>1 DEF Acc!CreateApiKey
  <2> QED
    BY <1>2, <1>3, ProgressType, <1>11, <2>2 DEF Acc!CreateApiKey
<1>12. CASE Acc!Resolve(r)
  <2>1. \A k \in DOMAIN keys : k \in Nat /\ keys[k].owner \in Acc!Account
    BY <1>3, KeyRowsType
  <2>2. PICK k \in DOMAIN keys :
           IF keys[k].revoked
           THEN Acc!Goto(r, "refused")
           ELSE req' = [req EXCEPT ![r].pc = "touch", ![r].user = keys[k].owner, ![r].key = k]
    BY <1>12 DEF Acc!Resolve
  <2>3. req' \in [Request -> Progress]
    BY <1>2, <1>3, ProgressType, <2>1, <2>2
  <2> QED
    BY <1>3, <1>12, <2>3 DEF Acc!Resolve
<1>13. CASE Acc!LastUsed(r)
  <2>1. Acc!Handler(r) \in {"mint", "revoke", "done"} /\ req[r].key \in DOMAIN keys
    BY <1>13 DEF Acc!LastUsed, Acc!Handler, RequestOK
  <2>2. keys' \in Seq(KeyRow) /\ DOMAIN keys' = DOMAIN keys
    BY <1>3, <1>13, <2>1, KeyRowsType DEF Acc!LastUsed, Acc!Touched
  <2> QED
    BY <1>2, <1>3, ProgressType, <1>13, <2>1, <2>2 DEF Acc!LastUsed
<1>14. CASE Acc!RevokeKey(r)
  <2>1. keys' \in Seq(KeyRow) /\ DOMAIN keys' = DOMAIN keys
    BY <1>3, <1>14, KeyRowsType DEF Acc!RevokeKey
  <2> QED
    BY <1>2, <1>3, ProgressType, <1>14, <2>1 DEF Acc!RevokeKey
<1>15. CASE Acc!Crash(r)
  <2>1. Acc!At(r, "link") => Acc!SubjectOf(r) \in Subject
    BY <1>3 DEF RequestOK, AskOK, Acc!SigningIn, Acc!SubjectOf
  <2> QED
    BY <1>2, <1>3, ProgressType, <1>15, <2>1 DEF Acc!Crash
<1> QED
  BY <1>5, <1>6, <1>7, <1>8, <1>9, <1>10, <1>11, <1>12, <1>13, <1>14, <1>15

\* And what a request has found stays so.
LEMMA RequestKeeps ==
    ASSUME AccTypeOK, RequestOK, NEW r \in Request,
           \/ Acc!Exchange(r) \/ Acc!FindIdentity(r) \/ Acc!FindByEmail(r) \/ Acc!AddUser(r)
           \/ Acc!AddIdentity(r) \/ Acc!Signup(r) \/ Acc!Login(r) \/ Acc!CreateApiKey(r)
           \/ Acc!Resolve(r) \/ Acc!LastUsed(r) \/ Acc!RevokeKey(r) \/ Acc!Crash(r)
    PROVE  /\ RequestOK' /\ UNCHANGED ask
           /\ \A q \in Request \ {r} : req'[q] = req[q]
<1> USE DEF Acc!Goto, Acc!GotoWith, Acc!At
<1>1. UNCHANGED ask /\ \A q \in Request \ {r} : req'[q] = req[q]
  BY DEF AccTypeOK, Acc!Exchange, Acc!FindIdentity, Acc!FindByEmail, Acc!AddUser, Acc!AddIdentity,
         Acc!Signup, Acc!Login, Acc!CreateApiKey, Acc!Resolve, Acc!LastUsed, Acc!RevokeKey, Acc!Crash
<1>2. \A q \in Request \ {r} : Acc!NewAccount(q)' = Acc!NewAccount(q)
  BY <1>1 DEF Acc!NewAccount, Acc!SigningIn, Acc!SubjectOf
<1>3. req'[r].claims = req[r].claims => Acc!NewAccount(r)' = Acc!NewAccount(r)
  BY <1>1 DEF Acc!NewAccount, Acc!SigningIn, Acc!SubjectOf
<1>4. AccTypeOK' /\ DOMAIN keys \subseteq DOMAIN keys'
  BY AccTypeKeeps
<1>5. req[r] \in Progress /\ req'[r] \in Progress /\ req \in [Request -> Progress]
  BY <1>4 DEF AccTypeOK
<1> DEFINE Found == /\ req'[r].pc \in {"link", "mint", "revoke", "touch"} => req'[r].user \in Acc!Account
                    /\ req'[r].pc = "touch" => /\ req'[r].key \in DOMAIN keys'
                                               /\ ask[r].kind \in {"create_key", "revoke_key", "me"}
                    /\ req'[r].pc \in {"find", "select", "link"} => Acc!SigningIn(r)
                    /\ req'[r].pc = "select" => Acc!Vouched(req'[r].claims)
                    /\ req'[r].pc = "create" => Acc!SigningIn(r) \/ ask[r].kind = "signup"
                    /\ req'[r].pc = "link" => req'[r].user = Acc!NewAccount(r)'
<1>6. SUFFICES Found
  <2>1. ASSUME NEW q \in Request \ {r}, q \in Request
        PROVE /\ req[q].pc \in {"link", "mint", "revoke", "touch"} => req[q].user \in Acc!Account
              /\ req[q].pc = "touch" => /\ req[q].key \in DOMAIN keys'
                                        /\ ask[q].kind \in {"create_key", "revoke_key", "me"}
              /\ req[q].pc \in {"find", "select", "link"} => Acc!SigningIn(q)
              /\ req[q].pc = "select" => Acc!Vouched(req[q].claims)
              /\ req[q].pc = "create" => Acc!SigningIn(q) \/ ask[q].kind = "signup"
              /\ req[q].pc = "link" => req[q].user = Acc!NewAccount(q)
    BY <1>4, <2>1 DEF RequestOK
  <2>2. \A q \in Request : Acc!SigningIn(q)' = Acc!SigningIn(q)
    BY <1>1 DEF Acc!SigningIn
  <2> QED
    BY <1>1, <1>2, <2>1, <2>2 DEF RequestOK
<1>7. CASE Acc!Exchange(r)
  BY <1>5, <1>7 DEF Acc!Exchange, Progress
<1>8. CASE Acc!FindIdentity(r)
  <2>1. \A i \in identities : i.user \in Acc!Account
    BY DEF AccTypeOK
  <2>2. Acc!SigningIn(r)
    BY <1>8 DEF Acc!FindIdentity, RequestOK
  <2> QED
    BY <1>5, <1>8, <2>1, <2>2 DEF Acc!FindIdentity, Acc!RowsOf, Progress
<1>9. CASE Acc!FindByEmail(r)
  <2>1. Acc!Vouched(req[r].claims) /\ Acc!SigningIn(r)
    BY <1>9 DEF Acc!FindByEmail, RequestOK
  <2>2. req[r].claims.email = Acc!NewAccount(r) /\ Acc!NewAccount(r) \in Acc!Account
    BY <2>1, NewAccountType DEF Acc!NewAccount
  <2>3. req'[r].claims = req[r].claims
    BY <1>5, <1>9 DEF Acc!FindByEmail, Progress
  <2> QED
    BY <1>3, <1>5, <1>9, <2>1, <2>2, <2>3 DEF Acc!FindByEmail, Progress
<1>10. CASE Acc!AddUser(r)
  <2>1. Acc!NewAccount(r) \in Acc!Account
    BY <1>10, NewAccountType DEF Acc!AddUser, RequestOK
  <2>2. req'[r].claims = req[r].claims
    BY <1>5, <1>10 DEF Acc!AddUser, Progress
  <2> QED
    BY <1>3, <1>5, <1>10, <2>1, <2>2 DEF Acc!AddUser, Progress
<1>11. CASE Acc!AddIdentity(r)
  BY <1>5, <1>11 DEF Acc!AddIdentity, RequestOK, Progress
<1>12. CASE Acc!Signup(r) \/ Acc!Login(r)
  <2>1. ask[r].kind = "login" => ask[r].email \in Acc!Account
    BY DEF AccTypeOK, AskOK, Acc!Account
  <2> QED
    BY <1>5, <1>12, <2>1 DEF Acc!Signup, Acc!Login, Progress
<1>13. CASE Acc!CreateApiKey(r) \/ Acc!RevokeKey(r) \/ Acc!Crash(r)
  BY <1>5, <1>13 DEF Acc!CreateApiKey, Acc!RevokeKey, Acc!Crash, Progress
<1>14. CASE Acc!Resolve(r)
  <2>1. \A k \in DOMAIN keys : k \in Nat /\ keys[k].owner \in Acc!Account
    BY KeyRowsType DEF AccTypeOK
  <2>2. PICK k \in DOMAIN keys :
           IF keys[k].revoked
           THEN Acc!Goto(r, "refused")
           ELSE req' = [req EXCEPT ![r].pc = "touch", ![r].user = keys[k].owner, ![r].key = k]
    BY <1>14 DEF Acc!Resolve
  <2>3. keys' = keys /\ ask[r].kind \in {"create_key", "revoke_key", "me"}
    BY <1>14 DEF Acc!Resolve
  <2> QED
    BY <1>5, <2>1, <2>2, <2>3 DEF Progress
<1>15. CASE Acc!LastUsed(r)
  <2>1. Acc!Handler(r) \in {"mint", "revoke", "done"} /\ req[r].user \in Acc!Account
    BY <1>15 DEF Acc!LastUsed, Acc!Handler, RequestOK
  <2> QED
    BY <1>5, <1>15, <2>1 DEF Acc!LastUsed, Progress
<1> QED
  BY <1>7, <1>8, <1>9, <1>10, <1>11, <1>12, <1>13, <1>14, <1>15

\* Two different things are two.
LEMMA TwoOf ==
    ASSUME NEW a, NEW b, a # b
    PROVE  Cardinality({a, b}) = 2
<1>1. IsFiniteSet({a}) /\ Cardinality({a}) = 1
  BY FS_Singleton
<1>2. b \notin {a} /\ {a, b} = {a} \cup {b}
  OBVIOUS
<1>3. Cardinality({a} \cup {b}) = Cardinality({a}) + 1
  <2>1. Cardinality({a} \cup {b}) = IF b \in {a} THEN Cardinality({a}) ELSE Cardinality({a}) + 1
    BY ONLY <1>1, FS_AddElement
  <2> QED
    BY <1>2, <2>1
<1> QED
  BY <1>1, <1>2, <1>3

\* The part counts as the services do.
LEMMA AccCardinality == \A S : Acc!Cardinality(S) = Cardinality(S)
BY DEF Acc!Cardinality, Cardinality

\* A step that brings no sign-in closer to the link keeps what overlaps explain.
LEMMA QuietKeeps ==
    ASSUME AccInv, NEW r \in Request, AccTypeOK', RequestOK',
           UNCHANGED <<ask, identities, registered>>, DOMAIN users' = DOMAIN users,
           overlaps \subseteq overlaps', cut \subseteq cut',
           \A q \in Request \ {r} : req'[q] = req[q],
           Linking(r)' => Linking(r) /\ req'[r].claims = req[r].claims,
           Acc!SigningIn(r) /\ req[r].pc = "link" =>
               req'[r].pc = "link" \/ Acc!SubjectOf(r) \in cut',
           req'[r].pc # "duplicate"
    PROVE  AccInv'
<1>1. \A q \in Request : /\ Acc!SigningIn(q)' = Acc!SigningIn(q)
                         /\ Acc!SubjectOf(q)' = Acc!SubjectOf(q)
  BY DEF Acc!SigningIn, Acc!SubjectOf
<1>2. \A q \in Request : Linking(q)' => Linking(q) /\ req'[q].claims = req[q].claims
  BY <1>1 DEF Linking
<1>3. PairsAreTold'
  BY <1>1, <1>2 DEF AccInv, PairsAreTold
<1>4. LinkedIsTold'
  <2> SUFFICES ASSUME NEW q \in Request, NEW i \in identities, Linking(q)', Acc!SubjectOf(q) = i.subject
               PROVE  \E o \in overlaps', c \in Acc!Claims :
                        /\ o.subject = i.subject /\ o.told = {c, req'[q].claims}
                        /\ AccountOf(i.subject, c) = i.user
    BY <1>1 DEF LinkedIsTold, AccountOf
  <2>1. Linking(q) /\ req'[q].claims = req[q].claims
    BY <1>2
  <2> QED
    BY <2>1 DEF AccInv, LinkedIsTold
<1>5. PlaceholderIsExplained'
  <2> SUFFICES ASSUME NEW s \in Subject, Acc!Placeholder(s) \in DOMAIN users
               PROVE  \/ s \in cut' \/ Acc!Placeholder(s) \in registered
                      \/ \E i \in identities : i.subject = s
                      \/ \E q \in Request : Acc!SigningIn(q) /\ Acc!SubjectOf(q) = s /\ req'[q].pc = "link"
    BY <1>1 DEF PlaceholderIsExplained
  <2> QED
    BY DEF AccInv, PlaceholderIsExplained
<1>6. Acc!SameAccountEachTime'
  <2>1. ASSUME NEW i \in identities, NEW j \in identities, i.subject = j.subject, i.user # j.user
        PROVE  \E o \in overlaps' : o.subject = i.subject /\ Acc!Cardinality(o.told) = 2
    <3>1. PICK o \in overlaps : o.subject = i.subject /\ Acc!Cardinality(o.told) = 2
      BY <2>1 DEF AccInv, Acc!SameAccountEachTime
    <3> QED
      BY <3>1
  <2>2. ASSUME NEW q \in Request, req'[q].pc = "duplicate", Acc!SigningIn(q),
               ~Acc!Vouched(req'[q].claims)
        PROVE  \/ Acc!Placeholder(Acc!SubjectOf(q)) \in registered
               \/ Acc!SubjectOf(q) \in cut' \/ \E o \in overlaps' : o.subject = Acc!SubjectOf(q)
    <3>1. req'[q] = req[q]
      BY <2>2
    <3> QED
      BY <2>2, <3>1 DEF AccInv, Acc!SameAccountEachTime, Acc!SignInsOverlapped, Acc!At
  <2> QED
    BY <1>1, <2>1, <2>2 DEF Acc!SameAccountEachTime, Acc!SignInsOverlapped, Acc!At
<1> QED
  BY <1>3, <1>4, <1>5, <1>6 DEF AccInv

\* The look-up of an identity notes whom it overlaps.
LEMMA FindIdentityKeeps ==
    ASSUME AccInv, NEW r \in Request, Acc!FindIdentity(r)
    PROVE  AccInv'
<1>1. AccTypeOK' /\ RequestOK' /\ UNCHANGED ask /\ \A q \in Request \ {r} : req'[q] = req[q]
  BY AccTypeKeeps, RequestKeeps DEF AccInv
<1>2. UNCHANGED <<users, registered, identities, cut>> /\ overlaps \subseteq overlaps'
  BY DEF Acc!FindIdentity
<1>3. /\ req[r].pc = "find" /\ req'[r].claims = req[r].claims
      /\ \/ req'[r].pc = "mint"
         \/ Acc!RowsOf(r) = {} /\ req'[r].pc \in {"select", "create"}
  BY DEF AccInv, AccTypeOK, Progress, Acc!FindIdentity, Acc!At, Acc!Goto, Acc!GotoWith
<1>4. \A q \in Request : /\ Acc!SigningIn(q)' = Acc!SigningIn(q)
                         /\ Acc!SubjectOf(q)' = Acc!SubjectOf(q)
  BY <1>1 DEF Acc!SigningIn, Acc!SubjectOf
<1>5. CASE req'[r].pc = "mint"
  BY <1>1, <1>2, <1>3, <1>5, QuietKeeps DEF Linking
<1>6. CASE Acc!RowsOf(r) = {} /\ req'[r].pc \in {"select", "create"}
  <2>1. \A q \in Request \ {r} : Linking(q)' = Linking(q)
    BY <1>1, <1>4 DEF Linking
  <2>2. \A q \in Request \ {r} :
          Linking(q) /\ Acc!SubjectOf(q) = Acc!SubjectOf(r) =>
            [subject |-> Acc!SubjectOf(r), told |-> {req[r].claims, req[q].claims}] \in overlaps'
    BY DEF Acc!FindIdentity, Acc!Between, Linking
  <2>3. PairsAreTold'
    <3> SUFFICES ASSUME NEW p \in Request, NEW q \in Request, p # q, Linking(p)', Linking(q)',
                        Acc!SubjectOf(p) = Acc!SubjectOf(q)
                 PROVE  [subject |-> Acc!SubjectOf(p), told |-> {req'[p].claims, req'[q].claims}] \in overlaps'
      BY <1>4 DEF PairsAreTold
    <3>1. CASE p = r
      BY <1>1, <1>3, <2>1, <2>2, <3>1
    <3>2. CASE q = r
      <4>1. {req'[p].claims, req'[q].claims} = {req[r].claims, req[p].claims}
        BY <1>1, <1>3, <3>2
      <4> QED
        BY <1>1, <2>1, <2>2, <3>2, <4>1
    <3>3. CASE p # r /\ q # r
      BY <1>1, <1>2, <2>1, <3>3 DEF AccInv, PairsAreTold
    <3> QED
      BY <3>1, <3>2, <3>3
  <2>4. LinkedIsTold'
    <3> SUFFICES ASSUME NEW q \in Request, NEW i \in identities, Linking(q)', Acc!SubjectOf(q) = i.subject
                 PROVE  \E o \in overlaps', c \in Acc!Claims :
                          /\ o.subject = i.subject /\ o.told = {c, req'[q].claims}
                          /\ AccountOf(i.subject, c) = i.user
      BY <1>2, <1>4 DEF LinkedIsTold, AccountOf
    <3>1. q # r
      BY <1>6 DEF Acc!RowsOf
    <3> QED
      BY <1>1, <1>2, <2>1, <3>1 DEF AccInv, LinkedIsTold
  <2>5. PlaceholderIsExplained'
    <3>1. \A q \in Request : req[q].pc = "link" => req'[q].pc = "link"
      BY <1>1, <1>3
    <3> QED
      BY <1>2, <1>4, <3>1 DEF AccInv, PlaceholderIsExplained
  <2>6. Acc!SameAccountEachTime'
    <3>1. \A q \in Request : req'[q].pc = "duplicate" => req'[q] = req[q]
      BY <1>1, <1>6
    <3> QED
      BY <1>2, <1>4, <3>1 DEF AccInv, Acc!SameAccountEachTime, Acc!SignInsOverlapped, Acc!At
  <2> QED
    BY <1>1, <2>3, <2>4, <2>5, <2>6 DEF AccInv
<1> QED
  BY <1>3, <1>5, <1>6

\* An account is added, or found to exist: by whom, the overlaps explain.
LEMMA AddUserKeeps ==
    ASSUME AccInv, NEW r \in Request, Acc!AddUser(r)
    PROVE  AccInv'
<1>1. AccTypeOK' /\ RequestOK' /\ UNCHANGED ask /\ \A q \in Request \ {r} : req'[q] = req[q]
  BY AccTypeKeeps, RequestKeeps DEF AccInv
<1>2. UNCHANGED <<identities, overlaps, cut>>
  BY DEF Acc!AddUser
<1>3. /\ req[r].pc = "create" /\ req'[r].claims = req[r].claims
      /\ Acc!SigningIn(r) \/ ask[r].kind = "signup"
  BY DEF AccInv, AccTypeOK, RequestOK, Progress, Acc!AddUser, Acc!At, Acc!Goto, Acc!GotoWith
<1>4. \A q \in Request : /\ Acc!SigningIn(q)' = Acc!SigningIn(q)
                         /\ Acc!SubjectOf(q)' = Acc!SubjectOf(q)
  BY <1>1 DEF Acc!SigningIn, Acc!SubjectOf
<1>5. \/ /\ DOMAIN users' = DOMAIN users \cup {Acc!NewAccount(r)}
         /\ registered' = IF Acc!SigningIn(r) /\ ~Acc!Vouched(req[r].claims) THEN registered
                          ELSE registered \cup {Acc!NewAccount(r)}
         /\ req'[r].pc = IF Acc!SigningIn(r) THEN "link" ELSE "mint"
      \/ /\ Acc!NewAccount(r) \in DOMAIN users /\ DOMAIN users' = DOMAIN users
         /\ registered' = registered
         /\ req'[r].pc = "duplicate"
  BY DEF AccInv, AccTypeOK, Progress, Acc!AddUser, Acc!Goto, Acc!GotoWith
<1>6. \A q \in Request : Linking(q)' => Linking(q) /\ req'[q].claims = req[q].claims
  BY <1>1, <1>3, <1>4, <1>5 DEF Linking
<1>7. PairsAreTold'
  BY <1>2, <1>4, <1>6 DEF AccInv, PairsAreTold
<1>8. LinkedIsTold'
  <2> SUFFICES ASSUME NEW q \in Request, NEW i \in identities, Linking(q)', Acc!SubjectOf(q) = i.subject
               PROVE  \E o \in overlaps, c \in Acc!Claims :
                        /\ o.subject = i.subject /\ o.told = {c, req'[q].claims}
                        /\ AccountOf(i.subject, c) = i.user
    BY <1>2, <1>4 DEF LinkedIsTold, AccountOf
  <2> QED
    BY <1>6 DEF AccInv, LinkedIsTold
<1>9. PlaceholderIsExplained'
  <2> SUFFICES ASSUME NEW s \in Subject, Acc!Placeholder(s) \in DOMAIN users'
               PROVE  \/ s \in cut \/ Acc!Placeholder(s) \in registered'
                      \/ \E i \in identities : i.subject = s
                      \/ \E q \in Request : Acc!SigningIn(q) /\ Acc!SubjectOf(q) = s /\ req'[q].pc = "link"
    BY <1>2, <1>4 DEF PlaceholderIsExplained
  <2>1. CASE Acc!Placeholder(s) \in DOMAIN users
    <3>1. \A q \in Request : req[q].pc = "link" => req'[q].pc = "link"
      BY <1>1, <1>3
    <3>2. registered \subseteq registered'
      BY <1>5
    <3> QED
      BY <2>1, <3>1, <3>2 DEF AccInv, PlaceholderIsExplained
  <2>2. CASE Acc!Placeholder(s) \notin DOMAIN users
    <3>1. Acc!Placeholder(s) = Acc!NewAccount(r) /\ (Acc!SigningIn(r) => req'[r].pc = "link")
      BY <1>5, <2>2
    <3>2. CASE Acc!SigningIn(r) /\ ~Acc!Vouched(req[r].claims)
      <4>1. Acc!NewAccount(r) = Acc!Placeholder(Acc!SubjectOf(r)) /\ Acc!SubjectOf(r) \in Subject
        BY <3>2 DEF AccInv, AccTypeOK, AskOK, Acc!NewAccount, Acc!SigningIn, Acc!SubjectOf
      <4> QED
        BY <3>1, <3>2, <4>1, PlaceholdersAreTold
    <3>3. CASE ~(Acc!SigningIn(r) /\ ~Acc!Vouched(req[r].claims))
      BY <1>5, <2>2, <3>1, <3>3
    <3> QED
      BY <3>2, <3>3
  <2> QED
    BY <2>1, <2>2
<1>10. Acc!SameAccountEachTime'
  <2> SUFFICES ASSUME NEW q \in Request, req'[q].pc = "duplicate", Acc!SigningIn(q),
                      ~Acc!Vouched(req'[q].claims)
               PROVE  \/ Acc!Placeholder(Acc!SubjectOf(q)) \in registered
                      \/ Acc!SubjectOf(q) \in cut \/ \E o \in overlaps : o.subject = Acc!SubjectOf(q)
    <3>1. registered \subseteq registered'
      BY <1>5
    <3> QED
      BY <1>2, <1>4, <3>1 DEF AccInv, Acc!SameAccountEachTime, Acc!SignInsOverlapped, Acc!At
  <2>1. CASE q # r
    BY <1>1, <2>1 DEF AccInv, Acc!SameAccountEachTime, Acc!SignInsOverlapped, Acc!At
  <2>2. CASE q = r
    <3>1. Acc!Placeholder(Acc!SubjectOf(r)) \in DOMAIN users
      BY <1>3, <1>5, <2>2 DEF Acc!NewAccount
    <3>2. Linking(r) /\ Acc!SubjectOf(r) \in Subject
      BY <1>3, <2>2 DEF Linking, AccInv, AccTypeOK, AskOK, Acc!SigningIn, Acc!SubjectOf
    <3>3. CASE \E i \in identities : i.subject = Acc!SubjectOf(r)
      BY <2>2, <3>2, <3>3 DEF AccInv, LinkedIsTold
    <3>4. CASE \E p \in Request : Acc!SigningIn(p) /\ Acc!SubjectOf(p) = Acc!SubjectOf(r) /\ req[p].pc = "link"
      <4>1. PICK p \in Request :
              Acc!SigningIn(p) /\ Acc!SubjectOf(p) = Acc!SubjectOf(r) /\ req[p].pc = "link"
        BY <3>4
      <4>2. p # r /\ Linking(p)
        BY <1>3, <4>1 DEF Linking
      <4>3. [subject |-> Acc!SubjectOf(r), told |-> {req[r].claims, req[p].claims}] \in overlaps
        BY <3>2, <4>1, <4>2 DEF AccInv, PairsAreTold
      <4> QED
        BY <2>2, <4>3
    <3> QED
      BY <2>2, <3>1, <3>2, <3>3, <3>4 DEF AccInv, PlaceholderIsExplained
  <2> QED
    BY <2>1, <2>2
<1> QED
  BY <1>1, <1>7, <1>8, <1>9, <1>10 DEF AccInv

\* A row is linked: another of the subject was linked by a sign-in that was told
\* something else.
LEMMA AddIdentityKeeps ==
    ASSUME AccInv, NEW r \in Request, Acc!AddIdentity(r)
    PROVE  AccInv'
<1>1. AccTypeOK' /\ RequestOK' /\ UNCHANGED ask /\ \A q \in Request \ {r} : req'[q] = req[q]
  BY AccTypeKeeps, RequestKeeps DEF AccInv
<1>2. UNCHANGED <<users, registered, overlaps, cut>>
  BY DEF Acc!AddIdentity
<1>3. req[r].pc = "link" /\ req'[r].pc = "mint" /\ req'[r].claims = req[r].claims
  BY DEF AccInv, AccTypeOK, Progress, Acc!AddIdentity, Acc!At, Acc!Goto
<1>4. \A q \in Request : /\ Acc!SigningIn(q)' = Acc!SigningIn(q)
                         /\ Acc!SubjectOf(q)' = Acc!SubjectOf(q)
  BY <1>1 DEF Acc!SigningIn, Acc!SubjectOf
<1> DEFINE row == [subject |-> Acc!SubjectOf(r), user |-> req[r].user]
<1>5. /\ identities' = identities \cup {row}
      /\ row.subject = Acc!SubjectOf(r) /\ row.user = req[r].user
  BY DEF Acc!AddIdentity
<1> HIDE DEF row
<1>6. /\ Linking(r) /\ req[r].claims \in Acc!Claims
      /\ req[r].user = AccountOf(Acc!SubjectOf(r), req[r].claims)
  <2>1. Acc!SigningIn(r) /\ req[r].user = Acc!NewAccount(r)
    BY <1>3 DEF AccInv, RequestOK
  <2> QED
    BY <1>3, <2>1, NewAccountType DEF AccInv, AccTypeOK, Progress, Linking
<1>7. \A q \in Request : Linking(q)' => q # r /\ Linking(q) /\ req'[q] = req[q]
  BY <1>1, <1>3, <1>4 DEF Linking
<1>8. PairsAreTold'
  BY <1>2, <1>4, <1>7 DEF AccInv, PairsAreTold
<1>9. LinkedIsTold'
  <2> SUFFICES ASSUME NEW q \in Request, NEW i \in identities', Linking(q)', Acc!SubjectOf(q) = i.subject
               PROVE  \E o \in overlaps, c \in Acc!Claims :
                        /\ o.subject = i.subject /\ o.told = {c, req[q].claims}
                        /\ AccountOf(i.subject, c) = i.user
    BY <1>2, <1>4, <1>7 DEF LinkedIsTold, AccountOf
  <2>1. CASE i \in identities
    BY <1>7, <2>1 DEF AccInv, LinkedIsTold
  <2>2. CASE i = row
    <3>1. [subject |-> Acc!SubjectOf(r), told |-> {req[r].claims, req[q].claims}] \in overlaps
      BY <1>5, <1>6, <1>7, <2>2 DEF AccInv, PairsAreTold
    <3> QED
      BY <1>5, <1>6, <2>2, <3>1
  <2> QED
    BY <1>5, <2>1, <2>2
<1>10. PlaceholderIsExplained'
  <2> SUFFICES ASSUME NEW s \in Subject, Acc!Placeholder(s) \in DOMAIN users
               PROVE  \/ s \in cut \/ Acc!Placeholder(s) \in registered
                      \/ \E i \in identities' : i.subject = s
                      \/ \E q \in Request : Acc!SigningIn(q) /\ Acc!SubjectOf(q) = s /\ req'[q].pc = "link"
    BY <1>2, <1>4 DEF PlaceholderIsExplained
  <2>1. \A q \in Request \ {r} : req[q].pc = "link" => req'[q].pc = "link"
    BY <1>1
  <2> QED
    BY <1>5, <2>1 DEF AccInv, PlaceholderIsExplained
<1>11. \A i \in identities :
         i.subject = row.subject /\ i.user # row.user =>
           \E o \in overlaps : o.subject = i.subject /\ Acc!Cardinality(o.told) = 2
  <2> SUFFICES ASSUME NEW i \in identities, i.subject = row.subject, i.user # row.user
               PROVE  \E o \in overlaps : o.subject = i.subject /\ Acc!Cardinality(o.told) = 2
    OBVIOUS
  <2>1. PICK o \in overlaps, c \in Acc!Claims :
          /\ o.subject = i.subject /\ o.told = {c, req[r].claims}
          /\ AccountOf(i.subject, c) = i.user
    BY <1>5, <1>6 DEF AccInv, LinkedIsTold
  <2>2. c # req[r].claims
    BY <1>5, <1>6, <2>1
  <2>3. Acc!Cardinality({c, req[r].claims}) = 2
    BY <2>2, TwoOf, AccCardinality
  <2> QED
    BY <2>1, <2>3
<1>12. Acc!SameAccountEachTime'
  <2>1. ASSUME NEW i \in identities', NEW j \in identities', i.subject = j.subject, i.user # j.user
        PROVE  \E o \in overlaps' : o.subject = i.subject /\ Acc!Cardinality(o.told) = 2
    <3>1. CASE i \in identities /\ j \in identities
      BY <1>2, <2>1, <3>1 DEF AccInv, Acc!SameAccountEachTime
    <3>2. CASE i \in identities /\ j = row
      BY <1>2, <1>11, <2>1, <3>2
    <3>3. CASE i = row /\ j \in identities
      BY <1>2, <1>11, <2>1, <3>3
    <3> QED
      BY <1>5, <2>1, <3>1, <3>2, <3>3
  <2>2. ASSUME NEW q \in Request, req'[q].pc = "duplicate", Acc!SigningIn(q),
               ~Acc!Vouched(req'[q].claims)
        PROVE  \/ Acc!Placeholder(Acc!SubjectOf(q)) \in registered'
               \/ Acc!SubjectOf(q) \in cut' \/ \E o \in overlaps' : o.subject = Acc!SubjectOf(q)
    <3>1. req'[q] = req[q]
      BY <1>1, <1>3, <2>2
    <3> QED
      BY <1>2, <2>2, <3>1 DEF AccInv, Acc!SameAccountEachTime, Acc!SignInsOverlapped, Acc!At
  <2> QED
    BY <1>4, <2>1, <2>2 DEF Acc!SameAccountEachTime, Acc!SignInsOverlapped, Acc!At
<1> QED
  BY <1>1, <1>8, <1>9, <1>10, <1>12 DEF AccInv

LEMMA AccStepKeeps ==
    ASSUME AccInv, [Acc!Next]_(Acc!vars)
    PROVE  AccInv'
<1>1. CASE UNCHANGED Acc!vars
  <2> USE DEF AccInv, Acc!vars
  <2>1. AccTypeOK'
    BY <1>1 DEF AccTypeOK, AskOK
  <2>2. RequestOK'
    BY <1>1 DEF RequestOK, Acc!SigningIn, Acc!SubjectOf, Acc!NewAccount
  <2>3. PairsAreTold' /\ PlaceholderIsExplained'
    BY <1>1 DEF PairsAreTold, PlaceholderIsExplained, Linking, Acc!SigningIn, Acc!SubjectOf
  <2>4. LinkedIsTold'
    BY <1>1 DEF LinkedIsTold, Linking, AccountOf, Acc!SigningIn, Acc!SubjectOf
  <2>5. Acc!SameAccountEachTime'
    BY <1>1 DEF Acc!SameAccountEachTime, Acc!SignInsOverlapped, Acc!At, Acc!SigningIn, Acc!SubjectOf
  <2> QED
    BY <2>1, <2>2, <2>3, <2>4, <2>5
<1>2. CASE Acc!Next
  <2>1. PICK r \in Request :
           \/ Acc!Exchange(r) \/ Acc!FindIdentity(r) \/ Acc!FindByEmail(r) \/ Acc!AddUser(r)
           \/ Acc!AddIdentity(r) \/ Acc!Signup(r) \/ Acc!Login(r) \/ Acc!CreateApiKey(r)
           \/ Acc!Resolve(r) \/ Acc!LastUsed(r) \/ Acc!RevokeKey(r) \/ Acc!Crash(r)
    BY <1>2 DEF Acc!Next
  <2>2. AccTypeOK' /\ RequestOK' /\ UNCHANGED ask /\ \A q \in Request \ {r} : req'[q] = req[q]
    BY <2>1, AccTypeKeeps, RequestKeeps DEF AccInv
  <2>3. CASE Acc!FindIdentity(r) \/ Acc!AddUser(r) \/ Acc!AddIdentity(r)
    BY <2>3, FindIdentityKeeps, AddUserKeeps, AddIdentityKeeps
  <2>4. CASE \/ Acc!Exchange(r) \/ Acc!FindByEmail(r) \/ Acc!Signup(r) \/ Acc!Login(r)
             \/ Acc!CreateApiKey(r) \/ Acc!Resolve(r) \/ Acc!LastUsed(r) \/ Acc!RevokeKey(r)
             \/ Acc!Crash(r)
    <3>1. UNCHANGED <<users, registered, identities, overlaps>> /\ cut \subseteq cut'
      BY <2>4 DEF Acc!Exchange, Acc!FindByEmail, Acc!Signup, Acc!Login, Acc!CreateApiKey, Acc!Resolve,
         Acc!LastUsed, Acc!RevokeKey, Acc!Crash
    <3>2. /\ Linking(r)' => Linking(r) /\ req'[r].claims = req[r].claims
          /\ req'[r].pc # "duplicate"
      <4>1. CASE Acc!Exchange(r) \/ Acc!Signup(r) \/ Acc!Login(r) \/ Acc!CreateApiKey(r)
                 \/ Acc!RevokeKey(r) \/ Acc!Crash(r)
        BY <2>2, <4>1 DEF AccInv, AccTypeOK, Progress, Linking, Acc!SigningIn, Acc!Exchange, Acc!Signup,
           Acc!Login, Acc!CreateApiKey, Acc!RevokeKey, Acc!Crash, Acc!At, Acc!Goto, Acc!GotoWith
      <4>2. CASE Acc!FindByEmail(r)
        BY <2>2, <4>2 DEF AccInv, AccTypeOK, Progress, Linking, Acc!SigningIn, Acc!FindByEmail, Acc!At,
           Acc!Goto, Acc!GotoWith
      <4>3. CASE Acc!Resolve(r)
        <5>1. req'[r].pc \in {"refused", "touch"}
          BY <4>3 DEF AccInv, AccTypeOK, Progress, Acc!Resolve, Acc!At, Acc!Goto
        <5> QED
          BY <5>1 DEF Linking
      <4>4. CASE Acc!LastUsed(r)
        <5>1. Acc!Handler(r) \in {"mint", "revoke", "done"}
          BY <4>4 DEF AccInv, RequestOK, Acc!LastUsed, Acc!At, Acc!Handler
        <5>2. req'[r].pc \in {"mint", "revoke", "done"}
          BY <4>4, <5>1 DEF AccInv, AccTypeOK, Progress, Acc!LastUsed, Acc!Goto
        <5> QED
          BY <5>2 DEF Linking
      <4> QED
        BY <2>4, <4>1, <4>2, <4>3, <4>4
    <3>3. req[r].pc = "link" => Acc!SubjectOf(r) \in cut'
      BY <2>4 DEF Acc!Exchange, Acc!FindByEmail, Acc!Signup, Acc!Login, Acc!CreateApiKey, Acc!Resolve,
         Acc!LastUsed, Acc!RevokeKey, Acc!Crash, Acc!At
    <3> QED
      BY <2>2, <3>1, <3>2, <3>3, QuietKeeps
  <2> QED
    BY <2>1, <2>3, <2>4
<1> QED
  BY <1>1, <1>2

\* The sign-ins, signups, logins and keyed requests of MCServices begin as they should.
LEMMA AccInitHolds ==
    ASSUME MCInit
    PROVE  AccInv
<1>1. PICK asks \in SUBSET Asks : Acc!InitIn(asks, TheAccount, TheKey)
  <2>1. <<SignIn(another), SignupAs(here), Login>> \in Asks
    BY DEF Asks
  <2>2. Of("accounts", Asks) \subseteq Asks
    BY <2>1, OfIsIn
  <2> QED
    BY <2>2 DEF MCInit
<1>2. ask \in Asks
  BY <1>1 DEF Acc!InitIn
<1>3. \A r \in Request : AskOK(r)
  <2>1. \A r \in 1 .. 3 : \/ ask[r].kind = "signin" /\ ask[r].subject \in {someone, another}
                          \/ /\ ask[r].kind \in {"signup", "login"}
                             /\ ask[r].email \in {here, there, Acc!Placeholder(someone)}
                          \/ ask[r].kind \in {"revoke_key", "me", "create_key"}
    <3>1. \A x : /\ SignIn(x).kind = "signin" /\ SignIn(x).subject = x
                 /\ Keyed(x).kind = x
      BY DEF SignIn, Keyed
    <3>2. /\ \A x : SignupAs(x).kind = "signup" /\ SignupAs(x).email = x
          /\ Login.kind = "login" /\ Login.email = there
      BY DEF SignupAs, Login
    <3> DEFINE First == {SignIn(someone), SignIn(another), SignupAs(here),
                         SignupAs(Acc!Placeholder(someone)), Login, Keyed("revoke_key"),
                         Keyed("me"), Keyed("create_key")}
    <3>3. ask \in First \X First \X First
      BY <1>2 DEF Asks
    <3>4. \A r \in 1 .. 3 : ask[r] \in First
      BY <3>3
    <3> QED
      BY <3>1, <3>2, <3>4
  <2> QED
    BY <2>1, AccountAssumption DEF AskOK, Acc!Account
<1>4. /\ DOMAIN users = {there} /\ registered = {there} /\ identities = {} /\ overlaps = {} /\ cut = {}
      /\ req = [r \in Request |-> Acc!Idle] /\ keys = TheKey
  BY <1>1 DEF Acc!InitIn, TheAccount
<1>5. there \in Acc!Account /\ TheKey \in Seq(KeyRow)
  BY AccountAssumption DEF Acc!Account, TheKey, KeyRow
<1>6. Acc!Idle \in Progress
  BY DEF Acc!Idle, Acc!NoClaims, Acc!Claims, Progress, AccWhere
<1>7. \A r \in Request : req[r].pc = "begin"
  BY <1>4 DEF Acc!Idle
<1>8. AccTypeOK
  BY <1>3, <1>4, <1>5, <1>6 DEF AccTypeOK
<1>9. RequestOK /\ PairsAreTold /\ LinkedIsTold
  BY <1>4, <1>7 DEF RequestOK, PairsAreTold, LinkedIsTold, Linking
<1>10. PlaceholderIsExplained
  BY <1>4 DEF PlaceholderIsExplained
<1>11. Acc!SameAccountEachTime
  BY <1>4, <1>7 DEF Acc!SameAccountEachTime, Acc!At
<1> QED
  BY <1>8, <1>9, <1>10, <1>11 DEF AccInv

\* A step of the services is a step of the accounts or leaves them as they are.
LEMMA AccOfStep ==
    ASSUME [MCNext]_allVars
    PROVE  [Acc!Next]_(Acc!vars)
BY DEF MCNext, AccountsStep, McpStep, DocumentsStep, ServerStep, PageStep, ModelsStep, SelectionStep,
       DatasetsStep, FeedbackStep, allVars, accountVars, Acc!vars

\* find_or_create_user, for any requests, subjects and emails: a provider's user
\* comes back to the same account, and is refused the one of its own name only
\* for what the property names, somebody's sign-up under that name among it.
THEOREM SameAccountHolds == MCSpec => []SameAccountEachTime
<1>1. MCInit => AccInv
  BY AccInitHolds
<1>2. AccInv /\ [MCNext]_allVars => AccInv'
  BY AccOfStep, AccStepKeeps
<1>3. AccInv => SameAccountEachTime
  BY DEF AccInv, SameAccountEachTime
<1> QED
  BY <1>1, <1>2, <1>3, PTL DEF MCSpec

\* A step of the accounts brings no revoked key back to life.
LEMMA RevokedStays ==
    ASSUME AccInv, [Acc!Next]_(Acc!vars)
    PROVE  \A k \in DOMAIN keys : keys[k].revoked => keys'[k].revoked
<1> SUFFICES ASSUME NEW k \in DOMAIN keys, keys[k].revoked
             PROVE  keys'[k].revoked
  OBVIOUS
<1>1. keys \in Seq(KeyRow) /\ keys[k] \in KeyRow /\ k \in 1 .. Len(keys)
  BY DEF AccInv, AccTypeOK
<1>2. CASE UNCHANGED keys
  BY <1>2
<1>3. ASSUME NEW r \in Request, Acc!CreateApiKey(r)
      PROVE  keys'[k].revoked
  BY <1>1, <1>3 DEF Acc!CreateApiKey
<1>4. ASSUME NEW r \in Request, Acc!LastUsed(r)
      PROVE  keys'[k].revoked
  BY <1>1, <1>4 DEF Acc!LastUsed, Acc!Touched, KeyRow
<1>5. ASSUME NEW r \in Request, Acc!RevokeKey(r)
      PROVE  keys'[k].revoked
  BY <1>1, <1>5 DEF Acc!RevokeKey, KeyRow
<1> QED
  BY <1>2, <1>3, <1>4, <1>5 DEF Acc!Next, Acc!vars, Acc!Exchange, Acc!FindIdentity, Acc!FindByEmail,
     Acc!AddUser, Acc!AddIdentity, Acc!Signup, Acc!Login, Acc!Resolve, Acc!Crash

\* revoke_key against resolve_api_key, for any requests: a revoked key stays out.
THEOREM RevocationHolds == MCSpec => RevokedStaysOut
<1>1. MCInit => AccInv
  BY AccInitHolds
<1>2. AccInv /\ [MCNext]_allVars => AccInv'
  BY AccOfStep, AccStepKeeps
<1>3. AccInv /\ [MCNext]_allVars => [\A k \in DOMAIN keys : keys[k].revoked => keys'[k].revoked]_(Acc!vars)
  BY AccOfStep, RevokedStays
<1> QED
  BY <1>1, <1>2, <1>3, PTL DEF MCSpec, RevokedStaysOut, Acc!RevokedStaysOut

-----------------------------------------------------------------------------
(* The chat page (ChatPage).                                                *)

PagePlaces == {"none", "uploading", "running", "ended", "listing", "done", "broken", "aborted"}
PageMessage == [role : {"user", "assistant"}, turn : Turn, pending : BOOLEAN]
PageConversation == Turn \cup {None, Earlier, OtherTab}
PageTurn == [at : PagePlaces, advanced : BOOLEAN, history : Seq(PageMessage), asks : PageConversation,
             found : PageConversation, chat : Nat]

PageTypeOK ==
    /\ messages \in Seq(PageMessage) /\ streaming \in BOOLEAN
    /\ conversationRef \in PageConversation /\ recent \in PageConversation
    /\ turn \in [Turn -> PageTurn] /\ recorded \in [Turn -> PageConversation]
    /\ gateway \subseteq Turn /\ chat \in Nat /\ crossed \in BOOLEAN

At(t) == turn[t].at
ChatOf(t) == turn[t].chat

\* A turn is of a chat that is, or was, on the page, and recorded once at most.
TurnsAreBegun ==
    \A t \in Turn :
        /\ At(t) # "none" => ChatOf(t) <= chat
        /\ At(t) \in {"none", "uploading"} => recorded[t] = None /\ t \notin gateway
        /\ t \in gateway => recorded[t] = None
        /\ hasty = {} /\ t \in Page!Unfinished => ChatOf(t) = chat

OneUnfinished == ~crossed => \A t, u \in Page!Unfinished : t = u

\* What waits for an answer is the placeholder of a turn that runs or was stopped.
PlaceholdersWait(list) ==
    \A i \in DOMAIN list : list[i].pending =>
        /\ list[i].role = "assistant"
        /\ At(list[i].turn) \in {"running", "aborted"}

\* Stop is shown for the turn that runs, and reaches it.
StopIsShown ==
    ~crossed /\ "broken" \notin upsets =>
        /\ streaming <=> Page!Running # {}
        /\ \A t \in Page!Running :
             /\ abortRef = t
             /\ ChatOf(t) = chat => \E i \in DOMAIN messages : messages[i] = Page!Assistant(t)
        /\ PlaceholdersWait(messages)
        /\ \A t \in Turn : At(t) = "uploading" => PlaceholdersWait(turn[t].history)

\* Without another tab, its conversation is nowhere.
TabIsElsewhere ==
    "elsewhere" \notin upsets =>
        /\ OtherTab \notin {conversationRef, recent}
        /\ \A t \in Turn : OtherTab \notin {recorded[t], turn[t].asks, turn[t].found}

\* Until a turn goes unrecorded, nothing of the page has to do with a conversation
\* that is older than it.
EarlierIsOlder ==
    "unrecorded" \notin upsets =>
        /\ conversationRef # Earlier
        /\ \A t \in Turn :
             /\ Earlier \notin {recorded[t], turn[t].asks, turn[t].found}
             /\ t \in Page!Running /\ t \notin gateway => recorded[t] # None
             /\ At(t) = "ended" => recorded[t] # None
             /\ recorded[t] # None => recent # Earlier

\* The conversation c was opened by a turn of this chat.
Opened(c, n) == c \in Turn /\ recorded[c] = c /\ ChatOf(c) = n

\* A conversation the page knows, asks for or was given is of the same chat.
ChatsAreApart ==
    hasty = {} /\ upsets \cap {"late", "unrecorded", "elsewhere"} = {} =>
        /\ conversationRef # None => Opened(conversationRef, chat)
        /\ \A t \in Turn :
             /\ recorded[t] # None => Opened(recorded[t], ChatOf(t))
             /\ turn[t].asks # None => Opened(turn[t].asks, ChatOf(t))
             /\ turn[t].found # None => Opened(turn[t].found, ChatOf(t))
             /\ t \in Page!Running /\ t \notin gateway => recorded[t] # None
             /\ At(t) = "ended" => recorded[t] # None
             /\ recorded[t] # None /\ ChatOf(t) = chat => recent # None /\ Opened(recent, chat)

\* The page can have learnt of the conversation the turn was recorded in.
Seen(t) == recorded[t] # None /\ ~Page!OpensUnseen(t)

\* The conversation of a chat is the one its turns were recorded in.
ChatsAreWhole ==
    ~crossed /\ hasty = {} /\ upsets \cap {"stopped", "error", "broken", "elsewhere"} = {} =>
        /\ gateway \subseteq Page!Running
        /\ \A t \in Turn :
             /\ t \in Page!Running => turn[t].asks = conversationRef
             /\ Seen(t) /\ ChatOf(t) = chat /\ t \notin Page!Unfinished => recorded[t] = conversationRef
             /\ recorded[t] # None /\ t \in Page!Running =>
                  recent = recorded[t] /\ (turn[t].asks # None => recorded[t] = turn[t].asks)
             /\ At(t) \in {"ended", "listing"} => conversationRef = None
             /\ recorded[t] # None /\ At(t) = "ended" => recent = recorded[t]
             /\ recorded[t] # None /\ At(t) = "listing" => turn[t].found = recorded[t]
        /\ \A t, u \in Turn : Seen(t) /\ Seen(u) /\ ChatOf(t) = ChatOf(u) => recorded[t] = recorded[u]

PageInv ==
    /\ PageTypeOK
    /\ TurnsAreBegun
    /\ OneUnfinished
    /\ StopIsShown
    /\ TabIsElsewhere
    /\ EarlierIsOlder
    /\ ChatsAreApart
    /\ ChatsAreWhole

LEMMA PageInitHolds ==
    ASSUME Page!Init
    PROVE  PageInv
<1>1. \A t \in Turn : /\ turn[t].at = "none" /\ turn[t].history = <<>> /\ turn[t].asks = None
                      /\ turn[t].found = None /\ recorded[t] = None
  BY DEF Page!Init, Page!NoTurn
<1>2. Page!Running = {} /\ Page!Unfinished = {} /\ Page!Recorded = {}
  BY <1>1 DEF Page!Running, Page!Unfinished, Page!Recorded, Page!In
<1>3. PageTypeOK
  <2>1. Page!NoTurn \in PageTurn
    BY DEF Page!NoTurn, PageTurn, PagePlaces, PageConversation
  <2>2. /\ turn = [t \in Turn |-> Page!NoTurn] /\ recorded = [t \in Turn |-> None]
        /\ None \in PageConversation /\ Earlier \in PageConversation
    BY DEF Page!Init, PageConversation
  <2>3. turn \in [Turn -> PageTurn] /\ recorded \in [Turn -> PageConversation]
    BY <2>1, <2>2
  <2>4. messages \in Seq(PageMessage)
    BY DEF Page!Init
  <2> QED
    BY <2>2, <2>3, <2>4 DEF Page!Init, PageTypeOK
<1>4. gateway = {} /\ messages = <<>> /\ streaming = FALSE
  BY DEF Page!Init
<1>0. gateway = {} /\ conversationRef = None /\ recent \in {None, Earlier}
  BY DEF Page!Init
<1>5. TurnsAreBegun /\ OneUnfinished
  BY <1>1, <1>2, <1>4 DEF TurnsAreBegun, OneUnfinished, At
<1>6. StopIsShown
  BY <1>1, <1>2, <1>4 DEF StopIsShown, PlaceholdersWait, At
<1>7. TabIsElsewhere
  BY <1>1, <1>0, PageAssumption DEF TabIsElsewhere
<1>8. ChatsAreApart
  BY <1>1, <1>2, <1>0 DEF ChatsAreApart, At
<1>9. ChatsAreWhole
  BY <1>1, <1>2, <1>0 DEF ChatsAreWhole, Seen, At
<1>10. EarlierIsOlder
  BY <1>1, <1>2, <1>0, PageAssumption DEF EarlierIsOlder, At
<1> QED
  BY <1>3, <1>5, <1>6, <1>7, <1>8, <1>9, <1>10 DEF PageInv

\* A turn goes to another place, the others stay.
PageMoves(t, place) ==
    /\ turn' \in [Turn -> PageTurn]
    /\ turn'[t].at = place /\ turn'[t].asks = turn[t].asks /\ turn'[t].chat = turn[t].chat
    /\ turn'[t].advanced = turn[t].advanced
    /\ \A u \in Turn : u # t => turn'[u] = turn[u]

LEMMA PageGotoIs ==
    ASSUME PageTypeOK, NEW t \in Turn, NEW place \in PagePlaces, Page!Goto(t, place)
    PROVE  PageMoves(t, place) /\ turn'[t].found = None
<1>1. turn[t] \in PageTurn /\ None \in PageConversation
  BY DEF PageTypeOK, PageConversation
<1> DEFINE moved == [turn[t] EXCEPT !.at = place, !.found = None]
<1>2. /\ moved \in PageTurn /\ moved.at = place /\ moved.asks = turn[t].asks
      /\ moved.chat = turn[t].chat /\ moved.advanced = turn[t].advanced /\ moved.found = None
  BY <1>1 DEF PageTurn
<1>3. turn' = [turn EXCEPT ![t] = moved]
  BY DEF Page!Goto
<1> HIDE DEF moved
<1>4. turn' \in [Turn -> PageTurn] /\ turn'[t] = moved /\ \A u \in Turn : u # t => turn'[u] = turn[u]
  BY <1>2, <1>3 DEF PageTypeOK
<1> QED
  BY <1>2, <1>4 DEF PageMoves

\* Once an answer is settled, no placeholder of its turn waits.
LEMMA SettledIs ==
    ASSUME PageTypeOK, NEW t \in Turn
    PROVE  /\ Page!Settled(t) \in Seq(PageMessage) /\ DOMAIN Page!Settled(t) = DOMAIN messages
           /\ \A i \in DOMAIN messages : Page!Settled(t)[i].pending =>
                /\ Page!Settled(t)[i] = messages[i]
                /\ messages[i].role = "assistant" => messages[i].turn # t
<1>1. messages \in Seq(PageMessage) /\ \A i \in DOMAIN messages : messages[i] \in PageMessage
  BY DEF PageTypeOK
<1>2. \A m \in PageMessage : [m EXCEPT !.pending = FALSE] \in PageMessage /\ [m EXCEPT !.pending = FALSE].pending = FALSE
  BY DEF PageMessage
<1>3. \A m \in PageMessage : m.pending /\ m.role = "assistant" /\ m.turn = t => m = Page!Assistant(t)
  BY DEF PageMessage, Page!Assistant
<1>4. \A i \in DOMAIN messages :
        Page!Settled(t)[i] = IF messages[i] = Page!Assistant(t) THEN [messages[i] EXCEPT !.pending = FALSE]
                             ELSE messages[i]
  BY DEF Page!Settled
<1>5. \A i \in DOMAIN messages : Page!Settled(t)[i] \in PageMessage
  BY <1>1, <1>2, <1>4
<1>6. DOMAIN Page!Settled(t) = DOMAIN messages /\ DOMAIN messages = 1 .. Len(messages) /\ Len(messages) \in Nat
  BY <1>1 DEF Page!Settled
<1>7. Page!Settled(t) \in Seq(PageMessage)
  BY <1>5, <1>6 DEF Page!Settled
<1>8. ASSUME NEW i \in DOMAIN messages, Page!Settled(t)[i].pending
      PROVE  messages[i] # Page!Assistant(t)
  BY <1>1, <1>2, <1>4, <1>8
<1> QED
  BY <1>1, <1>3, <1>4, <1>6, <1>7, <1>8

\* A turn that is unfinished moves on, or ends.
LEMMA MovedOn ==
    ASSUME PageTypeOK, TurnsAreBegun, OneUnfinished, NEW t \in Page!Unfinished,
           NEW place \in PagePlaces \ {"none", "uploading"}, PageMoves(t, place),
           recorded' = recorded, gateway' = gateway, chat' = chat, hasty' = hasty, crossed' = crossed
    PROVE  /\ TurnsAreBegun' /\ OneUnfinished'
           /\ \A u \in Turn \ {t} : /\ u \in Page!Running' <=> u \in Page!Running
                                    /\ u \in Page!Unfinished' <=> u \in Page!Unfinished
           /\ t \in Page!Running' <=> place = "running"
           /\ t \in Page!Unfinished' => t \in Page!Unfinished
           /\ Page!Unfinished' \subseteq Page!Unfinished
<1>1. t \in Turn /\ At(t) # "none"
  BY DEF Page!Unfinished, Page!In, At
<1>2. \A u \in Turn \ {t} : u \in Page!Running' <=> u \in Page!Running
  BY <1>1 DEF PageMoves, Page!Running, Page!In
<1>3. \A u \in Turn \ {t} : u \in Page!Unfinished' <=> u \in Page!Unfinished
  BY <1>1 DEF PageMoves, Page!Unfinished, Page!In
<1>4. t \in Page!Running' <=> place = "running"
  BY <1>1 DEF PageMoves, Page!Running, Page!In
<1>5. Page!Unfinished' \subseteq Page!Unfinished
  BY <1>3 DEF Page!Unfinished
<1>6. OneUnfinished'
  BY <1>5 DEF OneUnfinished
<1>7. \A u \in Turn : ChatOf(u)' = ChatOf(u)
  BY <1>1 DEF PageMoves, ChatOf
<1>8. \A u \in Turn \ {t} : At(u)' = At(u)
  BY <1>1 DEF PageMoves, At
<1>9. At(t)' = place
  BY DEF PageMoves, At
<1>10. TurnsAreBegun'
  BY <1>1, <1>5, <1>7, <1>8, <1>9 DEF TurnsAreBegun
<1> QED
  BY <1>2, <1>3, <1>4, <1>5, <1>6, <1>10

LEMMA PageTypeKeeps ==
    ASSUME PageTypeOK, messages' \in Seq(PageMessage), streaming' \in BOOLEAN,
           conversationRef' \in PageConversation, recent' \in PageConversation,
           turn' \in [Turn -> PageTurn], recorded' = recorded, gateway' = gateway, chat' = chat,
           crossed' = crossed
    PROVE  PageTypeOK'
BY DEF PageTypeOK

\* A turn that runs ends, and its answer is settled.
LEMMA SettledStops ==
    ASSUME PageTypeOK, OneUnfinished, StopIsShown, NEW t \in Page!Running,
           NEW place \in PagePlaces \ {"running", "uploading"}, PageMoves(t, place),
           messages' = Page!Settled(t), streaming' = FALSE,
           crossed' = crossed, upsets \subseteq upsets'
    PROVE  StopIsShown'
<1> SUFFICES ASSUME ~crossed, "broken" \notin upsets
             PROVE  /\ ~Page!Running' # {}
                    /\ PlaceholdersWait(messages)'
                    /\ \A u \in Turn : At(u)' = "uploading" => PlaceholdersWait(turn[u].history)'
  BY DEF StopIsShown
<1>1. t \in Turn /\ Page!Running \subseteq Page!Unfinished
  BY DEF Page!Running, Page!Unfinished, Page!In
<1>2. \A u \in Page!Running : u = t
  BY <1>1 DEF OneUnfinished
<1>3. Page!Running' = {}
  BY <1>1, <1>2 DEF PageMoves, Page!Running, Page!In
<1>4. \A u \in Turn \ {t} : At(u)' = At(u)
  BY <1>1 DEF PageMoves, At
<1>5. PlaceholdersWait(messages)'
  <2>1. \A i \in DOMAIN messages : messages[i].turn \in Turn
    <3>1. \A i \in DOMAIN messages : messages[i] \in PageMessage
      BY DEF PageTypeOK
    <3> QED
      BY <3>1 DEF PageMessage
  <2>2. PlaceholdersWait(messages)
    BY DEF StopIsShown
  <2> QED
    BY <1>1, <1>4, <2>1, <2>2, SettledIs DEF PlaceholdersWait
<1>6. \A u \in Turn : At(u)' # "uploading"
  <2>1. \A u \in Turn : At(u) = "uploading" => u \in Page!Unfinished
    BY DEF Page!Unfinished, Page!In, At
  <2>2. \A u \in Turn : At(u) # "uploading"
    BY <1>1, <2>1 DEF OneUnfinished, Page!Running, Page!In, At
  <2> QED
    BY <1>4, <2>2 DEF PageMoves, At
<1> QED
  BY <1>3, <1>5, <1>6

\* What only a turn's own end leaves as it is.
PageSame == recorded' = recorded /\ gateway' = gateway /\ recent' = recent /\ chat' = chat
            /\ hasty' = hasty /\ crossed' = crossed /\ upsets \subseteq upsets'

\* What a turn that moves on may do to the page's conversation.
PageFinds(t) ==
    /\ conversationRef' \in {conversationRef, recorded[t], turn[t].found}
    /\ turn'[t].found # None => At(t) = "ended" /\ turn'[t].found = recent

LEMMA EndedApart ==
    ASSUME TurnsAreBegun, ChatsAreApart, NEW t \in Page!Unfinished,
           NEW place \in PagePlaces \ {"none", "uploading", "running"}, PageMoves(t, place),
           PageSame, PageFinds(t), place = "ended" => t \in Page!Running /\ t \notin gateway
    PROVE  ChatsAreApart'
<1> SUFFICES ASSUME hasty = {}, upsets \cap {"late", "unrecorded", "elsewhere"} = {}
             PROVE  ChatsAreApart'
  BY DEF ChatsAreApart, PageSame
<1>1. t \in Turn /\ At(t) # "none"
  BY DEF Page!Unfinished, Page!In, At
<1>2. \A u \in Turn : ChatOf(u)' = ChatOf(u) /\ turn'[u].asks = turn[u].asks
  BY <1>1 DEF PageMoves, ChatOf
<1>3. \A u \in Turn \ {t} : At(u)' = At(u) /\ turn'[u].found = turn[u].found
  BY <1>1 DEF PageMoves, At
<1>4. \A u \in Turn : u \in Page!Running' => u \in Page!Running
  BY <1>1 DEF PageMoves, Page!Running, Page!In
<1>5. \A c, n : Opened(c, n) => Opened(c, n)'
  BY <1>2 DEF Opened, PageSame
<1>6. /\ conversationRef # None => Opened(conversationRef, chat)
      /\ \A u \in Turn :
           /\ recorded[u] # None => Opened(recorded[u], ChatOf(u))
           /\ turn[u].asks # None => Opened(turn[u].asks, ChatOf(u))
           /\ turn[u].found # None => Opened(turn[u].found, ChatOf(u))
           /\ u \in Page!Running /\ u \notin gateway => recorded[u] # None
           /\ At(u) = "ended" => recorded[u] # None
           /\ recorded[u] # None /\ ChatOf(u) = chat => recent # None /\ Opened(recent, chat)
  BY DEF ChatsAreApart
<1>7. ChatOf(t) = chat
  BY <1>1 DEF TurnsAreBegun
<1>8. conversationRef' # None => Opened(conversationRef', chat)
  BY <1>1, <1>6, <1>7 DEF PageFinds
<1>9. turn'[t].found # None => Opened(turn'[t].found, ChatOf(t))
  BY <1>1, <1>6, <1>7 DEF PageFinds
<1>10. At(t)' = place
  BY DEF PageMoves, At
<1>11. conversationRef' # None => Opened(conversationRef, chat)'
  BY <1>5, <1>8 DEF PageSame
<1>12. \A u \in Turn : /\ recorded'[u] # None => Opened(recorded[u], ChatOf(u))'
                       /\ turn'[u].asks # None => Opened(turn[u].asks, ChatOf(u))'
                       /\ turn'[u].found # None => Opened(turn[u].found, ChatOf(u))'
  BY <1>1, <1>2, <1>3, <1>5, <1>6, <1>9 DEF PageSame
<1>13. \A u \in Turn : /\ u \in Page!Running' /\ u \notin gateway' => recorded'[u] # None
                       /\ At(u)' = "ended" => recorded'[u] # None
                       /\ recorded'[u] # None /\ ChatOf(u)' = chat' => recent' # None /\ Opened(recent, chat)'
  BY <1>1, <1>2, <1>3, <1>4, <1>5, <1>6, <1>10 DEF PageSame
<1> QED
  BY <1>11, <1>12, <1>13 DEF ChatsAreApart

LEMMA EndedTab ==
    ASSUME TabIsElsewhere, NEW t \in Turn, NEW place \in PagePlaces, PageMoves(t, place),
           PageSame, PageFinds(t)
    PROVE  TabIsElsewhere'
<1> SUFFICES ASSUME "elsewhere" \notin upsets
             PROVE  TabIsElsewhere'
  BY DEF TabIsElsewhere, PageSame
<1>1. OtherTab \notin {conversationRef, recent} /\ \A u \in Turn : OtherTab \notin {recorded[u], turn[u].asks, turn[u].found}
  BY DEF TabIsElsewhere
<1>2. OtherTab # None
  BY PageAssumption
<1>3. OtherTab # turn'[t].found /\ OtherTab # conversationRef'
  BY <1>1, <1>2 DEF PageFinds
<1>4. \A u \in Turn : turn'[u].asks = turn[u].asks /\ (u # t => turn'[u].found = turn[u].found)
  BY DEF PageMoves
<1> QED
  BY <1>1, <1>3, <1>4 DEF TabIsElsewhere, PageSame

LEMMA EndedEarlier ==
    ASSUME EarlierIsOlder, NEW t \in Turn, NEW place \in PagePlaces \ {"running"}, PageMoves(t, place),
           PageSame, PageFinds(t), place = "ended" => t \in Page!Running /\ t \notin gateway
    PROVE  EarlierIsOlder'
<1> SUFFICES ASSUME "unrecorded" \notin upsets
             PROVE  EarlierIsOlder'
  BY DEF EarlierIsOlder, PageSame
<1>1. /\ conversationRef # Earlier
      /\ \A u \in Turn :
           /\ Earlier \notin {recorded[u], turn[u].asks, turn[u].found}
           /\ u \in Page!Running /\ u \notin gateway => recorded[u] # None
           /\ At(u) = "ended" => recorded[u] # None
           /\ recorded[u] # None => recent # Earlier
  BY DEF EarlierIsOlder
<1>2. Earlier # None
  BY PageAssumption
<1>3. Earlier # turn'[t].found /\ Earlier # conversationRef'
  BY <1>1, <1>2 DEF PageFinds
<1>4. \A u \in Turn : turn'[u].asks = turn[u].asks /\ (u # t => turn'[u] = turn[u] /\ At(u)' = At(u))
  BY DEF PageMoves, At
<1>5. At(t)' = place /\ \A u \in Turn : u \in Page!Running' => u \in Page!Running
  BY DEF PageMoves, Page!Running, Page!In, At
<1> QED
  BY <1>1, <1>3, <1>4, <1>5 DEF EarlierIsOlder, PageSame

\* What the steps of a turn that is under way have in common.
LEMMA PageOnwardKeeps ==
    ASSUME PageInv, NEW t \in Page!Unfinished, NEW place \in PagePlaces \ {"none", "uploading", "running"},
           PageMoves(t, place), PageSame, PageFinds(t), messages' \in Seq(PageMessage),
           streaming' \in BOOLEAN, place = "ended" => t \in Page!Running /\ t \notin gateway,
           StopIsShown', ChatsAreWhole'
    PROVE  PageInv'
<1>1. t \in Turn
  BY DEF Page!Unfinished
<1>2. conversationRef' \in PageConversation
  <2>1. turn[t] \in PageTurn
    BY <1>1 DEF PageInv, PageTypeOK
  <2>2. turn[t].found \in PageConversation
    BY <2>1 DEF PageTurn
  <2> QED
    BY <1>1, <2>2 DEF PageInv, PageTypeOK, PageFinds
<1>3. recent' \in PageConversation
  BY DEF PageInv, PageTypeOK, PageSame
<1>4. PageTypeOK'
  BY <1>2, <1>3, PageTypeKeeps DEF PageInv, PageMoves, PageSame
<1>5. TurnsAreBegun' /\ OneUnfinished'
  BY <1>1, MovedOn DEF PageInv, PageSame
<1>6. TabIsElsewhere'
  BY <1>1, EndedTab DEF PageInv
<1>7. ChatsAreApart'
  BY <1>1, EndedApart DEF PageInv
<1>8. EarlierIsOlder'
  BY <1>1, EndedEarlier DEF PageInv
<1> QED
  BY <1>4, <1>5, <1>6, <1>7, <1>8 DEF PageInv

\* The end of a turn that runs settles its answer.
LEMMA PageEndKeeps ==
    ASSUME PageInv, NEW t \in Page!Running, NEW place \in PagePlaces \ {"none", "uploading", "running"},
           PageMoves(t, place), PageSame, PageFinds(t), messages' = Page!Settled(t), streaming' = FALSE,
           place = "ended" => t \notin gateway,
           ChatsAreWhole'
    PROVE  PageInv'
<1>1. t \in Turn /\ t \in Page!Unfinished
  BY DEF Page!Running, Page!Unfinished, Page!In
<1>2. messages' \in Seq(PageMessage)
  BY <1>1, SettledIs DEF PageInv
<1>3. StopIsShown'
  BY SettledStops DEF PageInv, PageSame
<1> QED
  BY <1>1, <1>2, <1>3, PageOnwardKeeps

\* What is known of the turns that were recorded stays as it was.
LEMMA MovedSeen ==
    ASSUME NEW t \in Turn, NEW place, PageMoves(t, place), PageSame
    PROVE  \A u \in Turn : Seen(u)' <=> Seen(u)
<1>1. \A u \in Turn : turn'[u].asks = turn[u].asks /\ turn'[u].advanced = turn[u].advanced
  BY DEF PageMoves
<1> QED
  BY <1>1 DEF Seen, Page!OpensUnseen, PageSame

\* A running turn that was answered ends: its chat has the conversation it was recorded in.
LEMMA AnsweredWhole ==
    ASSUME PageInv, NEW t \in Page!Running, t \notin gateway,
           NEW place \in {"done", "ended"}, PageMoves(t, place), PageSame,
           conversationRef' = conversationRef,
           place = "ended" => conversationRef = None,
           place = "done" => turn[t].advanced \/ conversationRef # None
    PROVE  ChatsAreWhole'
<1> SUFFICES ASSUME ~crossed, hasty = {}, upsets \cap {"stopped", "error", "broken", "elsewhere"} = {}
             PROVE  ChatsAreWhole'
  BY DEF ChatsAreWhole, PageSame
<1>1. t \in Turn /\ t \in Page!Unfinished /\ Page!Running \subseteq Page!Unfinished
  BY DEF Page!Running, Page!Unfinished, Page!In
<1>2. \A u \in Page!Unfinished : u = t
  BY <1>1 DEF PageInv, OneUnfinished
<1>3. \A u \in Turn : ChatOf(u)' = ChatOf(u) /\ turn'[u].asks = turn[u].asks /\ (Seen(u)' <=> Seen(u))
  BY <1>1, MovedSeen DEF PageMoves, ChatOf
<1>5. Page!Running' = {} /\ (place = "done" => Page!Unfinished' = {}) /\ Page!Unfinished' \subseteq {t}
  BY <1>1, <1>2 DEF PageMoves, Page!Running, Page!Unfinished, Page!In
<1>6. gateway' = {}
  BY <1>1, <1>2 DEF PageInv, ChatsAreWhole, PageSame
<1>7. \A u, v \in Turn : Seen(u)' /\ Seen(v)' /\ ChatOf(u)' = ChatOf(v)' => recorded'[u] = recorded'[v]
  BY <1>3 DEF PageInv, ChatsAreWhole, PageSame
<1>8. \A u \in Turn : At(u)' \in {"ended", "listing"} => u = t /\ At(u)' = "ended" /\ place = "ended"
  BY <1>1, <1>2 DEF PageMoves, At, Page!Unfinished, Page!In
<1>9. \A u \in Turn : Seen(u) /\ ChatOf(u) = chat /\ u # t => recorded[u] = conversationRef
  BY <1>2 DEF PageInv, ChatsAreWhole
\* It asked for the page's conversation, unless it is one that opens its own unseen.
<1>10. place = "done" /\ Seen(t) => recorded[t] = conversationRef
  BY <1>1 DEF PageInv, ChatsAreWhole, Seen, Page!OpensUnseen
<1>11. \A u \in Turn : Seen(u)' /\ ChatOf(u)' = chat' /\ u \notin Page!Unfinished' => recorded'[u] = conversationRef'
  <2>1. CASE place = "done"
    BY <2>1, <1>3, <1>9, <1>10 DEF PageSame
  <2>2. CASE place = "ended"
    <3>1. t \in Page!Unfinished'
      BY <1>1, <2>2 DEF PageMoves, Page!Unfinished, Page!In
    <3> QED
      BY <2>2, <3>1, <1>3, <1>9 DEF PageSame
  <2> QED
    BY <2>1, <2>2
<1>12. recorded[t] # None => recent = recorded[t]
  BY <1>1 DEF PageInv, ChatsAreWhole
<1> QED
  BY <1>3, <1>5, <1>6, <1>7, <1>8, <1>11, <1>12 DEF ChatsAreWhole, PageSame

LEMMA AdvancedEndsKeeps ==
    ASSUME PageInv, NEW t \in Turn, Page!AdvancedEnds(t)
    PROVE  PageInv'
<1>1. t \in Page!Running /\ t \notin gateway
  BY DEF Page!AdvancedEnds, Page!Answered
<1>2. PageMoves(t, "done") /\ turn'[t].found = None
  BY PageGotoIs DEF Page!AdvancedEnds, PageInv, PagePlaces
<1>3. PageSame /\ messages' = Page!Settled(t) /\ streaming' = FALSE
      /\ conversationRef' = conversationRef /\ turn[t].advanced
  BY DEF Page!AdvancedEnds, Page!Finally, PageSame
<1>4. PageFinds(t)
  BY <1>2, <1>3 DEF PageFinds
<1>5. ChatsAreWhole'
  BY <1>1, <1>2, <1>3, AnsweredWhole
<1> QED
  BY <1>1, <1>2, <1>3, <1>4, <1>5, PageEndKeeps DEF PagePlaces

LEMMA AdvancedFailsKeeps ==
    ASSUME PageInv, NEW t \in Turn, Page!AdvancedFails(t)
    PROVE  PageInv'
<1>1. PageMoves(t, "done") /\ turn'[t].found = None
  BY PageGotoIs DEF Page!AdvancedFails, PageInv, PagePlaces
<1>2. t \in Page!Running /\ PageSame /\ messages' = Page!Settled(t) /\ streaming' = FALSE
      /\ conversationRef' = conversationRef /\ "error" \in upsets'
  BY DEF Page!AdvancedFails, Page!Finally, PageSame
<1>3. PageFinds(t)
  BY <1>1, <1>2 DEF PageFinds
<1>4. ChatsAreWhole'
  BY <1>2 DEF ChatsAreWhole
<1> QED
  BY <1>1, <1>2, <1>3, <1>4, PageEndKeeps DEF PagePlaces

LEMMA StreamEndsKeeps ==
    ASSUME PageInv, NEW t \in Turn, Page!StreamEnds(t)
    PROVE  PageInv'
<1>1. t \in Page!Running /\ PageSame /\ messages' = Page!Settled(t) /\ streaming' = FALSE
      /\ conversationRef' = conversationRef
  BY DEF Page!StreamEnds, Page!Finally, PageSame
<1> DEFINE place == IF conversationRef = None THEN "ended" ELSE "done"
<1>2. CASE Page!Goto(t, "done") /\ "error" \in upsets'
  <2>1. PageMoves(t, "done") /\ turn'[t].found = None
    BY <1>2, PageGotoIs DEF PageInv, PagePlaces
  <2>2. PageFinds(t)
    BY <1>1, <2>1 DEF PageFinds
  <2>3. ChatsAreWhole'
    BY <1>2 DEF ChatsAreWhole
  <2> QED
    BY <1>1, <2>1, <2>2, <2>3, PageEndKeeps DEF PagePlaces
<1>3. CASE t \notin gateway /\ Page!Goto(t, place)
  <2>1. PageMoves(t, place) /\ turn'[t].found = None
    BY <1>3, PageGotoIs DEF PageInv, PagePlaces
  <2>2. PageFinds(t)
    BY <1>1, <2>1 DEF PageFinds
  <2>3. place = "ended" => conversationRef = None
    OBVIOUS
  <2>4. place = "done" => conversationRef # None
    OBVIOUS
  <2>5. place \in {"done", "ended"}
    OBVIOUS
  <2> HIDE DEF place
  <2>6. ChatsAreWhole'
    BY <1>1, <1>3, <2>1, <2>3, <2>4, <2>5, AnsweredWhole
  <2> QED
    BY <1>1, <1>3, <2>1, <2>2, <2>5, <2>6, PageEndKeeps DEF PagePlaces
<1> QED
  BY <1>2, <1>3 DEF Page!StreamEnds, Page!Answered

\* A turn that no longer runs moves on: Stop is shown as before.
LEMMA EndedStops ==
    ASSUME PageTypeOK, StopIsShown, NEW t \in Turn, At(t) \in {"ended", "listing"},
           NEW place \in {"listing", "done"}, PageMoves(t, place), PageSame,
           messages' = messages, streaming' = streaming, abortRef' = abortRef
    PROVE  StopIsShown'
<1> SUFFICES ASSUME ~crossed, "broken" \notin upsets
             PROVE  StopIsShown'
  BY DEF StopIsShown, PageSame
<1>1. \A u \in Turn : /\ u # t => At(u)' = At(u) /\ turn'[u] = turn[u]
                      /\ ChatOf(u)' = ChatOf(u)
  BY DEF PageMoves, At, ChatOf
<1>2. At(t)' = place
  BY DEF PageMoves, At
<1>3. Page!Running' = Page!Running
  BY DEF PageMoves, Page!Running, Page!In, At
<1>4. \A i \in DOMAIN messages : messages[i].turn \in Turn
  <2>1. \A i \in DOMAIN messages : messages[i] \in PageMessage
    BY DEF PageTypeOK
  <2> QED
    BY <2>1 DEF PageMessage
<1>5. /\ PlaceholdersWait(messages)
      /\ \A u \in Turn : At(u) = "uploading" => PlaceholdersWait(turn[u].history)
      /\ streaming <=> Page!Running # {}
      /\ \A u \in Page!Running :
           /\ abortRef = u
           /\ ChatOf(u) = chat => \E i \in DOMAIN messages : messages[i] = Page!Assistant(u)
  BY DEF StopIsShown
<1>6. PlaceholdersWait(messages)'
  BY <1>1, <1>4, <1>5 DEF PlaceholdersWait
<1>7. ASSUME NEW u \in Turn, At(u)' = "uploading"
      PROVE  PlaceholdersWait(turn[u].history)'
  <2>1. u # t /\ At(u) = "uploading"
    BY <1>1, <1>2, <1>7
  <2>2. turn'[u].history = turn[u].history /\ PlaceholdersWait(turn[u].history)
    BY <1>1, <1>5, <2>1
  <2>3. \A i \in DOMAIN turn[u].history : turn[u].history[i].turn \in Turn
    <3>1. turn[u] \in PageTurn
      BY DEF PageTypeOK
    <3>2. turn[u].history \in Seq(PageMessage)
      BY <3>1 DEF PageTurn
    <3>3. \A i \in DOMAIN turn[u].history : turn[u].history[i] \in PageMessage
      BY <3>2
    <3> QED
      BY <3>3 DEF PageMessage
  <2> QED
    BY <1>1, <2>2, <2>3 DEF PlaceholdersWait
<1>8. \A u \in Page!Running : Page!Assistant(u)' = Page!Assistant(u)
  BY DEF Page!Assistant
<1>9. Page!Running \subseteq Turn
  BY DEF Page!Running
<1>10. \A u \in Page!Running' :
         /\ abortRef' = u
         /\ ChatOf(u)' = chat' => \E i \in DOMAIN messages' : messages'[i] = Page!Assistant(u)
  BY <1>1, <1>3, <1>5, <1>9 DEF PageSame
<1>11. streaming' <=> Page!Running' # {}
  BY <1>3, <1>5
<1> QED
  BY <1>6, <1>7, <1>8, <1>10, <1>11 DEF StopIsShown, Page!Assistant

LEMMA StreamBreaksKeeps ==
    ASSUME PageInv, NEW t \in Turn, Page!StreamBreaks(t)
    PROVE  PageInv'
<1>1. PageMoves(t, "broken") /\ turn'[t].found = None
  BY PageGotoIs DEF Page!StreamBreaks, PageInv, PagePlaces
<1>2. t \in Page!Unfinished /\ PageSame /\ messages' = messages /\ streaming' = streaming
      /\ conversationRef' = conversationRef /\ "broken" \in upsets'
  BY DEF Page!StreamBreaks, Page!Running, Page!Unfinished, Page!In, PageSame
<1>3. PageFinds(t)
  BY <1>1, <1>2 DEF PageFinds
<1>4. StopIsShown' /\ ChatsAreWhole'
  BY <1>2 DEF StopIsShown, ChatsAreWhole
<1>5. messages' \in Seq(PageMessage) /\ streaming' \in BOOLEAN
  BY <1>2 DEF PageInv, PageTypeOK
<1> QED
  BY <1>1, <1>2, <1>3, <1>4, <1>5, PageOnwardKeeps DEF PagePlaces

LEMMA ListConversationsKeeps ==
    ASSUME PageInv, NEW t \in Turn, Page!ListConversations(t)
    PROVE  PageInv'
<1>1. PageMoves(t, "listing") /\ turn'[t].found = recent
  <2> DEFINE moved == [turn[t] EXCEPT !.at = "listing", !.found = recent]
  <2>1. turn[t] \in PageTurn /\ recent \in PageConversation
    BY DEF PageInv, PageTypeOK
  <2>2. /\ moved \in PageTurn /\ moved.at = "listing" /\ moved.asks = turn[t].asks
        /\ moved.chat = turn[t].chat /\ moved.advanced = turn[t].advanced /\ moved.found = recent
    BY <2>1 DEF PageTurn, PagePlaces
  <2>3. turn' = [turn EXCEPT ![t] = moved]
    BY DEF Page!ListConversations
  <2> HIDE DEF moved
  <2>4. turn' \in [Turn -> PageTurn] /\ turn'[t] = moved /\ \A u \in Turn : u # t => turn'[u] = turn[u]
    BY <2>2, <2>3 DEF PageInv, PageTypeOK
  <2> QED
    BY <2>2, <2>4 DEF PageMoves
<1>2. At(t) = "ended" /\ t \in Page!Unfinished /\ t \notin Page!Running
  BY DEF Page!ListConversations, Page!Running, Page!Unfinished, Page!In, At
<1>3. PageSame /\ messages' = messages /\ streaming' = streaming /\ abortRef' = abortRef
      /\ conversationRef' = conversationRef
  BY DEF Page!ListConversations, PageSame
<1>4. PageFinds(t)
  BY <1>1, <1>2, <1>3 DEF PageFinds
<1>5. messages' \in Seq(PageMessage) /\ streaming' \in BOOLEAN
  BY <1>3 DEF PageInv, PageTypeOK
<1>6. StopIsShown'
  BY <1>1, <1>2, <1>3, EndedStops DEF PageInv
<1>7. ChatsAreWhole'
  <2> SUFFICES ASSUME ~crossed, hasty = {}, upsets \cap {"stopped", "error", "broken", "elsewhere"} = {}
               PROVE  ChatsAreWhole'
    BY <1>3 DEF ChatsAreWhole, PageSame
  <2>1. \A u \in Page!Unfinished : u = t
    BY <1>2 DEF PageInv, OneUnfinished
  <2>2. \A u \in Turn : ChatOf(u)' = ChatOf(u) /\ turn'[u].asks = turn[u].asks /\ (Seen(u)' <=> Seen(u))
    BY <1>1, <1>3, MovedSeen DEF PageMoves, ChatOf
  <2>3. Page!Running = {} /\ Page!Running' = {} /\ Page!Unfinished' = {t}
    BY <1>1, <1>2, <2>1 DEF PageMoves, Page!Running, Page!Unfinished, Page!In
  <2>4. gateway' = {}
    BY <1>3, <2>3 DEF PageInv, ChatsAreWhole, PageSame
  <2>5. \A u, v \in Turn : Seen(u)' /\ Seen(v)' /\ ChatOf(u)' = ChatOf(v)' => recorded'[u] = recorded'[v]
    BY <1>3, <2>2 DEF PageInv, ChatsAreWhole, PageSame
  <2>6. \A u \in Turn : At(u)' \in {"ended", "listing"} => u = t /\ At(u)' = "listing"
    BY <1>1, <2>1 DEF PageMoves, At, Page!Unfinished, Page!In
  <2>7. conversationRef' = None /\ (recorded[t] # None => recent = recorded[t])
    BY <1>2, <1>3 DEF PageInv, ChatsAreWhole
  <2>8. \A u \in Turn : Seen(u) /\ ChatOf(u) = chat /\ u # t => recorded[u] = conversationRef
    BY <2>1 DEF PageInv, ChatsAreWhole
  <2> QED
    BY <1>1, <1>3, <2>2, <2>3, <2>4, <2>5, <2>6, <2>7, <2>8 DEF ChatsAreWhole, PageSame
<1> QED
  BY <1>1, <1>2, <1>3, <1>4, <1>5, <1>6, <1>7, PageOnwardKeeps DEF PagePlaces

LEMMA DiscoverKeeps ==
    ASSUME PageInv, NEW t \in Turn, Page!Discover(t)
    PROVE  PageInv'
<1>1. PageMoves(t, "done") /\ turn'[t].found = None
  BY PageGotoIs DEF Page!Discover, PageInv, PagePlaces
<1>2. At(t) = "listing" /\ t \in Page!Unfinished /\ t \notin Page!Running
  BY DEF Page!Discover, Page!Running, Page!Unfinished, Page!In, At
<1>3. PageSame /\ messages' = messages /\ streaming' = streaming /\ abortRef' = abortRef
      /\ conversationRef' = IF turn[t].found = None THEN conversationRef ELSE turn[t].found
  BY DEF Page!Discover, PageSame
<1>4. PageFinds(t)
  BY <1>1, <1>3 DEF PageFinds
<1>5. messages' \in Seq(PageMessage) /\ streaming' \in BOOLEAN
  BY <1>3 DEF PageInv, PageTypeOK
<1>6. StopIsShown'
  BY <1>1, <1>2, <1>3, EndedStops DEF PageInv
<1>7. ChatsAreWhole'
  <2> SUFFICES ASSUME ~crossed, hasty = {}, upsets \cap {"stopped", "error", "broken", "elsewhere"} = {}
               PROVE  ChatsAreWhole'
    BY <1>3 DEF ChatsAreWhole, PageSame
  <2>1. \A u \in Page!Unfinished : u = t
    BY <1>2 DEF PageInv, OneUnfinished
  <2>2. \A u \in Turn : ChatOf(u)' = ChatOf(u) /\ turn'[u].asks = turn[u].asks /\ (Seen(u)' <=> Seen(u))
    BY <1>1, <1>3, MovedSeen DEF PageMoves, ChatOf
  <2>3. Page!Running = {} /\ Page!Running' = {} /\ Page!Unfinished' = {}
    BY <1>1, <1>2, <2>1 DEF PageMoves, Page!Running, Page!Unfinished, Page!In
  <2>4. gateway' = {}
    BY <1>3, <2>3 DEF PageInv, ChatsAreWhole, PageSame
  <2>5. \A u, v \in Turn : Seen(u)' /\ Seen(v)' /\ ChatOf(u)' = ChatOf(v)' => recorded'[u] = recorded'[v]
    BY <1>3, <2>2 DEF PageInv, ChatsAreWhole, PageSame
  <2>6. \A u \in Turn : At(u)' \notin {"ended", "listing"}
    BY <1>1, <2>1 DEF PageMoves, At, Page!Unfinished, Page!In
  <2>7. conversationRef = None /\ (recorded[t] # None => turn[t].found = recorded[t])
    BY <1>2 DEF PageInv, ChatsAreWhole
  \* The turns of this chat that ended before were recorded nowhere, or unseen.
  <2>8. \A u \in Turn : Seen(u) /\ ChatOf(u) = chat => u = t
    BY <2>1, <2>7 DEF PageInv, ChatsAreWhole, Seen
  <2>9. \A u \in Turn : Seen(u)' /\ ChatOf(u)' = chat' => recorded'[u] = conversationRef'
    BY <1>3, <2>2, <2>7, <2>8 DEF PageSame, Seen
  <2> QED
    BY <2>2, <2>3, <2>4, <2>5, <2>6, <2>9 DEF ChatsAreWhole
<1> QED
  BY <1>1, <1>2, <1>3, <1>4, <1>5, <1>6, <1>7, PageOnwardKeeps DEF PagePlaces

\* No turn moves: what says where the turns are stays as it is.
LEMMA PageStays ==
    ASSUME turn' = turn
    PROVE  /\ Page!Running' = Page!Running /\ Page!Unfinished' = Page!Unfinished
           /\ \A t \in Turn : At(t)' = At(t) /\ ChatOf(t)' = ChatOf(t)
           /\ \A list \in Seq(PageMessage) : PlaceholdersWait(list) => PlaceholdersWait(list)'
BY DEF Page!Running, Page!Unfinished, Page!In, At, ChatOf, PlaceholdersWait

LEMMA StopKeeps ==
    ASSUME PageInv, Page!Stop
    PROVE  PageInv'
<1>1. PageSame /\ conversationRef' = conversationRef /\ streaming /\ streaming' = FALSE /\ "stopped" \in upsets'
  BY DEF Page!Stop, PageSame, Page!Finally
<1>2. ChatsAreWhole'
  BY <1>1 DEF ChatsAreWhole
<1>3. CASE abortRef \in Page!Running /\ turn[abortRef].advanced
  <2>1. abortRef \in Turn /\ messages' = Page!Settled(abortRef)
    BY <1>3 DEF Page!Stop, Page!Running
  <2>2. Page!Goto(abortRef, "done")
    BY <1>3 DEF Page!Stop
  <2>3. PageMoves(abortRef, "done") /\ turn'[abortRef].found = None
    BY <2>1, <2>2, PageGotoIs DEF PageInv, PagePlaces
  <2>4. PageFinds(abortRef)
    BY <1>1, <2>3 DEF PageFinds
  <2> QED
    BY <1>1, <1>2, <1>3, <2>1, <2>3, <2>4, PageEndKeeps DEF PagePlaces
<1>4. CASE abortRef \in Page!Running /\ ~turn[abortRef].advanced
  <2>1. PICK t \in Turn : t = abortRef /\ t \in Page!Running /\ t \in Page!Unfinished
    BY <1>4 DEF Page!Running, Page!Unfinished, Page!In
  <2>2. Page!Goto(t, "aborted") /\ messages' = messages
    BY <1>4, <2>1 DEF Page!Stop
  <2>3. PageMoves(t, "aborted") /\ turn'[t].found = None
    BY <2>2, PageGotoIs DEF PageInv, PagePlaces
  <2>4. PageFinds(t)
    BY <1>1, <2>3 DEF PageFinds
  <2>5. messages' \in Seq(PageMessage)
    BY <2>2 DEF PageInv, PageTypeOK
  <2>6. StopIsShown'
    <3> SUFFICES ASSUME ~crossed, "broken" \notin upsets
                 PROVE  /\ ~Page!Running' # {}
                        /\ PlaceholdersWait(messages)'
                        /\ \A u \in Turn : At(u)' = "uploading" => PlaceholdersWait(turn[u].history)'
      BY <1>1 DEF StopIsShown, PageSame
    <3>1. \A u \in Page!Unfinished : u = t
      BY <2>1 DEF PageInv, OneUnfinished
    <3>2. Page!Running' = {} /\ \A u \in Turn : At(u)' # "uploading"
      BY <2>3, <3>1 DEF PageMoves, Page!Running, Page!Unfinished, Page!In, At
    <3>3. At(t)' = "aborted" /\ \A u \in Turn \ {t} : At(u)' = At(u)
      BY <2>3 DEF PageMoves, At
    <3>4. \A i \in DOMAIN messages : messages[i].turn \in Turn
      <4>1. \A i \in DOMAIN messages : messages[i] \in PageMessage
        BY DEF PageInv, PageTypeOK
      <4> QED
        BY <4>1 DEF PageMessage
    <3>5. PlaceholdersWait(messages)
      BY DEF PageInv, StopIsShown
    <3>6. PlaceholdersWait(messages)'
      BY <2>2, <3>3, <3>4, <3>5 DEF PlaceholdersWait
    <3> QED
      BY <3>2, <3>6
  <2> QED
    BY <1>1, <1>2, <2>1, <2>3, <2>4, <2>5, <2>6, PageOnwardKeeps DEF PagePlaces
\* While turns do not overlap and no connection broke, Stop reaches a turn.
<1>5. CASE abortRef \notin Page!Running
  <2>1. turn' = turn /\ messages' = messages
    BY <1>5 DEF Page!Stop
  <2>2. /\ Page!Running' = Page!Running /\ Page!Unfinished' = Page!Unfinished
        /\ \A t \in Turn : At(t)' = At(t) /\ ChatOf(t)' = ChatOf(t)
    BY <2>1, PageStays
  <2>3. PageTypeOK'
    BY <1>1, <2>1 DEF PageInv, PageTypeOK, PageSame
  <2>4. TurnsAreBegun' /\ OneUnfinished'
    BY <1>1, <2>2 DEF PageInv, TurnsAreBegun, OneUnfinished, PageSame
  <2>5. StopIsShown'
    BY <1>1, <1>5 DEF PageInv, StopIsShown, PageSame
  <2>6. TabIsElsewhere' /\ EarlierIsOlder'
    BY <1>1, <2>1, <2>2 DEF PageInv, TabIsElsewhere, EarlierIsOlder, PageSame
  <2>7. ChatsAreApart'
    BY <1>1, <2>1, <2>2 DEF PageInv, ChatsAreApart, Opened, PageSame
  <2> QED
    BY <1>2, <2>3, <2>4, <2>5, <2>6, <2>7 DEF PageInv
<1> QED
  BY <1>3, <1>4, <1>5

LEMMA NewChatKeeps ==
    ASSUME PageInv, Page!NewChat
    PROVE  PageInv'
<1>1. /\ turn' = turn /\ recorded' = recorded /\ gateway' = gateway /\ recent' = recent
      /\ streaming' = streaming /\ abortRef' = abortRef /\ crossed' = crossed /\ upsets' = upsets
      /\ messages' = <<>> /\ conversationRef' = None /\ chat' = chat + 1
  BY DEF Page!NewChat, Page!Forgotten
<1>2. hasty' = {} => hasty = {} /\ Page!Unfinished = {}
  BY DEF Page!NewChat
<1>3. /\ Page!Running' = Page!Running /\ Page!Unfinished' = Page!Unfinished
      /\ \A t \in Turn : At(t)' = At(t) /\ ChatOf(t)' = ChatOf(t)
      /\ \A list \in Seq(PageMessage) : PlaceholdersWait(list) => PlaceholdersWait(list)'
  BY <1>1, PageStays
<1>4. \A t \in Turn : ChatOf(t) \in Nat
  <2>1. \A t \in Turn : turn[t] \in PageTurn
    BY DEF PageInv, PageTypeOK
  <2> QED
    BY <2>1 DEF PageTurn, ChatOf
<1>5. \A t \in Turn : At(t) # "none" => ChatOf(t) < chat' /\ ChatOf(t) <= chat'
  BY <1>1, <1>4 DEF PageInv, TurnsAreBegun, PageTypeOK
<1>6. \A t \in Turn : recorded[t] # None \/ t \in Page!Running => ChatOf(t) # chat'
  BY <1>4, <1>5 DEF PageInv, TurnsAreBegun, Page!Running, Page!In, At
<1>7. PageTypeOK'
  BY <1>1 DEF PageInv, PageTypeOK, PageConversation
<1>8. TurnsAreBegun' /\ OneUnfinished'
  BY <1>1, <1>2, <1>3, <1>5 DEF PageInv, TurnsAreBegun, OneUnfinished
<1>9. StopIsShown'
  <2> SUFFICES ASSUME ~crossed, "broken" \notin upsets
               PROVE  StopIsShown'
    BY <1>1 DEF StopIsShown
  <2>1. PlaceholdersWait(messages)'
    BY <1>1 DEF PlaceholdersWait
  <2>2. \A t \in Turn : At(t)' = "uploading" => PlaceholdersWait(turn[t].history)'
    <3>1. \A t \in Turn : turn[t] \in PageTurn
      BY DEF PageInv, PageTypeOK
    <3>2. \A t \in Turn : turn[t].history \in Seq(PageMessage)
      BY <3>1 DEF PageTurn
    <3>3. \A t \in Turn : At(t) = "uploading" => PlaceholdersWait(turn[t].history)
      BY DEF PageInv, StopIsShown
    <3> QED
      BY <1>1, <1>3, <3>2, <3>3 DEF PlaceholdersWait
  <2>3. streaming' <=> Page!Running' # {}
    BY <1>1, <1>3 DEF PageInv, StopIsShown
  <2>4. \A t \in Page!Running' : abortRef' = t /\ ChatOf(t)' # chat'
    BY <1>1, <1>3, <1>6 DEF PageInv, StopIsShown, Page!Running
  <2> QED
    BY <2>1, <2>2, <2>3, <2>4 DEF StopIsShown
<1>10. TabIsElsewhere' /\ EarlierIsOlder'
  BY <1>1, <1>3, PageAssumption DEF PageInv, TabIsElsewhere, EarlierIsOlder
<1>11. ChatsAreApart'
  BY <1>1, <1>2, <1>3, <1>6 DEF PageInv, ChatsAreApart, Opened
<1>12. ChatsAreWhole'
  <2> SUFFICES ASSUME ~crossed, hasty' = {}, upsets \cap {"stopped", "error", "broken", "elsewhere"} = {}
               PROVE  ChatsAreWhole'
    BY <1>1 DEF ChatsAreWhole
  <2>1. Page!Unfinished = {} /\ Page!Running = {} /\ hasty = {}
    BY <1>2 DEF Page!Unfinished, Page!Running, Page!In
  <2>2. \A t \in Turn : At(t)' \notin {"ended", "listing"}
    BY <1>3, <2>1 DEF Page!Unfinished, Page!In, At
  <2>3. \A t, u \in Turn : Seen(t)' /\ Seen(u)' /\ ChatOf(t)' = ChatOf(u)' => recorded'[t] = recorded'[u]
    BY <1>1, <1>3, <2>1 DEF PageInv, ChatsAreWhole, Seen, Page!OpensUnseen
  <2>4. gateway' = {}
    BY <1>1, <2>1 DEF PageInv, ChatsAreWhole
  <2> QED
    BY <1>1, <1>3, <1>6, <2>1, <2>2, <2>3, <2>4 DEF ChatsAreWhole, Seen
<1> QED
  BY <1>7, <1>8, <1>9, <1>10, <1>11, <1>12 DEF PageInv

LEMMA ElsewhereKeeps ==
    ASSUME PageInv, Page!Elsewhere
    PROVE  PageInv'
<1>1. /\ UNCHANGED <<messages, streaming, abortRef, conversationRef, turn, recorded, gateway, chat, hasty, crossed>>
      /\ recent' = OtherTab /\ upsets' = upsets \cup {"elsewhere"}
  BY DEF Page!Elsewhere
<1>2. /\ Page!Running' = Page!Running /\ Page!Unfinished' = Page!Unfinished
      /\ \A t \in Turn : At(t)' = At(t) /\ ChatOf(t)' = ChatOf(t)
  BY <1>1, PageStays
<1>3. PageTypeOK'
  BY <1>1 DEF PageInv, PageTypeOK, PageConversation
<1>4. TurnsAreBegun' /\ OneUnfinished'
  BY <1>1, <1>2 DEF PageInv, TurnsAreBegun, OneUnfinished
<1>5. StopIsShown'
  BY <1>1 DEF PageInv, StopIsShown, PlaceholdersWait, Page!Running, Page!In, Page!Assistant, At, ChatOf
<1>6. TabIsElsewhere' /\ ChatsAreApart' /\ ChatsAreWhole'
  BY <1>1 DEF TabIsElsewhere, ChatsAreApart, ChatsAreWhole
<1>7. EarlierIsOlder'
  BY <1>1, <1>2, PageAssumption DEF PageInv, EarlierIsOlder
<1> QED
  BY <1>3, <1>4, <1>5, <1>6, <1>7 DEF PageInv

LEMMA RecordKeeps ==
    ASSUME PageInv, NEW t \in Turn, Page!Record(t)
    PROVE  PageInv'
<1>4. turn[t] \in PageTurn
  BY DEF PageInv, PageTypeOK
<1>5. PICK c \in PageConversation : c = (IF turn[t].asks = None THEN t ELSE turn[t].asks) /\ c # None
  BY <1>4, PageAssumption DEF PageTurn, PageConversation
<1>1. /\ UNCHANGED <<messages, streaming, abortRef, conversationRef, turn, chat, hasty, crossed>>
      /\ t \in gateway /\ gateway' = gateway \ {t} /\ upsets \subseteq upsets'
  BY DEF Page!Record
<1>2. recorded[t] = None /\ At(t) \notin {"none", "uploading"}
  BY <1>1 DEF PageInv, TurnsAreBegun
<1>3. \/ /\ recorded' = [recorded EXCEPT ![t] = c] /\ recent' = recorded'[t]
         /\ upsets' = IF t \in Page!Running THEN upsets ELSE upsets \cup {"late"}
      \/ "unrecorded" \in upsets' /\ UNCHANGED <<recorded, recent>>
  BY <1>5 DEF Page!Record
<1>6. recorded' \in [Turn -> PageConversation] /\ recent' \in PageConversation
  BY <1>3, <1>5 DEF PageInv, PageTypeOK
<1>7. \A u \in Turn \ {t} : recorded'[u] = recorded[u]
  BY <1>3 DEF PageInv, PageTypeOK
<1>8. \/ recorded' = recorded /\ recent' = recent /\ "unrecorded" \in upsets'
      \/ recorded'[t] = c /\ recent' = c /\ (t \notin Page!Running => "late" \in upsets')
  BY <1>3 DEF PageInv, PageTypeOK
<1>9. /\ Page!Running' = Page!Running /\ Page!Unfinished' = Page!Unfinished
      /\ \A u \in Turn : At(u)' = At(u) /\ ChatOf(u)' = ChatOf(u)
  BY <1>1, PageStays
<1>10. PageTypeOK'
  BY <1>1, <1>6 DEF PageInv, PageTypeOK
<1>11. TurnsAreBegun' /\ OneUnfinished'
  BY <1>1, <1>2, <1>7, <1>9 DEF PageInv, TurnsAreBegun, OneUnfinished
<1>12. StopIsShown'
  BY <1>1 DEF PageInv, StopIsShown, PlaceholdersWait, Page!Running, Page!In, Page!Assistant, At, ChatOf
<1>13. TabIsElsewhere'
  <2> SUFFICES ASSUME "elsewhere" \notin upsets
               PROVE  TabIsElsewhere'
    BY <1>1 DEF TabIsElsewhere
  <2>1. OtherTab # c
    BY <1>5, PageAssumption DEF PageInv, TabIsElsewhere
  <2> QED
    BY <2>1, <1>1, <1>7, <1>8 DEF PageInv, TabIsElsewhere
<1>16. EarlierIsOlder'
  <2> SUFFICES ASSUME "unrecorded" \notin upsets'
               PROVE  EarlierIsOlder'
    BY DEF EarlierIsOlder
  <2>1. recorded'[t] = c /\ recent' = c /\ "unrecorded" \notin upsets
    BY <1>1, <1>8
  <2>2. Earlier # c
    BY <2>1, <1>5, PageAssumption DEF PageInv, EarlierIsOlder
  <2> QED
    BY <2>1, <2>2, <1>1, <1>5, <1>7, <1>9 DEF PageInv, EarlierIsOlder
<1>14. ChatsAreApart'
  <2> SUFFICES ASSUME hasty = {}, upsets' \cap {"late", "unrecorded", "elsewhere"} = {}
               PROVE  ChatsAreApart'
    BY <1>1 DEF ChatsAreApart
  <2>1. t \in Page!Running /\ recorded'[t] = c /\ recent' = c
    BY <1>8
  <2>2. upsets \cap {"late", "unrecorded", "elsewhere"} = {}
    BY <1>1
  <2>3. ChatOf(t) = chat
    BY <2>1 DEF PageInv, TurnsAreBegun, Page!Running, Page!Unfinished, Page!In
  <2>4. \A d, n : Opened(d, n) => Opened(d, n)'
    <3> TAKE d, n
    <3> SUFFICES ASSUME Opened(d, n)
                 PROVE  Opened(d, n)'
      OBVIOUS
    <3>1. d \in Turn /\ d # t
      BY <1>2, PageAssumption DEF Opened
    <3> QED
      BY <3>1, <1>7, <1>9 DEF Opened
  <2>5. Opened(c, chat)'
    <3>1. CASE turn[t].asks = None
      BY <3>1, <2>1, <2>3, <1>1, <1>5, <1>9 DEF Opened
    <3>2. CASE turn[t].asks # None
      BY <3>2, <2>2, <2>3, <2>4, <1>1, <1>5 DEF PageInv, ChatsAreApart
    <3> QED
      BY <3>1, <3>2
  <2>6. \A u \in Turn : /\ recorded'[u] # None => Opened(recorded[u], ChatOf(u))'
                        /\ turn[u].asks # None => Opened(turn[u].asks, ChatOf(u))
                        /\ turn[u].found # None => Opened(turn[u].found, ChatOf(u))
    <3>1. \A u \in Turn \ {t} : recorded[u] # None => Opened(recorded[u], ChatOf(u))
      BY <2>2 DEF PageInv, ChatsAreApart
    <3>2. \A u \in Turn \ {t} : recorded'[u] # None => Opened(recorded[u], ChatOf(u))'
      BY <3>1, <2>4, <1>9, <1>7
    <3>3. Opened(recorded[t], ChatOf(t))'
      BY <2>1, <2>3, <2>5, <1>1, <1>9 DEF Opened
    <3>4. \A u \in Turn : /\ turn[u].asks # None => Opened(turn[u].asks, ChatOf(u))
                          /\ turn[u].found # None => Opened(turn[u].found, ChatOf(u))
      BY <2>2 DEF PageInv, ChatsAreApart
    <3> QED
      BY <3>2, <3>3, <3>4
  <2>7. \A u \in Turn : /\ u \in Page!Running' /\ u \notin gateway' => recorded'[u] # None
                        /\ At(u)' = "ended" => recorded'[u] # None
    BY <2>1, <2>2, <1>1, <1>5, <1>7, <1>9 DEF PageInv, ChatsAreApart
  <2>8. conversationRef' # None => Opened(conversationRef, chat)'
    BY <2>2, <2>4, <1>1 DEF PageInv, ChatsAreApart
  <2>9. \A u \in Turn : /\ turn'[u].asks # None => Opened(turn[u].asks, ChatOf(u))'
                        /\ turn'[u].found # None => Opened(turn[u].found, ChatOf(u))'
    BY <2>4, <2>6, <1>1, <1>9
  <2>10. recent' # None /\ Opened(recent, chat)'
    BY <2>1, <2>5, <1>1, <1>5 DEF Opened
  <2> QED
    BY <2>6, <2>7, <2>8, <2>9, <2>10 DEF ChatsAreApart
<1>15. ChatsAreWhole'
  <2> SUFFICES ASSUME ~crossed, hasty = {}, upsets \cap {"stopped", "error", "broken", "elsewhere"} = {}
               PROVE  ChatsAreWhole'
    BY <1>1 DEF ChatsAreWhole
  <2>1. t \in Page!Running /\ t \in Page!Unfinished /\ turn[t].asks = conversationRef /\ gateway' = {}
    <3>1. t \in Page!Running
      BY <1>1 DEF PageInv, ChatsAreWhole
    <3>2. Page!Running \subseteq Page!Unfinished
      BY DEF Page!Running, Page!Unfinished, Page!In
    <3>3. gateway' = {}
      BY <3>1, <3>2, <1>1 DEF PageInv, ChatsAreWhole, OneUnfinished
    <3> QED
      BY <3>1, <3>2, <3>3 DEF PageInv, ChatsAreWhole
  <2>2. \A u \in Page!Unfinished : u = t
    BY <2>1 DEF PageInv, OneUnfinished
  <2>3. ChatOf(t) = chat
    BY <2>1 DEF PageInv, TurnsAreBegun
  <2>12. \A u \in Turn \ {t} : Seen(u)' <=> Seen(u)
    BY <1>1, <1>7 DEF Seen, Page!OpensUnseen
  <2>4. \A u \in Turn \ {t} : Seen(u) /\ ChatOf(u) = chat => recorded[u] = conversationRef
    BY <2>2 DEF PageInv, ChatsAreWhole
  <2>5. \A u \in Turn \ {t} : Seen(u) /\ ChatOf(u) = chat => recorded[u] = c
    BY <2>1, <2>4, <1>5 DEF Seen
  <2>6. \A u, v \in Turn \ {t} : Seen(u) /\ Seen(v) /\ ChatOf(u) = ChatOf(v) => recorded[u] = recorded[v]
    BY DEF PageInv, ChatsAreWhole
  <2>7. \A u, v \in Turn : Seen(u)' /\ Seen(v)' /\ ChatOf(u)' = ChatOf(v)' => recorded'[u] = recorded'[v]
    <3>1. \A u \in Turn \ {t} : Seen(u) /\ ChatOf(u) = ChatOf(t) /\ recorded'[t] # None => recorded[u] = recorded'[t]
      BY <2>3, <2>5, <1>2, <1>8
    <3>2. Seen(t)' => recorded'[t] # None
      BY DEF Seen
    <3> QED
      BY <3>1, <3>2, <2>6, <2>12, <1>7, <1>9
  <2>8. \A u \in Turn : At(u)' \notin {"ended", "listing"}
    BY <2>1, <2>2, <1>9 DEF Page!Unfinished, Page!Running, Page!In, At
  <2>9. \A u \in Turn : Seen(u)' /\ ChatOf(u)' = chat' /\ u \notin Page!Unfinished' => recorded'[u] = conversationRef'
    BY <2>1, <2>4, <2>12, <1>1, <1>7, <1>9
  <2>10. recorded'[t] # None => recent' = recorded'[t] /\ (turn'[t].asks # None => recorded'[t] = turn'[t].asks)
    BY <1>1, <1>2, <1>5, <1>8
  <2>11. \A u \in Page!Running' : u = t
    BY <2>2, <1>9 DEF Page!Running, Page!Unfinished, Page!In
  <2> QED
    BY <2>1, <2>7, <2>8, <2>9, <2>10, <2>11, <1>1 DEF ChatsAreWhole
<1> QED
  BY <1>10, <1>11, <1>12, <1>13, <1>14, <1>15, <1>16 DEF PageInv

\* A turn that begins, or whose files are up: no other clause speaks of it yet.
LEMMA BegunFrom ==
    ASSUME PageInv, NEW t \in Turn, At(t) \in {"none", "uploading"}
    PROVE  /\ recorded[t] = None /\ t \notin gateway /\ t \notin Page!Running
           /\ \A c, n : Opened(c, n) => c # t
           /\ \A list \in Seq(PageMessage) : PlaceholdersWait(list) =>
                \A i \in DOMAIN list : list[i].pending => list[i].turn \in Turn \ {t}
<1>1. recorded[t] = None /\ t \notin gateway
  BY DEF PageInv, TurnsAreBegun
<1>2. t \notin Page!Running
  BY DEF Page!Running, Page!In, At
<1>3. \A c, n : Opened(c, n) => c # t
  BY <1>1, PageAssumption DEF Opened
<1>4. ASSUME NEW list \in Seq(PageMessage), PlaceholdersWait(list), NEW i \in DOMAIN list, list[i].pending
      PROVE  list[i].turn \in Turn \ {t}
  <2>1. list[i] \in PageMessage
    OBVIOUS
  <2> QED
    BY <1>4, <2>1 DEF PageMessage, PlaceholdersWait
<1> QED
  BY <1>1, <1>2, <1>3, <1>4

\* runCompletion up to the request, for the messages it is given.
LEMMA RunKeeps ==
    ASSUME PageInv, NEW t \in Turn, At(t) \in {"none", "uploading"},
           NEW history \in Seq(PageMessage), NEW c \in Nat, c <= chat, hasty = {} => c = chat,
           ~crossed /\ "broken" \notin upsets => PlaceholdersWait(history),
           Page!RunCompletion(t, history, c)
    PROVE  PageInv'
<1>1. /\ UNCHANGED <<conversationRef, recorded, recent, chat, hasty, upsets>>
      /\ messages' = Append(history, Page!Assistant(t)) /\ streaming' = TRUE /\ abortRef' = t
      /\ gateway' = gateway \cup {t}
  BY DEF Page!RunCompletion
<1>2. crossed' = (crossed \/ Page!Unfinished \ {t} # {})
  BY DEF Page!RunCompletion
<1>3. PICK begun \in PageTurn : /\ turn' = [turn EXCEPT ![t] = begun]
                                /\ begun.at = "running" /\ begun.asks = conversationRef
                                /\ begun.found = None /\ begun.chat = c
  <2>1. PICK advanced \in BOOLEAN :
          turn' = [turn EXCEPT ![t] = [at |-> "running", advanced |-> advanced, history |-> <<>>,
                                       asks |-> conversationRef, found |-> None, chat |-> c]]
    BY DEF Page!RunCompletion
  <2>2. [at |-> "running", advanced |-> advanced, history |-> <<>>,
         asks |-> conversationRef, found |-> None, chat |-> c] \in PageTurn
    BY DEF PageInv, PageTypeOK, PageTurn, PagePlaces, PageConversation
  <2> QED
    BY <2>1, <2>2
<1>4. /\ turn' \in [Turn -> PageTurn] /\ turn'[t] = begun
      /\ \A u \in Turn \ {t} : turn'[u] = turn[u]
  BY <1>3 DEF PageInv, PageTypeOK
<1>5. /\ At(t)' = "running" /\ ChatOf(t)' = c
      /\ \A u \in Turn \ {t} : At(u)' = At(u) /\ ChatOf(u)' = ChatOf(u)
  BY <1>3, <1>4 DEF At, ChatOf
<1>6. /\ Page!Running' = Page!Running \cup {t} /\ Page!Unfinished' = Page!Unfinished \cup {t}
  BY <1>3, <1>4 DEF Page!Running, Page!Unfinished, Page!In
<1>7. /\ recorded[t] = None /\ t \notin gateway /\ t \notin Page!Running
      /\ \A d, n : Opened(d, n) => d # t
      /\ \A list \in Seq(PageMessage) : PlaceholdersWait(list) =>
           \A i \in DOMAIN list : list[i].pending => list[i].turn \in Turn \ {t}
  BY BegunFrom
<1>8. PageTypeOK'
  <2>1. Page!Assistant(t) \in PageMessage
    BY DEF Page!Assistant, PageMessage
  <2>2. messages' \in Seq(PageMessage)
    BY <1>1, <2>1
  <2>3. crossed' \in BOOLEAN
    BY <1>2
  <2> QED
    BY <1>1, <1>4, <2>2, <2>3 DEF PageInv, PageTypeOK
<1>9. TurnsAreBegun' /\ OneUnfinished'
  <2>1. TurnsAreBegun'
    BY <1>1, <1>5, <1>6, <1>7 DEF PageInv, TurnsAreBegun
  <2>2. OneUnfinished'
    BY <1>2, <1>6 DEF OneUnfinished
  <2> QED
    BY <2>1, <2>2
<1>10. StopIsShown'
  <2> SUFFICES ASSUME ~crossed, Page!Unfinished \subseteq {t}, "broken" \notin upsets
               PROVE  StopIsShown'
    BY <1>1, <1>2 DEF StopIsShown
  <2>1. Page!Running' = {t}
    BY <1>6, <1>7 DEF Page!Running, Page!Unfinished, Page!In
  <2>2. /\ DOMAIN messages' = 1 .. Len(history) + 1 /\ messages'[Len(history) + 1] = Page!Assistant(t)
        /\ \A i \in 1 .. Len(history) : messages'[i] = history[i]
        /\ Len(history) \in Nat /\ DOMAIN history = 1 .. Len(history)
    <3>1. Page!Assistant(t) \in PageMessage
      BY DEF Page!Assistant, PageMessage
    <3> QED
      BY <1>1, <3>1
  <2>3. Page!Assistant(t).role = "assistant" /\ Page!Assistant(t).turn = t
    BY DEF Page!Assistant
  <2>4. \A i \in DOMAIN history : history[i].pending =>
          history[i].role = "assistant" /\ At(history[i].turn)' \in {"running", "aborted"}
    BY <1>5, <1>7 DEF PlaceholdersWait
  <2>5. \A i \in DOMAIN messages' : messages'[i].pending =>
          messages'[i].role = "assistant" /\ At(messages[i].turn)' \in {"running", "aborted"}
    BY <1>5, <2>2, <2>3, <2>4
  <2>6. PlaceholdersWait(messages)'
    BY <2>5 DEF PlaceholdersWait, At
  <2>7. \A u \in Turn : At(u)' # "uploading"
    BY <1>5 DEF Page!Unfinished, Page!In, At
  <2>8. Len(history) + 1 \in DOMAIN messages'
    BY <2>2
  <2> QED
    BY <1>1, <2>1, <2>2, <2>6, <2>7, <2>8 DEF StopIsShown, Page!Assistant
<1>11. TabIsElsewhere' /\ EarlierIsOlder'
  <2>1. TabIsElsewhere'
    BY <1>1, <1>3, <1>4, PageAssumption DEF PageInv, TabIsElsewhere
  <2>2. EarlierIsOlder'
    BY <1>1, <1>3, <1>4, <1>5, <1>6, <1>7, PageAssumption DEF PageInv, EarlierIsOlder
  <2> QED
    BY <2>1, <2>2
<1>12. ChatsAreApart'
  <2> SUFFICES ASSUME hasty = {}, upsets \cap {"late", "unrecorded", "elsewhere"} = {}
               PROVE  ChatsAreApart'
    BY <1>1 DEF ChatsAreApart
  <2>1. c = chat
    OBVIOUS
  <2>2. \A d, n : Opened(d, n) => Opened(d, n)'
    BY <1>1, <1>5, <1>7 DEF Opened
  <2>3. conversationRef # None => Opened(conversationRef, chat)
    BY DEF PageInv, ChatsAreApart
  <2>4. conversationRef' # None => Opened(conversationRef, chat)'
    BY <1>1, <2>2, <2>3
  <2>5. turn'[t].asks = conversationRef /\ turn'[t].found = None /\ ChatOf(t)' = chat
    BY <1>3, <1>4, <1>5, <2>1
  <2>6. turn'[t].asks # None => Opened(turn[t].asks, ChatOf(t))'
    BY <2>2, <2>3, <2>5
  <2>7. \A u \in Turn \ {t} : /\ turn'[u].asks # None => Opened(turn[u].asks, ChatOf(u))'
                              /\ turn'[u].found # None => Opened(turn[u].found, ChatOf(u))'
                              /\ recorded[u] # None => Opened(recorded[u], ChatOf(u))'
    <3>1. \A u \in Turn \ {t} : /\ turn[u].asks # None => Opened(turn[u].asks, ChatOf(u))
                                /\ turn[u].found # None => Opened(turn[u].found, ChatOf(u))
                                /\ recorded[u] # None => Opened(recorded[u], ChatOf(u))
      BY DEF PageInv, ChatsAreApart
    <3> QED
      BY <3>1, <2>2, <1>1, <1>4, <1>5
  <2>8. \A u \in Turn : /\ u \in Page!Running' /\ u \notin gateway' => recorded'[u] # None
                        /\ At(u)' = "ended" => recorded'[u] # None
                        /\ recorded'[u] # None /\ ChatOf(u)' = chat' => recent' # None /\ Opened(recent, chat)'
    <3>1. \A u \in Turn : /\ u \in Page!Running /\ u \notin gateway => recorded[u] # None
                          /\ At(u) = "ended" => recorded[u] # None
                          /\ recorded[u] # None /\ ChatOf(u) = chat => recent # None /\ Opened(recent, chat)
      BY DEF PageInv, ChatsAreApart
    <3>2. Opened(recent, chat) => Opened(recent, chat)'
      BY <2>2, <1>1
    <3>3. \A u \in Turn \ {t} : /\ u \in Page!Running' /\ u \notin gateway' => recorded'[u] # None
                                /\ At(u)' = "ended" => recorded'[u] # None
                                /\ recorded'[u] # None /\ ChatOf(u)' = chat' => recent' # None /\ Opened(recent, chat)'
      BY <3>1, <3>2, <1>1, <1>5, <1>6
    <3>4. t \in gateway' /\ At(t)' # "ended" /\ recorded'[t] = None
      BY <1>1, <1>5, <1>7
    <3> QED
      BY <3>3, <3>4
  <2> QED
    BY <1>1, <1>7, <2>4, <2>5, <2>6, <2>7, <2>8 DEF ChatsAreApart
<1>13. ChatsAreWhole'
  <2> SUFFICES ASSUME ~crossed, Page!Unfinished \subseteq {t}, hasty = {},
                      upsets \cap {"stopped", "error", "broken", "elsewhere"} = {}
               PROVE  ChatsAreWhole'
    BY <1>1, <1>2 DEF ChatsAreWhole
  <2>1. Page!Running = {} /\ Page!Running' = {t} /\ gateway' = {t}
    <3>1. Page!Running = {}
      BY <1>7 DEF Page!Running, Page!Unfinished, Page!In
    <3>2. gateway = {}
      BY <3>1 DEF PageInv, ChatsAreWhole
    <3> QED
      BY <3>1, <3>2, <1>1, <1>6
  <2>2. \A u, v \in Turn : Seen(u) /\ Seen(v) /\ ChatOf(u) = ChatOf(v) => recorded[u] = recorded[v]
    BY DEF PageInv, ChatsAreWhole
  <2>3. \A u \in Turn : Seen(u) => u \in Turn \ {t} /\ u \notin Page!Unfinished
    BY <1>7 DEF Seen
  <2>4. \A u \in Turn : Seen(u)' => u # t /\ Seen(u)
    BY <1>1, <1>4, <1>7 DEF Seen, Page!OpensUnseen
  <2>5. \A u, v \in Turn : Seen(u)' /\ Seen(v)' /\ ChatOf(u)' = ChatOf(v)' => recorded'[u] = recorded'[v]
    BY <1>1, <1>5, <2>2, <2>4
  <2>6. \A u \in Turn : Seen(u)' /\ ChatOf(u)' = chat' => recorded'[u] = conversationRef'
    <3>1. \A u \in Turn : Seen(u) /\ ChatOf(u) = chat => recorded[u] = conversationRef
      BY <2>3 DEF PageInv, ChatsAreWhole
    <3> QED
      BY <3>1, <2>4, <1>1, <1>5
  <2>7. \A u \in Turn : At(u)' \notin {"ended", "listing"}
    BY <1>5 DEF Page!Unfinished, Page!In, At
  <2>8. turn'[t].asks = conversationRef' /\ recorded'[t] = None
    BY <1>1, <1>3, <1>4, <1>7
  <2> QED
    BY <2>1, <2>5, <2>6, <2>7, <2>8 DEF ChatsAreWhole
<1> QED
  BY <1>8, <1>9, <1>10, <1>11, <1>12, <1>13 DEF PageInv

\* onSend with files: what it is clicked on is what the completion begins with.
LEMMA SendWithFilesKeeps ==
    ASSUME PageInv, NEW t \in Turn, Page!SendWithFiles(t)
    PROVE  PageInv'
<1>1. /\ UNCHANGED <<messages, streaming, abortRef, conversationRef, recorded, gateway, recent, chat, hasty, upsets>>
      /\ ~streaming /\ crossed' = (crossed \/ Page!Unfinished # {})
  BY DEF Page!SendWithFiles
<1>2. At(t) = "none"
  BY DEF Page!SendWithFiles, Page!Next1, Page!In, At
<1>3. /\ messages \in Seq(PageMessage) /\ chat \in Nat /\ Page!User(t) \in PageMessage
      /\ ~Page!User(t).pending
  BY DEF PageInv, PageTypeOK, Page!User, PageMessage
<1>4. Append(messages, Page!User(t)) \in Seq(PageMessage)
  BY <1>3
<1>5. PICK begun \in PageTurn : /\ turn' = [turn EXCEPT ![t] = begun]
                                /\ begun.at = "uploading" /\ begun.asks = None /\ begun.found = None
                                /\ begun.chat = chat /\ begun.history = Append(messages, Page!User(t))
  <2> DEFINE begun == [Page!NoTurn EXCEPT !.at = "uploading", !.chat = chat,
                                          !.history = Append(messages, Page!User(t))]
  <2>1. turn' = [turn EXCEPT ![t] = begun]
    BY DEF Page!SendWithFiles
  <2>2. /\ begun \in PageTurn
        /\ begun.at = "uploading" /\ begun.asks = None /\ begun.found = None
        /\ begun.chat = chat /\ begun.history = Append(messages, Page!User(t))
    BY <1>3, <1>4 DEF Page!NoTurn, PageTurn, PagePlaces, PageConversation
  <2> HIDE DEF begun
  <2> QED
    BY <2>1, <2>2
<1>6. /\ turn' \in [Turn -> PageTurn] /\ turn'[t] = begun
      /\ \A u \in Turn \ {t} : turn'[u] = turn[u]
  BY <1>5 DEF PageInv, PageTypeOK
<1>7. /\ At(t)' = "uploading" /\ ChatOf(t)' = chat
      /\ \A u \in Turn \ {t} : At(u)' = At(u) /\ ChatOf(u)' = ChatOf(u)
  BY <1>5, <1>6 DEF At, ChatOf
<1>8. Page!Running' = Page!Running /\ Page!Unfinished' = Page!Unfinished \cup {t} /\ t \notin Page!Unfinished
  BY <1>2, <1>5, <1>6 DEF Page!Running, Page!Unfinished, Page!In, At
<1>9. /\ recorded[t] = None /\ t \notin gateway /\ t \notin Page!Running
      /\ \A d, n : Opened(d, n) => d # t
      /\ \A list \in Seq(PageMessage) : PlaceholdersWait(list) =>
           \A i \in DOMAIN list : list[i].pending => list[i].turn \in Turn \ {t}
  BY <1>2, BegunFrom
<1>10. PageTypeOK'
  BY <1>1, <1>6 DEF PageInv, PageTypeOK
<1>11. TurnsAreBegun'
  BY <1>1, <1>3, <1>7, <1>8, <1>9 DEF PageInv, TurnsAreBegun
<1>12. OneUnfinished'
  BY <1>1, <1>8 DEF OneUnfinished
<1>13. StopIsShown'
  <2> SUFFICES ASSUME ~crossed, Page!Unfinished = {}, "broken" \notin upsets
               PROVE  StopIsShown'
    BY <1>1 DEF StopIsShown
  <2>1. Page!Running' = {} /\ ~streaming'
    BY <1>1, <1>8 DEF Page!Running, Page!Unfinished, Page!In
  <2>2. PlaceholdersWait(messages)
    BY DEF PageInv, StopIsShown
  <2>3. \A i \in DOMAIN messages : messages[i].pending =>
          messages[i].role = "assistant" /\ At(messages[i].turn)' \in {"running", "aborted"}
    <3>1. \A i \in DOMAIN messages : messages[i].pending => messages[i].turn \in Turn \ {t}
      BY <2>2, <1>3, <1>9
    <3>2. \A i \in DOMAIN messages : messages[i].pending =>
            messages[i].role = "assistant" /\ At(messages[i].turn) \in {"running", "aborted"}
      BY <2>2 DEF PlaceholdersWait
    <3> QED
      BY <3>1, <3>2, <1>1, <1>7
  <2>4. PlaceholdersWait(messages)'
    BY <2>3, <1>1 DEF PlaceholdersWait, At
  <2>5. turn'[t].history = Append(messages, Page!User(t))
    BY <1>5, <1>6
  <2>6. \A i \in DOMAIN Append(messages, Page!User(t)) :
          \/ ~Append(messages, Page!User(t))[i].pending
          \/ i \in DOMAIN messages /\ Append(messages, Page!User(t))[i] = messages[i]
    BY <1>3
  <2>7. \A i \in DOMAIN turn'[t].history : turn'[t].history[i].pending =>
          i \in DOMAIN messages /\ turn'[t].history[i] = messages[i]
    BY <2>5, <2>6
  <2>8. PlaceholdersWait(turn[t].history)'
    <3>1. ASSUME NEW i \in DOMAIN turn'[t].history, turn'[t].history[i].pending
          PROVE  /\ turn'[t].history[i].role = "assistant"
                 /\ turn'[turn'[t].history[i].turn].at \in {"running", "aborted"}
      <4>1. i \in DOMAIN messages /\ turn'[t].history[i] = messages[i] /\ messages[i].pending
        BY <2>7, <3>1
      <4> QED
        BY <4>1, <2>3, <1>1 DEF At
    <3> QED
      BY <3>1 DEF PlaceholdersWait, At
  <2>9. \A u \in Turn : At(u)' = "uploading" => u = t
    BY <1>7 DEF Page!Unfinished, Page!In, At
  <2> QED
    BY <2>1, <2>4, <2>8, <2>9 DEF StopIsShown
<1>14. TabIsElsewhere' /\ EarlierIsOlder'
  <2>1. TabIsElsewhere'
    BY <1>1, <1>5, <1>6, PageAssumption DEF PageInv, TabIsElsewhere
  <2>2. EarlierIsOlder'
    BY <1>1, <1>5, <1>6, <1>7, <1>8, <1>9, PageAssumption DEF PageInv, EarlierIsOlder
  <2> QED
    BY <2>1, <2>2
<1>15. ChatsAreApart'
  <2> SUFFICES ASSUME hasty = {}, upsets \cap {"late", "unrecorded", "elsewhere"} = {}
               PROVE  ChatsAreApart'
    BY <1>1 DEF ChatsAreApart
  <2>1. \A d, n : Opened(d, n) => Opened(d, n)'
    BY <1>1, <1>7, <1>9 DEF Opened
  <2>2. conversationRef' # None => Opened(conversationRef, chat)'
    BY <1>1, <2>1 DEF PageInv, ChatsAreApart
  <2>3. turn'[t].asks = None /\ turn'[t].found = None /\ recorded'[t] = None
    BY <1>1, <1>5, <1>6, <1>9
  <2>4. \A u \in Turn \ {t} : /\ turn'[u].asks # None => Opened(turn[u].asks, ChatOf(u))'
                              /\ turn'[u].found # None => Opened(turn[u].found, ChatOf(u))'
                              /\ recorded'[u] # None => Opened(recorded[u], ChatOf(u))'
    <3>1. \A u \in Turn \ {t} : /\ turn[u].asks # None => Opened(turn[u].asks, ChatOf(u))
                                /\ turn[u].found # None => Opened(turn[u].found, ChatOf(u))
                                /\ recorded[u] # None => Opened(recorded[u], ChatOf(u))
      BY DEF PageInv, ChatsAreApart
    <3> QED
      BY <3>1, <2>1, <1>1, <1>6, <1>7
  <2>5. \A u \in Turn : /\ u \in Page!Running' /\ u \notin gateway' => recorded'[u] # None
                        /\ At(u)' = "ended" => recorded'[u] # None
                        /\ recorded'[u] # None /\ ChatOf(u)' = chat' => recent' # None /\ Opened(recent, chat)'
    <3>1. \A u \in Turn : /\ u \in Page!Running /\ u \notin gateway => recorded[u] # None
                          /\ At(u) = "ended" => recorded[u] # None
                          /\ recorded[u] # None /\ ChatOf(u) = chat => recent # None /\ Opened(recent, chat)
      BY DEF PageInv, ChatsAreApart
    <3>2. Opened(recent, chat) => Opened(recent, chat)'
      BY <2>1, <1>1
    <3>3. t \notin Page!Running' /\ At(t)' # "ended" /\ recorded'[t] = None
      BY <1>1, <1>7, <1>8, <1>9
    <3> QED
      BY <3>1, <3>2, <3>3, <1>1, <1>7, <1>8
  <2> QED
    BY <2>2, <2>3, <2>4, <2>5 DEF ChatsAreApart
<1>16. ChatsAreWhole'
  <2> SUFFICES ASSUME ~crossed, Page!Unfinished = {}, hasty = {},
                      upsets \cap {"stopped", "error", "broken", "elsewhere"} = {}
               PROVE  ChatsAreWhole'
    BY <1>1 DEF ChatsAreWhole
  <2>1. Page!Running = {} /\ Page!Running' = {} /\ gateway' = {}
    <3>1. Page!Running = {}
      BY DEF Page!Running, Page!Unfinished, Page!In
    <3> QED
      BY <3>1, <1>1, <1>8 DEF PageInv, ChatsAreWhole
  <2>2. \A u, v \in Turn : Seen(u) /\ Seen(v) /\ ChatOf(u) = ChatOf(v) => recorded[u] = recorded[v]
    BY DEF PageInv, ChatsAreWhole
  <2>4. \A u \in Turn : Seen(u)' => u # t /\ Seen(u)
    BY <1>1, <1>6, <1>9 DEF Seen, Page!OpensUnseen
  <2>5. \A u, v \in Turn : Seen(u)' /\ Seen(v)' /\ ChatOf(u)' = ChatOf(v)' => recorded'[u] = recorded'[v]
    BY <1>1, <1>7, <2>2, <2>4
  <2>6. \A u \in Turn : Seen(u)' /\ ChatOf(u)' = chat' => recorded'[u] = conversationRef'
    <3>1. \A u \in Turn : Seen(u) /\ ChatOf(u) = chat => recorded[u] = conversationRef
      BY DEF PageInv, ChatsAreWhole
    <3> QED
      BY <3>1, <2>4, <1>1, <1>7
  <2>7. \A u \in Turn : At(u)' \notin {"ended", "listing"}
    BY <1>7 DEF Page!Unfinished, Page!In, At
  <2> QED
    BY <2>1, <2>5, <2>6, <2>7 DEF ChatsAreWhole
<1> QED
  BY <1>10, <1>11, <1>12, <1>13, <1>14, <1>15, <1>16 DEF PageInv

LEMMA UploadedKeeps ==
    ASSUME PageInv, NEW t \in Turn, Page!Uploaded(t)
    PROVE  PageInv'
<1>1. At(t) = "uploading" /\ Page!RunCompletion(t, turn[t].history, ChatOf(t))
  BY DEF Page!Uploaded, Page!In, At, ChatOf
<1>2. turn[t].history \in Seq(PageMessage) /\ ChatOf(t) \in Nat
  <2>1. turn[t] \in PageTurn
    BY DEF PageInv, PageTypeOK
  <2> QED
    BY <2>1 DEF PageTurn, ChatOf
<1>3. ChatOf(t) <= chat /\ (hasty = {} => ChatOf(t) = chat)
  BY <1>1 DEF PageInv, TurnsAreBegun, Page!Unfinished, Page!In, At
<1>4. ~crossed /\ "broken" \notin upsets => PlaceholdersWait(turn[t].history)
  BY <1>1 DEF PageInv, StopIsShown
<1> QED
  BY <1>1, <1>2, <1>3, <1>4, RunKeeps

\* onSend, onEditUser and onRegenerate hand on messages that were on the page.
LEMMA ClickedKeeps ==
    ASSUME PageInv, NEW t \in Turn,
           \/ Page!Send(t)
           \/ \E i \in DOMAIN messages : Page!Edit(t, i) \/ Page!Regenerate(t, i)
    PROVE  PageInv'
<1>1. messages \in Seq(PageMessage) /\ chat \in Nat
  BY DEF PageInv, PageTypeOK
<1>2. At(t) = "none"
  BY DEF Page!Send, Page!Edit, Page!Regenerate, Page!Next1, Page!In, At
<1>3. ~crossed /\ "broken" \notin upsets => PlaceholdersWait(messages)
  BY DEF PageInv, StopIsShown
<1>4. CASE Page!Send(t)
  <2>1. Page!User(t) \in PageMessage /\ ~Page!User(t).pending
    BY DEF Page!User, PageMessage
  <2>2. Append(messages, Page!User(t)) \in Seq(PageMessage)
    BY <1>1, <2>1
  <2>3. \A i \in DOMAIN Append(messages, Page!User(t)) :
          \/ ~Append(messages, Page!User(t))[i].pending
          \/ i \in DOMAIN messages /\ Append(messages, Page!User(t))[i] = messages[i]
    BY <1>1, <2>1
  <2>4. PlaceholdersWait(messages) => PlaceholdersWait(Append(messages, Page!User(t)))
    BY <2>3 DEF PlaceholdersWait
  <2>5. Page!RunCompletion(t, Append(messages, Page!User(t)), chat)
    BY <1>4 DEF Page!Send
  <2>6. ~crossed /\ "broken" \notin upsets => PlaceholdersWait(Append(messages, Page!User(t)))
    BY <1>3, <2>4
  <2>7. chat <= chat /\ (hasty = {} => chat = chat) /\ At(t) \in {"none", "uploading"}
    BY <1>1, <1>2
  <2> QED
    BY <1>1, <1>2, <2>2, <2>6, <2>5, <2>7, RunKeeps
<1>5. CASE \E i \in DOMAIN messages : Page!Edit(t, i) \/ Page!Regenerate(t, i)
  <2>1. PICK i \in DOMAIN messages : Page!Edit(t, i) \/ Page!Regenerate(t, i)
    BY <1>5
  <2>2. PICK n \in 0 .. Len(messages) : Page!RunCompletion(t, SubSeq(messages, 1, n), chat)
    <3>1. i \in 1 .. Len(messages) /\ Len(messages) \in Nat
      BY <1>1
    <3>2. i \in 0 .. Len(messages) /\ i - 1 \in 0 .. Len(messages)
      BY <3>1
    <3> QED
      BY <2>1, <3>2 DEF Page!Edit, Page!Regenerate
  <2>3. /\ SubSeq(messages, 1, n) \in Seq(PageMessage) /\ DOMAIN SubSeq(messages, 1, n) \subseteq DOMAIN messages
        /\ \A j \in DOMAIN SubSeq(messages, 1, n) : SubSeq(messages, 1, n)[j] = messages[j]
    BY <1>1
  <2>4. PlaceholdersWait(messages) => PlaceholdersWait(SubSeq(messages, 1, n))
    BY <2>3 DEF PlaceholdersWait
  <2>5. ~crossed /\ "broken" \notin upsets => PlaceholdersWait(SubSeq(messages, 1, n))
    BY <1>3, <2>4
  <2>6. chat <= chat /\ (hasty = {} => chat = chat) /\ At(t) \in {"none", "uploading"}
    BY <1>1, <1>2
  <2> QED
    BY <1>1, <2>2, <2>3, <2>5, <2>6, RunKeeps
<1> QED
  BY <1>4, <1>5

LEMMA PageStepKeeps ==
    ASSUME PageInv, [Page!Next]_(Page!vars)
    PROVE  PageInv'
<1>1. CASE UNCHANGED Page!vars
  <2>1. /\ UNCHANGED <<messages, streaming, abortRef, conversationRef, turn, recorded, gateway, recent, chat,
                       hasty, crossed, upsets>>
    BY <1>1 DEF Page!vars
  <2>2. PageTypeOK' /\ TurnsAreBegun' /\ OneUnfinished'
    BY <2>1 DEF PageInv, PageTypeOK, TurnsAreBegun, OneUnfinished, Page!Unfinished, Page!In, At, ChatOf
  <2>3. StopIsShown'
    BY <2>1 DEF PageInv, StopIsShown, PlaceholdersWait, Page!Running, Page!In, Page!Assistant, At, ChatOf
  <2>4. TabIsElsewhere' /\ ChatsAreApart' /\ EarlierIsOlder'
    BY <2>1 DEF PageInv, TabIsElsewhere, ChatsAreApart, EarlierIsOlder, Opened, Page!Running, Page!In, At, ChatOf
  <2>5. ChatsAreWhole'
    BY <2>1 DEF PageInv, ChatsAreWhole, Seen, Page!OpensUnseen, Page!Running, Page!Unfinished, Page!In, At, ChatOf
  <2> QED
    BY <2>2, <2>3, <2>4, <2>5 DEF PageInv
<1>2. CASE Page!Stop \/ Page!NewChat \/ Page!Elsewhere
  BY <1>2, StopKeeps, NewChatKeeps, ElsewhereKeeps
<1>3. ASSUME NEW t \in Turn,
             \/ Page!SendWithFiles(t) \/ Page!Uploaded(t) \/ Page!Send(t)
             \/ \E i \in DOMAIN messages : Page!Edit(t, i) \/ Page!Regenerate(t, i)
             \/ Page!AdvancedEnds(t) \/ Page!AdvancedFails(t) \/ Page!StreamEnds(t) \/ Page!StreamBreaks(t)
             \/ Page!ListConversations(t) \/ Page!Discover(t) \/ Page!Record(t)
      PROVE  PageInv'
  BY <1>3, SendWithFilesKeeps, UploadedKeeps, ClickedKeeps, AdvancedEndsKeeps, AdvancedFailsKeeps,
     StreamEndsKeeps, StreamBreaksKeeps, ListConversationsKeeps, DiscoverKeeps, RecordKeeps
<1> QED
  BY <1>1, <1>2, <1>3 DEF Page!Next

LEMMA PageOfStep ==
    ASSUME [MCNext]_allVars
    PROVE  [Page!Next]_(Page!vars)
BY DEF MCNext, AccountsStep, McpStep, DocumentsStep, ServerStep, PageStep, ModelsStep, SelectionStep,
       DatasetsStep, FeedbackStep, allVars, pageVars, Page!vars

LEMMA PageInvHolds == MCSpec => []PageInv
<1>1. MCInit => PageInv
  BY PageInitHolds DEF MCInit
<1>2. PageInv /\ [MCNext]_allVars => PageInv'
  BY PageOfStep, PageStepKeeps
<1> QED
  BY <1>1, <1>2, PTL DEF MCSpec

\* runCompletion, conversationRef and New chat, for any turns: two chats share a
\* conversation, or a chat is split, only after what the property names.
THEOREM ChatsHold == MCSpec => []ConversationPerChat
<1>1. PageInv => ConversationPerChat
  <2> SUFFICES ASSUME PageInv, NEW t \in Turn, NEW u \in Turn, recorded[t] # None, recorded[u] # None
               PROVE  /\ recorded[t] = recorded[u] /\ turn[t].chat # turn[u].chat =>
                           hasty # {} \/ upsets \cap {"late", "unrecorded", "elsewhere"} # {}
                      /\ recorded[t] # recorded[u] /\ turn[t].chat = turn[u].chat =>
                           \/ crossed \/ hasty # {}
                           \/ upsets \cap {"stopped", "error", "broken", "elsewhere"} # {}
                           \/ Page!OpensUnseen(t) \/ Page!OpensUnseen(u)
                      /\ recorded[t] = OtherTab => "elsewhere" \in upsets
                      /\ recorded[t] = Earlier => "unrecorded" \in upsets
    BY DEF ConversationPerChat, Page!ConversationPerChat, Page!Recorded
  \* A conversation was opened in one chat.
  <2>1. hasty = {} /\ upsets \cap {"late", "unrecorded", "elsewhere"} = {} /\ recorded[t] = recorded[u]
          => turn[t].chat = turn[u].chat
    BY DEF PageInv, ChatsAreApart, Opened, ChatOf
  <2>2. ~crossed /\ hasty = {} /\ upsets \cap {"stopped", "error", "broken", "elsewhere"} = {}
          /\ ~Page!OpensUnseen(t) /\ ~Page!OpensUnseen(u) /\ turn[t].chat = turn[u].chat
          => recorded[t] = recorded[u]
    BY DEF PageInv, ChatsAreWhole, Seen, ChatOf
  <2>3. (recorded[t] = OtherTab => "elsewhere" \in upsets) /\ (recorded[t] = Earlier => "unrecorded" \in upsets)
    BY DEF PageInv, TabIsElsewhere, EarlierIsOlder
  <2> QED
    BY <2>1, <2>2, <2>3
<1> QED
  BY <1>1, PageInvHolds, PTL

\* stop and the ends of runCompletion, for any turns: Stop is shown exactly while
\* a turn runs and reaches it, while turns do not overlap and nothing breaks.
THEOREM StopHolds == MCSpec => []StopReachesTheTurn
<1>1. PageInv => StopReachesTheTurn
  <2> SUFFICES ASSUME PageInv, ~crossed, "broken" \notin upsets
               PROVE  Page!StopReachesTheTurn
    BY DEF StopReachesTheTurn, Page!StopReachesTheTurn
  <2>1. /\ streaming <=> Page!Running # {}
        /\ \A t \in Page!Running :
             /\ abortRef = t
             /\ turn[t].chat = chat => \E i \in DOMAIN messages : messages[i] = Page!Assistant(t)
    BY DEF PageInv, StopIsShown, ChatOf
  <2>2. \A i \in DOMAIN messages : messages[i].pending => Page!In(messages[i].turn, {"running", "aborted"})
    BY DEF PageInv, StopIsShown, PlaceholdersWait, Page!In, At
  <2> QED
    BY <2>1, <2>2 DEF Page!StopReachesTheTurn
<1> QED
  BY <1>1, PageInvHolds, PTL

-----------------------------------------------------------------------------
(* Documents and re-indexed conversations (Documents).                      *)

DocJob == 1 .. 3
DocPlaces == Doc!InJob \cup {"begin", "refused", "done", "failed"}
Active == {"delete", "embed", "add"}

DocTypeOK ==
    /\ jobAt \in [DocJob -> DocPlaces]
    /\ doomed = [j \in DocJob |-> doomed[j]]
    /\ dim = [j \in DocJob |-> dim[j]]

\* A source is an upload's or a conversation's.
SourcesAreApart == \A i, j \in DocJob : Doc!Same(i, j) => (Doc!Uploads(i) <=> Doc!Uploads(j))

Mine(j) == {r \in rows : r.source = plan[j].source /\ r.user = plan[j].user}

DoomedAreOwn == \A j \in DocJob : \A r \in doomed[j] : r.source = plan[j].source /\ r.user = plan[j].user

Whose(j) == ~Doc!Uploads(j) /\ plan[j].source \notin raced

\* A conversation that no two runs were at together is as its run has it: a run
\* drops the rows it has selected, which are all, and then there are none.
RunsTakeTurns ==
    \A j \in DocJob : Whose(j) =>
        /\ jobAt[j] \in Active => \A i \in DocJob \ {j} : Doc!Same(i, j) => jobAt[i] \notin Active
        /\ jobAt[j] = "delete" => doomed[j] = Mine(j)
        /\ jobAt[j] \in {"embed", "add"} => Mine(j) = {}
        /\ \/ Mine(j) = {}
           \/ \E i \in DocJob : /\ Doc!Same(i, j) /\ ~Doc!Uploads(i) /\ jobAt[i] = "done"
                                /\ Mine(j) = Doc!RowsOf(i)

DocInv == DocTypeOK /\ SourcesAreApart /\ DoomedAreOwn /\ RunsTakeTurns

LEMMA PlansAreApart ==
    ASSUME plan \in Plans
    PROVE  SourcesAreApart
<1>1. \A text, n, o : /\ Upload(text, n, o).kind = "document" /\ Upload(text, n, o).source = "d"
                      /\ ReIndex(text).kind = "conversation" /\ ReIndex(text).source = "c"
  BY DEF Upload, ReIndex
<1>2. Blanks.kind = "document" /\ Blanks.source = "e"
  BY DEF Blanks, Upload
<1>3. /\ plan[1].kind = "document" <=> plan[1].source \in {"d", "e"}
      /\ plan[2].kind = "document" <=> plan[2].source \in {"d", "e"}
      /\ plan[3].kind = "document" <=> plan[3].source \in {"d", "e"}
  <2>1. \/ \E x, y, z : plan = <<Upload(x, y, z), Blanks, Blanks>>
        \/ \E x, y, z : plan = <<ReIndex(x), ReIndex(y), ReIndex(z)>>
        \/ \E x, y, a, b, c : plan = <<ReIndex(x), ReIndex(y), Upload(a, b, c)>>
    BY DEF Plans
  <2> QED
    BY <1>1, <1>2, <2>1
<1> QED
  BY <1>3 DEF SourcesAreApart, DocJob, Doc!Same, Doc!Uploads

LEMMA DocInitHolds ==
    ASSUME NEW plans, Doc!InitIn(plans), SourcesAreApart
    PROVE  DocInv
<1>1. SourcesAreApart
  OBVIOUS
<1>2. /\ jobAt = [j \in DocJob |-> "begin"] /\ rows = {} /\ doomed = [j \in DocJob |-> {}]
      /\ dim = [j \in DocJob |-> Doc!Least(Dimension)]
  BY DEF Doc!InitIn, DocJob
<1>3. DocTypeOK
  BY <1>2 DEF DocTypeOK, DocPlaces
<1>4. DoomedAreOwn
  BY <1>2 DEF DoomedAreOwn
<1>5. RunsTakeTurns
  BY <1>2 DEF RunsTakeTurns, Mine, Active
<1> QED
  BY <1>1, <1>3, <1>4, <1>5 DEF DocInv

\* One job goes to another place; what is planned stays.
DocMoves(j, place) ==
    /\ plan' = plan /\ jobAt' \in [DocJob -> DocPlaces] /\ jobAt'[j] = place
    /\ \A i \in DocJob \ {j} : jobAt'[i] = jobAt[i]

LEMMA DocGotoIs ==
    ASSUME DocTypeOK, NEW j \in DocJob, NEW place \in DocPlaces, Doc!Goto(j, place), plan' = plan
    PROVE  DocMoves(j, place)
BY DEF DocTypeOK, DocMoves, Doc!Goto

LEMMA PlanStays ==
    ASSUME plan' = plan
    PROVE  /\ \A i, j : Doc!Same(i, j)' <=> Doc!Same(i, j)
           /\ \A j : Doc!Uploads(j)' <=> Doc!Uploads(j)
           /\ SourcesAreApart => SourcesAreApart'
           /\ \A j : raced \subseteq raced' /\ Whose(j)' => Whose(j)
           /\ \A j : dim' = dim => Doc!RowsOf(j)' = Doc!RowsOf(j)
           /\ \A j : rows' = rows => Mine(j)' = Mine(j)
<1>1. /\ \A i, j : Doc!Same(i, j)' <=> Doc!Same(i, j)
      /\ \A j : Doc!Uploads(j)' <=> Doc!Uploads(j)
  BY DEF Doc!Same, Doc!Uploads
<1>2. \A j : raced \subseteq raced' /\ Whose(j)' => Whose(j)
  BY <1>1 DEF Whose
<1>3. \A j : dim' = dim => Doc!RowsOf(j)' = Doc!RowsOf(j)
  BY DEF Doc!RowsOf, Doc!ChunksOf, Doc!SizeOf, Doc!OverOf
<1>4. \A j : rows' = rows => Mine(j)' = Mine(j)
  BY DEF Mine
<1> QED
  BY <1>1, <1>2, <1>3, <1>4 DEF SourcesAreApart

\* The steps before the rows are touched, and a failure.
LEMMA DocElsewhereKeeps ==
    ASSUME DocInv, NEW j \in DocJob, NEW place \in DocPlaces \ (Active \cup {"done"}), DocMoves(j, place),
           jobAt[j] # "done", UNCHANGED <<rows, doomed, dim, raced>>
    PROVE  DocInv'
<1>1. DocTypeOK'
  BY DEF DocInv, DocTypeOK, DocMoves
<1>2. plan' = plan
  BY DEF DocMoves
<1>3. DoomedAreOwn'
  BY <1>2 DEF DocInv, DoomedAreOwn
<1>4. RunsTakeTurns'
  <2>1. ASSUME NEW k \in DocJob, Whose(k)'
        PROVE  /\ jobAt'[k] \in Active => \A i \in DocJob \ {k} : Doc!Same(i, k) => jobAt'[i] \notin Active
               /\ jobAt'[k] = "delete" => doomed[k] = Mine(k)
               /\ jobAt'[k] \in {"embed", "add"} => Mine(k) = {}
               /\ \/ Mine(k) = {}
                  \/ \E i \in DocJob : /\ Doc!Same(i, k) /\ ~Doc!Uploads(i) /\ jobAt'[i] = "done"
                                       /\ Mine(k) = Doc!RowsOf(i)
    <3>1. Whose(k)
      BY <2>1, <1>2, PlanStays
    <3> QED
      BY <3>1 DEF DocInv, RunsTakeTurns, DocMoves, Active
  <2> QED
    BY <2>1, <1>2, PlanStays DEF RunsTakeTurns
<1> QED
  BY <1>1, <1>2, <1>3, <1>4, PlanStays DEF DocInv


LEMMA DeleteSelectKeeps ==
    ASSUME DocInv, NEW j \in DocJob, Doc!DeleteSelect(j)
    PROVE  DocInv'
<1>1. /\ UNCHANGED <<plan, rows, dim>> /\ jobAt[j] \notin Active \cup {"done"} /\ raced \subseteq raced'
      /\ doomed' = [doomed EXCEPT ![j] = Doc!OldRows(j)]
      /\ Doc!Indexing(j) # {} => plan[j].source \in raced'
  BY DEF Doc!DeleteSelect, Active
<1>2. DocMoves(j, "delete")
  BY <1>1, DocGotoIs DEF DocInv, Doc!DeleteSelect, DocPlaces, Doc!InJob
<1>3. Doc!OldRows(j) = Mine(j)
  BY DEF Doc!OldRows, Mine
<1>4. doomed'[j] = Mine(j) /\ \A i \in DocJob \ {j} : doomed'[i] = doomed[i]
  BY <1>1, <1>3 DEF DocInv, DocTypeOK
<1>5. DocTypeOK'
  BY <1>1, <1>2 DEF DocInv, DocTypeOK, DocMoves
<1>6. DoomedAreOwn'
  BY <1>1, <1>4 DEF DocInv, DoomedAreOwn, Mine
<1>7. RunsTakeTurns'
  <2>1. ASSUME NEW k \in DocJob, Whose(k)'
        PROVE  /\ jobAt'[k] \in Active => \A i \in DocJob \ {k} : Doc!Same(i, k) => jobAt'[i] \notin Active
               /\ jobAt'[k] = "delete" => doomed'[k] = Mine(k)
               /\ jobAt'[k] \in {"embed", "add"} => Mine(k) = {}
               /\ \/ Mine(k) = {}
                  \/ \E i \in DocJob : /\ Doc!Same(i, k) /\ ~Doc!Uploads(i) /\ jobAt'[i] = "done"
                                       /\ Mine(k) = Doc!RowsOf(i)
    <3>1. Whose(k) /\ plan[k].source \notin raced'
      BY <2>1, <1>1, PlanStays DEF Whose
    \* Another run of the same conversation would have been a race.
    <3>2. ASSUME NEW i \in DocJob \ {j}, Doc!Same(i, j), Doc!Same(j, k) \/ k = j
          PROVE  jobAt[i] \notin Active
      BY <1>1, <3>1, <3>2 DEF Doc!Indexing, Doc!Same, Active, DocJob
    <3>3. jobAt'[k] \in Active => \A i \in DocJob \ {k} : Doc!Same(i, k) => jobAt'[i] \notin Active
      <4>1. CASE k = j
        BY <4>1, <3>2, <1>2 DEF DocMoves
      <4>2. CASE k # j
        <5>1. Doc!Same(j, k) => jobAt[k] \notin Active
          BY <4>2, <3>2 DEF Doc!Same
        <5> QED
          BY <4>2, <5>1, <3>1, <1>2 DEF DocInv, RunsTakeTurns, DocMoves
      <4> QED
        BY <4>1, <4>2
    <3>4. /\ jobAt'[k] = "delete" => doomed'[k] = Mine(k)
          /\ jobAt'[k] \in {"embed", "add"} => Mine(k) = {}
      BY <3>1, <1>2, <1>4 DEF DocInv, RunsTakeTurns, DocMoves
    <3>5. \/ Mine(k) = {}
          \/ \E i \in DocJob : /\ Doc!Same(i, k) /\ ~Doc!Uploads(i) /\ jobAt'[i] = "done"
                               /\ Mine(k) = Doc!RowsOf(i)
      BY <3>1, <1>1, <1>2 DEF DocInv, RunsTakeTurns, DocMoves
    <3> QED
      BY <3>3, <3>4, <3>5
  <2> QED
    BY <2>1, <1>1, PlanStays DEF RunsTakeTurns
<1> QED
  BY <1>1, <1>5, <1>6, <1>7, PlanStays DEF DocInv

\* A step of the only run of a conversation at its rows, or of another source.
LEMMA RunStepKeeps ==
    ASSUME DocInv, NEW j \in DocJob, jobAt[j] \in Active,
           NEW place \in {"embed", "add", "done"}, DocMoves(j, place), DocTypeOK', DoomedAreOwn',
           raced' = raced,
           \A i \in DocJob \ {j} : doomed'[i] = doomed[i] /\ Doc!RowsOf(i)' = Doc!RowsOf(i),
           \A k \in DocJob : Whose(k) /\ ~Doc!Same(j, k) => Mine(k)' = Mine(k),
           \A k \in DocJob : Whose(k) /\ Doc!Same(j, k) =>
               Mine(k)' = {} \/ (place = "done" /\ Mine(k)' = Doc!RowsOf(j)')
    PROVE  DocInv'
<1>1. plan' = plan
  BY DEF DocMoves
<1>2. ASSUME NEW k \in DocJob, Whose(k)'
      PROVE  /\ jobAt'[k] \in Active => \A i \in DocJob \ {k} : Doc!Same(i, k) => jobAt'[i] \notin Active
             /\ jobAt'[k] = "delete" => doomed'[k] = Mine(k)'
             /\ jobAt'[k] \in {"embed", "add"} => Mine(k)' = {}
             /\ \/ Mine(k)' = {}
                \/ \E i \in DocJob : /\ Doc!Same(i, k) /\ ~Doc!Uploads(i) /\ jobAt'[i] = "done"
                                     /\ Mine(k)' = Doc!RowsOf(i)'
  <2>1. Whose(k)
    BY <1>1, <1>2, PlanStays
  <2>2. CASE ~Doc!Same(j, k)
    <3>1. k # j
      BY <2>2 DEF Doc!Same
    <3>2. Mine(k)' = Mine(k)
      BY <2>1, <2>2
    <3>3. \A i \in DocJob : Doc!Same(i, k) => i # j /\ jobAt'[i] = jobAt[i] /\ Doc!RowsOf(i)' = Doc!RowsOf(i)
      BY <2>2 DEF DocMoves
    <3> QED
      BY <2>1, <3>1, <3>2, <3>3 DEF DocInv, RunsTakeTurns, DocMoves
  <2>3. CASE Doc!Same(j, k)
    <3>1. ~Doc!Uploads(j) /\ Whose(j)
      BY <2>1, <2>3 DEF DocInv, SourcesAreApart, Whose, Doc!Same
    <3>2. \A i \in DocJob \ {j} : Doc!Same(i, k) => Doc!Same(i, j)
      BY <2>3 DEF Doc!Same
    <3>3. \A i \in DocJob \ {j} : Doc!Same(i, k) => jobAt'[i] \notin Active
      BY <3>1, <3>2 DEF DocInv, RunsTakeTurns, DocMoves
    <3>4. k # j => jobAt'[k] \notin Active
      BY <3>3 DEF Doc!Same
    <3>5. Mine(k)' = {} \/ (place = "done" /\ Mine(k)' = Doc!RowsOf(j)')
      BY <2>1, <2>3
    <3>6. jobAt'[j] = place
      BY DEF DocMoves
    <3> QED
      BY <2>3, <3>1, <3>3, <3>4, <3>5, <3>6 DEF Active
  <2> QED
    BY <2>2, <2>3
<1>3. RunsTakeTurns'
  BY <1>1, <1>2, PlanStays DEF RunsTakeTurns
<1> QED
  BY <1>1, <1>3, PlanStays DEF DocInv

LEMMA DeleteCommitKeeps ==
    ASSUME DocInv, NEW j \in DocJob, Doc!DeleteCommit(j)
    PROVE  DocInv'
<1>1. /\ UNCHANGED <<plan, dim, raced>> /\ jobAt[j] = "delete"
      /\ rows' = rows \ doomed[j] /\ doomed' = [doomed EXCEPT ![j] = {}]
  BY DEF Doc!DeleteCommit
<1>2. PICK place \in {"embed", "done"} : DocMoves(j, place)
  <2>1. Doc!Goto(j, IF Doc!ChunksOf(plan[j]) = {} THEN "done" ELSE "embed")
    BY DEF Doc!DeleteCommit
  <2>2. PICK place \in {"embed", "done"} : Doc!Goto(j, place)
    BY <2>1
  <2> QED
    BY <1>1, <2>2, DocGotoIs DEF DocInv, DocPlaces, Doc!InJob
<1>3. doomed'[j] = {} /\ \A i \in DocJob \ {j} : doomed'[i] = doomed[i]
  BY <1>1 DEF DocInv, DocTypeOK
<1>4. DocTypeOK'
  BY <1>1, <1>2 DEF DocInv, DocTypeOK, DocMoves
<1>5. DoomedAreOwn'
  BY <1>1, <1>3 DEF DocInv, DoomedAreOwn
<1>6. \A i : Doc!RowsOf(i)' = Doc!RowsOf(i)
  BY <1>1, PlanStays
<1>7. ASSUME NEW k \in DocJob, Whose(k), ~Doc!Same(j, k)
      PROVE  Mine(k)' = Mine(k)
  BY <1>1, <1>7 DEF DocInv, DoomedAreOwn, Doc!Same, Mine
<1>8. ASSUME NEW k \in DocJob, Whose(k), Doc!Same(j, k)
      PROVE  Mine(k)' = {}
  <2>1. Whose(j) /\ Mine(k) = Mine(j)
    BY <1>8 DEF DocInv, SourcesAreApart, Whose, Doc!Same, Mine
  <2>2. doomed[j] = Mine(k)
    BY <2>1, <1>1 DEF DocInv, RunsTakeTurns
  <2> QED
    BY <2>2, <1>1 DEF Mine
<1> QED
  BY <1>1, <1>2, <1>3, <1>4, <1>5, <1>6, <1>7, <1>8, RunStepKeeps DEF Active

LEMMA EmbedKeeps ==
    ASSUME DocInv, NEW j \in DocJob, Doc!Embed(j)
    PROVE  DocInv'
<1>1. /\ UNCHANGED <<plan, rows, doomed, raced>> /\ jobAt[j] = "embed"
      /\ \E d \in Dimension : dim' = [dim EXCEPT ![j] = d]
  BY DEF Doc!Embed
<1>2. DocMoves(j, "add")
  BY <1>1, DocGotoIs DEF DocInv, Doc!Embed, DocPlaces, Doc!InJob
<1>3. dim' = [i \in DocJob |-> dim'[i]] /\ \A i \in DocJob \ {j} : dim'[i] = dim[i]
  BY <1>1 DEF DocInv, DocTypeOK
<1>4. DocTypeOK'
  BY <1>1, <1>2, <1>3 DEF DocInv, DocTypeOK, DocMoves
<1>5. DoomedAreOwn'
  BY <1>1 DEF DocInv, DoomedAreOwn
<1>6. \A i \in DocJob \ {j} : Doc!RowsOf(i)' = Doc!RowsOf(i)
  BY <1>1, <1>3 DEF Doc!RowsOf, Doc!ChunksOf, Doc!SizeOf, Doc!OverOf
<1>7. \A k : Mine(k)' = Mine(k)
  BY <1>1 DEF Mine
<1>8. ASSUME NEW k \in DocJob, Whose(k), Doc!Same(j, k)
      PROVE  Mine(k)' = {}
  <2>1. Whose(j) /\ Mine(k) = Mine(j)
    BY <1>8 DEF DocInv, SourcesAreApart, Whose, Doc!Same, Mine
  <2> QED
    BY <2>1, <1>1, <1>7 DEF DocInv, RunsTakeTurns
<1> QED
  BY <1>1, <1>2, <1>4, <1>5, <1>6, <1>7, <1>8, RunStepKeeps DEF Active

LEMMA AddKeeps ==
    ASSUME DocInv, NEW j \in DocJob, Doc!Add(j)
    PROVE  DocInv'
<1>1. /\ UNCHANGED <<plan, doomed, dim, raced>> /\ jobAt[j] = "add" /\ rows' = rows \cup Doc!RowsOf(j)
  BY DEF Doc!Add
<1>2. DocMoves(j, "done")
  BY <1>1, DocGotoIs DEF DocInv, Doc!Add, DocPlaces, Doc!InJob
<1>3. DocTypeOK'
  BY <1>1, <1>2 DEF DocInv, DocTypeOK, DocMoves
<1>4. DoomedAreOwn'
  BY <1>1 DEF DocInv, DoomedAreOwn
<1>5. \A i : Doc!RowsOf(i)' = Doc!RowsOf(i)
  BY <1>1, PlanStays
<1>6. \A r \in Doc!RowsOf(j) : r.source = plan[j].source /\ r.user = plan[j].user
  BY DEF Doc!RowsOf
<1>7. ASSUME NEW k \in DocJob, Whose(k), ~Doc!Same(j, k)
      PROVE  Mine(k)' = Mine(k)
  BY <1>1, <1>6, <1>7 DEF Doc!Same, Mine
<1>8. ASSUME NEW k \in DocJob, Whose(k), Doc!Same(j, k)
      PROVE  Mine(k)' = Doc!RowsOf(j)'
  <2>1. Whose(j) /\ Mine(k) = Mine(j) /\ plan[k].source = plan[j].source /\ plan[k].user = plan[j].user
    BY <1>8 DEF DocInv, SourcesAreApart, Whose, Doc!Same, Mine
  <2>2. Mine(k) = {}
    BY <2>1, <1>1 DEF DocInv, RunsTakeTurns
  <2> QED
    BY <2>1, <2>2, <1>1, <1>5, <1>6 DEF Mine
<1> QED
  BY <1>1, <1>2, <1>3, <1>4, <1>5, <1>7, <1>8, RunStepKeeps DEF Active

LEMMA DocStepKeeps ==
    ASSUME DocInv, [Doc!Next]_(Doc!vars)
    PROVE  DocInv'
<1>1. CASE UNCHANGED Doc!vars
  <2>1. UNCHANGED <<plan, jobAt, rows, doomed, dim, raced>>
    BY <1>1 DEF Doc!vars
  <2>2. DocTypeOK' /\ DoomedAreOwn'
    BY <2>1 DEF DocInv, DocTypeOK, DoomedAreOwn
  <2>3. /\ \A i : Doc!RowsOf(i)' = Doc!RowsOf(i) /\ Mine(i)' = Mine(i) /\ (Whose(i)' => Whose(i))
        /\ \A i, k : Doc!Same(i, k)' <=> Doc!Same(i, k)
        /\ \A i : Doc!Uploads(i)' <=> Doc!Uploads(i)
        /\ SourcesAreApart'
    BY <2>1, PlanStays DEF DocInv
  <2>4. RunsTakeTurns'
    BY <2>1, <2>3 DEF DocInv, RunsTakeTurns
  <2> QED
    BY <2>2, <2>3, <2>4 DEF DocInv
<1>2. ASSUME NEW j \in DocJob, Doc!Parse(j) \/ Doc!WriteBin(j) \/ Doc!WriteMeta(j) \/ Doc!AddDocument(j) \/ Doc!Fail(j)
      PROVE  DocInv'
  <2>1. UNCHANGED <<plan, rows, doomed, dim, raced>> /\ jobAt[j] # "done"
    BY <1>2 DEF Doc!Parse, Doc!WriteBin, Doc!WriteMeta, Doc!AddDocument, Doc!Fail, Doc!InJob
  <2>2. PICK place \in {"refused", "bin", "meta", "row", "select", "failed"} : Doc!Goto(j, place)
    BY <1>2 DEF Doc!Parse, Doc!WriteBin, Doc!WriteMeta, Doc!AddDocument, Doc!Fail, Doc!AfterMeta
  <2>3. place \in DocPlaces \ (Active \cup {"done"})
    BY <2>2 DEF DocPlaces, Active, Doc!InJob
  <2> QED
    BY <2>1, <2>2, <2>3, DocGotoIs, DocElsewhereKeeps DEF DocInv
<1>3. ASSUME NEW j \in DocJob, Doc!DeleteSelect(j) \/ Doc!DeleteCommit(j) \/ Doc!Embed(j) \/ Doc!Add(j)
      PROVE  DocInv'
  BY <1>3, DeleteSelectKeeps, DeleteCommitKeeps, EmbedKeeps, AddKeeps
<1> QED
  BY <1>1, <1>2, <1>3 DEF Doc!Next, DocJob

\* index_conversation, for any rows, chunks and embeddings: the rows of a
\* conversation that no two runs were at together are those of one run.
THEOREM MemoryHolds == MCSpec => []MemoryIsOfOneRun
<1>1. MCInit => DocInv
  <2> SUFFICES ASSUME MCInit PROVE Doc!InitIn(Plans)
    BY DocInitHolds, PlansAreApart DEF Doc!InitIn
  <2>1. <<ReIndex(Long(3)), ReIndex(Long(6)), Upload(Long(5), 1, 0)>> \in Plans
    BY DEF Plans
  <2>2. Of("documents", Plans) \subseteq Plans
    BY <2>1, OfIsIn
  <2> QED
    BY <2>2 DEF MCInit, Doc!InitIn
<1>2. DocInv /\ [MCNext]_allVars => DocInv'
  <2>1. [MCNext]_allVars => [Doc!Next]_(Doc!vars)
    BY DEF MCNext, AccountsStep, McpStep, DocumentsStep, ServerStep, PageStep, ModelsStep, SelectionStep,
           DatasetsStep, FeedbackStep, allVars, documentVars, Doc!vars
  <2> QED
    BY <2>1, DocStepKeeps
<1>3. DocInv => MemoryIsOfOneRun
  BY DEF DocInv, RunsTakeTurns, Whose, Mine, MemoryIsOfOneRun, Doc!MemoryIsOfOneRun, Doc!Conversations, DocJob
<1> QED
  BY <1>1, <1>2, <1>3, PTL DEF MCSpec

-----------------------------------------------------------------------------
(* The hosted models (HostedModels).                                        *)

QueryOK == asked = Host!NoQuery \/ asked \in QueriesOf(host)

\* While a query is being answered, what its answer is made of was served since,
\* or is the Service's own.
ServedOK ==
    /\ asked # Host!NoQuery => law \in served
    /\ densities # {} =>
         /\ asked.route = "score" /\ host.kind = "mixle"
         /\ densities \subseteq served \cup IF host.service # {} THEN {host.service} ELSE {}
         /\ host.service # {} \/ (fresh => {"log_density", "seq_log_density"} \cap law # {})

ToldOK == fresh => told = Host!CapabilitiesOf

\* What a task model says of its input, it always says.
TaskSays ==
    /\ said = [e \in Host!TaskEndpoints |-> said[e]]
    /\ said["predict"] # Host!Nothing => said["predict"] = Host!TaskPredict(host.input)
    /\ said["chat"] # Host!Nothing => said["chat"] = Host!TaskChat(host.input)
    /\ said["decision"] # Host!Nothing => said["decision"] = Host!EscalationDecision(host.input)

ModelsInv ==
    /\ host \in Hosts
    /\ QueryOK
    /\ ServedOK
    /\ ToldOK
    /\ TaskSays
    /\ Host!AnswersAreHonest
    /\ Host!CapabilitiesAreHonest

LEMMA HostsAre ==
    ASSUME host \in Hosts
    PROVE  /\ host.kind \in {"mixle", "task", "plain"}
           /\ Host!Extractor => ~Host!Calibrated
<1>1. host.kind \in {"mixle", "task", "plain"} /\ host.task \in {{}} \cup TaskKinds
  BY DEF Hosts, OfKind
<1>2. host.task \in {{}, {"classifier"}, {"classifier", "calibrated"}, {"extractor"}}
  BY <1>1 DEF TaskKinds
<1>3. ~("extractor" \in host.task /\ "calibrated" \in host.task)
  BY <1>2
<1> QED
  BY <1>1, <1>3 DEF Host!Extractor, Host!Calibrated

LEMMA QueriesAre ==
    ASSUME NEW h, NEW q \in QueriesOf(h)
    PROVE  /\ q # Host!NoQuery /\ q.route # Host!Nothing
           /\ q.route = "predict" => q.records \in Batches
<1>1. \/ \E x \in {"capabilities", "elsewhere", "latent", "decision"} : q = [route |-> x]
      \/ \E b \in Batches : q = [route |-> "predict", records |-> b]
      \/ \E e \in BOOLEAN : q = [route |-> "score", encodes |-> e]
      \/ \E x : q = [route |-> "chat", text |-> x]
      \/ \E x, y, z : q = [route |-> "decide", over |-> x, loss |-> y, actions |-> z]
  BY DEF QueriesOf, Decides
<1>2. q.route # "-" /\ (q.route = "predict" => q.records \in Batches)
  BY <1>1
<1> QED
  BY <1>2 DEF Host!NoQuery, Host!Nothing

\* What is predicted of one record.
LEMMA RecordPredictionIs ==
    ASSUME NEW m, NEW r
    PROVE  /\ Host!RecordPrediction(m, r) \in {"error", "exact", "drawn", "refused"}
           /\ Host!RecordPrediction(m, r) = "refused" /\ {"cdf", "sampler"} \cap m # {} =>
                r = "context" /\ "conditions" \in m
           /\ Host!RecordPrediction(m, r) = "drawn" /\ "cdf" \in m => r = "context"
BY DEF Host!RecordPrediction, Host!Conditioned

LEMMA PredictiveBatchIs ==
    ASSUME NEW m, NEW records
    PROVE  /\ Host!PredictiveBatch(m, records).status = "ok" =>
                /\ Host!PredictiveBatch(m, records).parts = {m}
                /\ Host!PredictiveBatch(m, records).tag = "exact" =>
                     /\ "coarse" \notin m
                     /\ \A i \in DOMAIN Host!PredictiveBatch(m, records).how :
                          Host!PredictiveBatch(m, records).how[i] = "drawn" => records[i] = "context"
           /\ {"cdf", "sampler"} \cap m = {} => Host!PredictiveBatch(m, records).status = "refused"
           /\ records \in Batches /\ {"cdf", "sampler"} \cap m # {}
                /\ Host!PredictiveBatch(m, records).status = "refused" =>
                     "conditions" \in m /\ \E i \in DOMAIN records : records[i] = "context"
<1> DEFINE how == [i \in DOMAIN records |-> Host!RecordPrediction(m, records[i])]
           bad == {i \in DOMAIN how : how[i] \in {"error", "refused"}}
           first1 == how[CHOOSE i \in bad : \A j \in bad : i <= j]
           p == Host!PredictiveBatch(m, records)
           none == {"cdf", "sampler"} \cap m = {}
<1>1. p = IF (IF none THEN "refused" ELSE IF bad # {} THEN first1 ELSE "ok") = "ok"
          THEN [status |-> "ok", how |-> how, tag |-> Host!PredictiveSemantics(m), parts |-> {m}]
          ELSE [status |-> (IF none THEN "refused" ELSE IF bad # {} THEN first1 ELSE "ok"), how |-> <<>>,
                tag |-> Host!Nothing, parts |-> {}]
  BY DEF Host!PredictiveBatch
<1>2. \A i \in DOMAIN how : how[i] = "drawn" /\ "cdf" \in m => records[i] = "context"
  BY RecordPredictionIs
<1>3. Host!PredictiveSemantics(m) = "exact" => "cdf" \in m /\ "coarse" \notin m
  BY DEF Host!PredictiveSemantics
<1>4. ASSUME records \in Batches, ~none, bad # {}, first1 = "refused"
      PROVE  "conditions" \in m /\ \E i \in DOMAIN records : records[i] = "context"
  <2>1. DOMAIN records \subseteq {1, 2}
    BY <1>4 DEF Batches
  <2>2. \E i \in bad : \A j \in bad : i <= j
    <3>1. bad \subseteq {1, 2} /\ bad # {}
      BY <1>4, <2>1
    <3> HIDE DEF bad
    <3>2. CASE 1 \in bad
      BY <3>1, <3>2
    <3>3. CASE 1 \notin bad
      <4>1. bad = {2}
        BY <3>1, <3>3
      <4> QED
        BY <4>1
    <3> QED
      BY <3>2, <3>3
  <2>3. PICK i \in bad : first1 = how[i]
    BY <2>2
  <2>4. i \in DOMAIN records /\ Host!RecordPrediction(m, records[i]) = "refused"
    BY <1>4, <2>3
  <2> QED
    BY <1>4, <2>4, RecordPredictionIs
<1> HIDE DEF how, bad, first1
<1> QED
  BY <1>1, <1>2, <1>3, <1>4

\* A step that answers nothing, or no query of an endpoint.
LEMMA ModelsAskKeeps ==
    ASSUME ModelsInv, NEW q \in QueriesOf(host), Host!Ask(q)
    PROVE  ModelsInv'
<1>1. /\ UNCHANGED <<host, law, densities, told, fresh, said>> /\ asked = Host!NoQuery
      /\ asked' = q /\ served' = {law} /\ response' = Host!NoReply
  BY DEF Host!Ask
<1>2. densities = {}
  BY <1>1 DEF ModelsInv, ServedOK, Host!NoQuery, Host!Nothing
<1>3. QueryOK' /\ ServedOK'
  BY <1>1, <1>2 DEF QueryOK, ServedOK
<1>4. ToldOK' /\ TaskSays'
  BY <1>1 DEF ModelsInv, ToldOK, TaskSays, Host!CapabilitiesOf, Host!TaskCapabilities, Host!TaskPredict,
     Host!TaskChat, Host!EscalationDecision, Host!Extractor, Host!Calibrated
<1>5. Host!AnswersAreHonest' /\ Host!CapabilitiesAreHonest'
  BY <1>1 DEF Host!AnswersAreHonest, Host!CapabilitiesAreHonest, Host!NoReply, Host!NoQuery, Host!Nothing, Host!Query
<1> QED
  BY <1>1, <1>3, <1>4, <1>5 DEF ModelsInv

LEMMA PromoteKeeps ==
    ASSUME ModelsInv, NEW m, Host!Promote(m)
    PROVE  ModelsInv'
<1>1. /\ UNCHANGED <<host, asked, densities, told, response, said>>
      /\ law' = m /\ served' = served \cup {m} /\ ~fresh'
  BY DEF Host!Promote
<1>2. QueryOK' /\ ServedOK' /\ ToldOK'
  BY <1>1 DEF ModelsInv, QueryOK, ServedOK, ToldOK
<1>3. TaskSays'
  BY <1>1 DEF ModelsInv, TaskSays, Host!TaskPredict, Host!TaskChat, Host!EscalationDecision, Host!Extractor,
     Host!Calibrated
<1>4. Host!AnswersAreHonest'
  BY <1>1 DEF ModelsInv, Host!AnswersAreHonest, Host!OfService, Host!Query, Host!RecordsOf, Host!ParseRecords
<1>5. Host!CapabilitiesAreHonest'
  BY <1>1 DEF Host!CapabilitiesAreHonest
<1> QED
  BY <1>1, <1>2, <1>3, <1>4, <1>5 DEF ModelsInv

\* A step that answers the query, whose answer is as honest as its advertisement.
LEMMA ReplyKeeps ==
    ASSUME ModelsInv, NEW r, Host!Reply(r), UNCHANGED <<host, law, served, fresh, told>>, densities' = {},
           TaskSays', Host!AnswersAreHonest', Host!CapabilitiesAreHonest'
    PROVE  ModelsInv'
<1>1. asked' = Host!NoQuery
  BY DEF Host!Reply
<1>2. QueryOK' /\ ServedOK'
  BY <1>1 DEF QueryOK, ServedOK
<1>3. ToldOK'
  BY DEF ModelsInv, ToldOK, Host!CapabilitiesOf, Host!TaskCapabilities
<1> QED
  BY <1>2, <1>3 DEF ModelsInv

\* What is told of a task model stays as it was.
LEMMA TaskSaysStays ==
    ASSUME TaskSays, UNCHANGED <<host, said>>
    PROVE  TaskSays'
BY DEF TaskSays, Host!TaskPredict, Host!TaskChat, Host!EscalationDecision, Host!Extractor, Host!Calibrated

\* An answer of the model alone that is in no way exact.
LEMMA PlainIsHonest ==
    ASSUME ModelsInv, asked # Host!NoQuery, UNCHANGED <<host, served>>, NEW status,
           NEW parts \in SUBSET {law}, Host!Reply(Host!Plain(status, parts))
    PROVE  /\ Host!AnswersAreHonest'
           /\ response' = [query |-> asked, status |-> status, how |-> <<>>, tag |-> Host!Nothing, parts |-> parts]
<1>1. response' = [query |-> asked, status |-> status, how |-> <<>>, tag |-> Host!Nothing, parts |-> parts]
  BY DEF Host!Reply, Host!Plain
<1>2. law \in served
  BY DEF ModelsInv, ServedOK
<1> QED
  BY <1>1, <1>2 DEF Host!AnswersAreHonest, Host!Nothing

\* An answer to a query, as CapabilitiesAreHonest wants it.
AsTold(status) ==
    asked.route \in {"predict", "score", "latent", "decide", "chat"} =>
        IF asked.route \in told
        THEN status = "refused" =>
                 \/ /\ asked.route = "predict" /\ "conditions" \in law
                    /\ \E i \in DOMAIN asked.records : asked.records[i] = "context"
                 \/ asked.route = "score" /\ "log_density" \notin law
                 \/ asked.route = "decide" /\ asked.over = "params" /\ ~host.fitData
        ELSE \/ status = "refused"
             \/ asked.route = "score" /\ host.service # {}
             \/ asked.route = "decide" /\ (status = "ok" => asked.over # "predictive")

LEMMA ToldIsHonest ==
    ASSUME UNCHANGED <<host, law>>, NEW status, response'.query = asked, response'.status = status,
           fresh' => told' = told /\ AsTold(status)
    PROVE  Host!CapabilitiesAreHonest'
BY DEF AsTold, Host!CapabilitiesAreHonest, Host!OnASlice, Host!OfService, Host!Query

\* What is asked when a query is of one of the routes.
LEMMA AskedIs ==
    ASSUME ModelsInv, NEW route, Host!Asked(route), route # Host!Nothing
    PROVE  asked # Host!NoQuery /\ law \in served /\ (route = "predict" => asked.records \in Batches)
<1>1. asked # Host!NoQuery
  BY DEF Host!Asked, Host!NoQuery
<1> QED
  BY <1>1, QueriesAre DEF ModelsInv, QueryOK, ServedOK, Host!Asked

LEMMA ResolveKeeps ==
    ASSUME ModelsInv, Host!Resolve
    PROVE  ModelsInv'
<1>1. /\ asked.route = "elsewhere" /\ Host!Reply(Host!Plain("missing", {}))
      /\ UNCHANGED <<host, law, densities, told, fresh, served, said, queries>>
  BY DEF Host!Resolve, Host!Asked
<1>2. asked # Host!NoQuery /\ densities = {}
  BY <1>1, AskedIs DEF ModelsInv, ServedOK, Host!Asked, Host!Nothing
<1>3. Host!AnswersAreHonest' /\ response'.query = asked /\ response'.status = "missing"
  BY <1>1, <1>2, PlainIsHonest
<1>4. AsTold("missing")
  BY <1>1 DEF AsTold
<1> QED
  BY <1>1, <1>2, <1>3, <1>4, ReplyKeeps, ToldIsHonest, TaskSaysStays DEF ModelsInv

LEMMA TellKeeps ==
    ASSUME ModelsInv, Host!TellCapabilities
    PROVE  ModelsInv'
<1>1. /\ asked.route = "capabilities" /\ Host!Reply(Host!Plain("ok", {law})) /\ told' = Host!CapabilitiesOf
      /\ UNCHANGED <<host, law, densities, served, said, queries>>
  BY DEF Host!TellCapabilities, Host!Asked
<1>2. asked # Host!NoQuery /\ densities = {}
  BY <1>1, AskedIs DEF ModelsInv, ServedOK, Host!Asked, Host!Nothing
<1>3. Host!AnswersAreHonest' /\ response'.query = asked
  BY <1>1, <1>2, PlainIsHonest
<1>4. Host!CapabilitiesAreHonest'
  BY <1>1, <1>3 DEF Host!CapabilitiesAreHonest, Host!Query
<1>5. QueryOK' /\ ServedOK' /\ ToldOK' /\ TaskSays'
  BY <1>1, <1>2, TaskSaysStays DEF ModelsInv, QueryOK, ServedOK, ToldOK, Host!Reply, Host!CapabilitiesOf,
     Host!TaskCapabilities
<1> QED
  BY <1>1, <1>3, <1>4, <1>5 DEF ModelsInv

\* predict and chat answer with what is predicted of the records, or in words.
LEMMA PredictionIsHonest ==
    ASSUME ModelsInv, asked # Host!NoQuery, UNCHANGED <<host, served>>, NEW records,
           Host!RecordsOf(asked) = records, Host!Reply(Host!PredictiveBatch(law, records))
    PROVE  Host!AnswersAreHonest' /\ response'.query = asked
               /\ response'.status = Host!PredictiveBatch(law, records).status
<1> DEFINE p == Host!PredictiveBatch(law, records)
<1>1. response' = [query |-> asked, status |-> p.status, how |-> p.how, tag |-> p.tag, parts |-> p.parts]
  BY DEF Host!Reply
<1>2. law \in served
  BY DEF ModelsInv, ServedOK
<1>3. p.status = "ok" => /\ p.parts = {law}
                         /\ p.tag = "exact" => /\ "coarse" \notin law
                                               /\ \A i \in DOMAIN p.how : p.how[i] = "drawn" => records[i] = "context"
  BY PredictiveBatchIs
<1> HIDE DEF p
<1>4. p.status = "ok" =>
        /\ {law} \subseteq served'
        /\ p.tag = "exact" =>
             /\ \E m \in {law} : "coarse" \notin m
             /\ \A i \in DOMAIN p.how : p.how[i] = "drawn" => records[i] = "context"
  BY <1>2, <1>3
<1>5. Host!AnswersAreHonest'
  BY <1>1, <1>3, <1>4 DEF Host!AnswersAreHonest, Host!Query, Host!RecordsOf, Host!ParseRecords
<1> QED
  BY <1>1, <1>5 DEF p

\* What is advertised of a fitted model, and of the others.
LEMMA ToldOf ==
    ASSUME ModelsInv, fresh
    PROVE  /\ host.kind = "mixle" =>
                /\ "predict" \in told <=> {"cdf", "sampler"} \cap law # {}
                /\ "score" \in told <=> {"log_density", "seq_log_density"} \cap law # {}
                /\ "latent" \in told <=> {"latent", "viterbi"} \cap law # {}
                /\ "decide" \in told <=> "sampler" \in law
                /\ "chat" \in told
           /\ host.kind = "task" => told = Host!TaskCapabilities
           /\ host.kind = "plain" => told = Host!PlainCapabilities
BY DEF ModelsInv, ToldOK, Host!CapabilitiesOf, Host!Capabilities

LEMMA PredictKeeps ==
    ASSUME ModelsInv, host.kind = "mixle", Host!Asked("predict"), Host!Reply(Host!PredictiveBatch(law, asked.records)),
           UNCHANGED <<host, law, densities, told, fresh, served, said, queries>>
    PROVE  ModelsInv'
<1>1. asked.route = "predict" /\ asked # Host!NoQuery /\ densities = {} /\ asked.records \in Batches
  BY AskedIs DEF ModelsInv, ServedOK, Host!Asked, Host!Nothing
<1> DEFINE p == Host!PredictiveBatch(law, asked.records)
<1>2. Host!AnswersAreHonest' /\ response'.query = asked /\ response'.status = p.status
  BY <1>1, PredictionIsHonest DEF Host!RecordsOf
<1>3. fresh => AsTold(p.status)
  <2>1. {"cdf", "sampler"} \cap law = {} => p.status = "refused"
    BY PredictiveBatchIs
  <2>2. {"cdf", "sampler"} \cap law # {} /\ p.status = "refused" =>
          "conditions" \in law /\ \E i \in DOMAIN asked.records : asked.records[i] = "context"
    BY <1>1, PredictiveBatchIs
  <2> HIDE DEF p
  <2> QED
    BY <1>1, <2>1, <2>2, ToldOf DEF AsTold
<1> QED
  BY <1>1, <1>2, <1>3, ReplyKeeps, ToldIsHonest, TaskSaysStays DEF ModelsInv

LEMMA ChatKeeps ==
    ASSUME ModelsInv, host.kind = "mixle", Host!Asked("chat"), Host!Reply(Host!ChatSummary(law, asked.text)),
           UNCHANGED <<host, law, densities, told, fresh, served, said, queries>>
    PROVE  ModelsInv'
<1>1. asked.route = "chat" /\ asked # Host!NoQuery /\ densities = {}
  BY AskedIs DEF ModelsInv, ServedOK, Host!Asked, Host!Nothing
<1> DEFINE p == Host!PredictiveBatch(law, Host!ParseRecords(asked.text))
<1>2. Host!AnswersAreHonest' /\ response'.query = asked /\ response'.status # "refused"
  <2>1. CASE p.status = "refused"
    <3>1. Host!Reply(Host!Plain("ok", {law}))
      BY <2>1 DEF Host!ChatSummary
    <3> QED
      BY <1>1, <3>1, PlainIsHonest
  <2>2. CASE p.status # "refused"
    <3>1. Host!Reply(p)
      BY <2>2 DEF Host!ChatSummary
    <3> QED
      BY <1>1, <2>2, <3>1, PredictionIsHonest DEF Host!RecordsOf
  <2> QED
    BY <2>1, <2>2
<1>3. fresh => AsTold(response'.status)
  BY <1>1, <1>2, ToldOf DEF AsTold
<1> QED
  BY <1>1, <1>2, <1>3, ReplyKeeps, ToldIsHonest, TaskSaysStays DEF ModelsInv

\* An endpoint that answers of the model alone, or refuses.
LEMMA PlainKeeps ==
    ASSUME ModelsInv, asked # Host!NoQuery, densities = {}, NEW status, NEW parts \in SUBSET {law},
           Host!Reply(Host!Plain(status, parts)), fresh => AsTold(status),
           UNCHANGED <<host, law, densities, told, fresh, served, said, queries>>
    PROVE  ModelsInv'
<1>1. Host!AnswersAreHonest' /\ response'.query = asked /\ response'.status = status
  BY PlainIsHonest
<1> QED
  BY <1>1, ReplyKeeps, ToldIsHonest, TaskSaysStays DEF ModelsInv

LEMMA LatentKeeps ==
    ASSUME ModelsInv, host.kind = "mixle", Host!Asked("latent"), Host!Reply(Host!Latent(law)),
           UNCHANGED <<host, law, densities, told, fresh, served, said, queries>>
    PROVE  ModelsInv'
<1> DEFINE can == {"latent", "viterbi"} \cap law # {}
<1>1. asked.route = "latent" /\ asked # Host!NoQuery /\ densities = {}
  BY AskedIs DEF ModelsInv, ServedOK, Host!Asked, Host!Nothing
<1>2. CASE can
  <2>1. Host!Reply(Host!Plain("ok", {law}))
    BY <1>2 DEF Host!Latent, Host!OkIf
  <2>2. fresh => AsTold("ok")
    BY <1>1, <1>2, ToldOf DEF AsTold
  <2> QED
    BY <1>1, <2>1, <2>2, PlainKeeps
<1>3. CASE ~can
  <2>1. Host!Reply(Host!Plain("refused", {}))
    BY <1>3 DEF Host!Latent, Host!OkIf
  <2>2. fresh => AsTold("refused")
    BY <1>1, <1>3, ToldOf DEF AsTold
  <2> QED
    BY <1>1, <2>1, <2>2, PlainKeeps
<1> QED
  BY <1>2, <1>3

LEMMA DecideKeeps ==
    ASSUME ModelsInv, host.kind = "mixle", Host!Asked("decide"), Host!Reply(Host!Decide(law, asked)),
           UNCHANGED <<host, law, densities, told, fresh, served, said, queries>>
    PROVE  ModelsInv'
<1>1. asked.route = "decide" /\ asked # Host!NoQuery /\ densities = {}
  BY AskedIs DEF ModelsInv, ServedOK, Host!Asked, Host!Nothing
<1> DEFINE wantsData == asked.over = "params" /\ ~host.fitData
           had == Host!Posterior(law, asked.over)
<1>2. CASE ~Host!BuildLoss(asked)
  <2>1. Host!Reply(Host!Plain("unprocessable", {}))
    BY <1>2 DEF Host!Decide
  <2>2. AsTold("unprocessable")
    BY <1>1 DEF AsTold
  <2> QED
    BY <1>1, <2>1, <2>2, PlainKeeps
<1>3. CASE Host!BuildLoss(asked) /\ wantsData
  <2>1. Host!Reply(Host!Plain("refused", {}))
    BY <1>3 DEF Host!Decide
  <2>2. AsTold("refused")
    BY <1>1, <1>3 DEF AsTold
  <2> QED
    BY <1>1, <2>1, <2>2, PlainKeeps
<1>4. CASE Host!BuildLoss(asked) /\ ~wantsData /\ had /\ asked.actions
  <2>1. Host!Reply(Host!Plain("ok", {law}))
    BY <1>4 DEF Host!Decide
  <2>2. asked.over = "predictive" => "sampler" \in law
    BY <1>4 DEF Host!Posterior
  <2>3. fresh => AsTold("ok")
    BY <1>1, <2>2, ToldOf DEF AsTold
  <2> QED
    BY <1>1, <2>1, <2>3, PlainKeeps
<1>5. CASE Host!BuildLoss(asked) /\ ~wantsData /\ ~(had /\ asked.actions)
  <2>1. Host!Reply(Host!Plain("error", {}))
    BY <1>5 DEF Host!Decide
  <2>2. AsTold("error")
    BY <1>1 DEF AsTold
  <2> QED
    BY <1>1, <2>1, <2>2, PlainKeeps
<1> QED
  BY <1>2, <1>3, <1>4, <1>5

\* A task model, or one that only chats.
LEMMA OthersKeep ==
    ASSUME ModelsInv, NEW advertised, NEW route \in {"predict", "score", "latent", "decide", "chat"},
           Host!Asked(route), fresh => told = advertised, host.kind # "mixle",
           Host!Reply(Host!OkIf(route \in advertised, law)),
           UNCHANGED <<host, law, densities, told, fresh, served, said, queries>>
    PROVE  ModelsInv'
<1>1. asked.route = route /\ asked # Host!NoQuery /\ densities = {}
  BY AskedIs DEF ModelsInv, ServedOK, Host!Asked, Host!Nothing
<1>2. CASE route \in advertised
  <2>1. Host!Reply(Host!Plain("ok", {law}))
    BY <1>2 DEF Host!OkIf
  <2>2. fresh => AsTold("ok")
    BY <1>1, <1>2 DEF AsTold
  <2> QED
    BY <1>1, <2>1, <2>2, PlainKeeps
<1>3. CASE route \notin advertised
  <2>1. Host!Reply(Host!Plain("refused", {}))
    BY <1>3 DEF Host!OkIf
  <2>2. fresh => AsTold("refused")
    BY <1>1, <1>3 DEF AsTold
  <2> QED
    BY <1>1, <2>1, <2>2, PlainKeeps
<1> QED
  BY <1>2, <1>3

LEMMA AnswerKeeps ==
    ASSUME ModelsInv, Host!Answer
    PROVE  ModelsInv'
<1>1. UNCHANGED <<host, law, densities, told, fresh, served, said, queries>>
  BY DEF Host!Answer
<1>2. CASE host.kind = "mixle" /\ Host!Asked("predict") /\ Host!Reply(Host!PredictiveBatch(law, asked.records))
  BY <1>1, <1>2, PredictKeeps
<1>3. CASE host.kind = "mixle" /\ Host!Asked("latent") /\ Host!Reply(Host!Latent(law))
  BY <1>1, <1>3, LatentKeeps
<1>4. CASE host.kind = "mixle" /\ Host!Asked("decide") /\ Host!Reply(Host!Decide(law, asked))
  BY <1>1, <1>4, DecideKeeps
<1>5. CASE host.kind = "mixle" /\ Host!Asked("chat") /\ Host!Reply(Host!ChatSummary(law, asked.text))
  BY <1>1, <1>5, ChatKeeps
<1>6. CASE /\ host.kind = "task" /\ asked.route \in {"score", "latent", "decide"}
           /\ Host!Reply(Host!OkIf(asked.route \in Host!TaskCapabilities, law))
  BY <1>1, <1>6, OthersKeep, ToldOf DEF Host!Asked
<1>7. CASE /\ host.kind = "plain" /\ asked.route \in {"predict", "score", "latent", "decide", "chat"}
           /\ Host!Reply(Host!OkIf(asked.route \in Host!PlainCapabilities, law))
  BY <1>1, <1>7, OthersKeep, ToldOf DEF Host!Asked
<1> QED
  BY <1>2, <1>3, <1>4, <1>5, <1>6, <1>7 DEF Host!Answer

LEMMA ScoreKeeps ==
    ASSUME ModelsInv, Host!Score
    PROVE  ModelsInv'
<1>1. /\ asked.route = "score" /\ host.kind = "mixle" /\ densities = {}
      /\ UNCHANGED <<host, law, told, fresh, served, said, queries>>
  BY DEF Host!Score, Host!Asked
<1>2. asked # Host!NoQuery /\ law \in served
  BY <1>1, AskedIs DEF Host!Asked, Host!Nothing
<1> DEFINE by == IF host.service # {} THEN host.service ELSE law
           can == host.service # {} \/ Host!Scores(law, asked.encodes)
<1>3. CASE can
  <2>1. densities' = {by} /\ UNCHANGED <<asked, response>>
    BY <1>3 DEF Host!Score
  <2>2. host.service # {} \/ {"log_density", "seq_log_density"} \cap law # {}
    BY <1>3 DEF Host!Scores
  <2>3. ServedOK' /\ QueryOK' /\ ToldOK' /\ TaskSays'
    BY <1>1, <1>2, <2>1, <2>2, TaskSaysStays DEF ModelsInv, ServedOK, QueryOK, ToldOK, Host!CapabilitiesOf,
       Host!TaskCapabilities
  <2>4. Host!AnswersAreHonest' /\ Host!CapabilitiesAreHonest'
    BY <1>1, <2>1 DEF ModelsInv, Host!AnswersAreHonest, Host!CapabilitiesAreHonest, Host!OnASlice, Host!OfService,
       Host!Query, Host!RecordsOf, Host!ParseRecords
  <2> QED
    BY <1>1, <2>3, <2>4 DEF ModelsInv
<1>4. CASE ~can
  <2>1. Host!Reply(Host!Plain("refused", {})) /\ UNCHANGED densities
    BY <1>4 DEF Host!Score
  <2>2. "log_density" \notin law
    BY <1>4 DEF Host!Scores
  <2>3. AsTold("refused")
    BY <1>1, <2>2 DEF AsTold
  <2> QED
    BY <1>1, <1>2, <2>1, <2>3, PlainKeeps
<1> QED
  BY <1>3, <1>4

LEMMA SemanticsKeeps ==
    ASSUME ModelsInv, Host!ScoreSemantics
    PROVE  ModelsInv'
<1> DEFINE r == [status |-> "ok", how |-> <<>>, tag |-> Host!DensitySemantics(law), parts |-> densities \cup {law}]
<1>1. /\ densities # {} /\ densities' = {} /\ Host!Reply(r)
      /\ UNCHANGED <<host, law, told, fresh, served, said, queries>>
  BY DEF Host!ScoreSemantics
<1>2. /\ asked.route = "score" /\ host.kind = "mixle"
      /\ densities \subseteq served \cup IF host.service # {} THEN {host.service} ELSE {}
      /\ host.service # {} \/ (fresh => {"log_density", "seq_log_density"} \cap law # {})
  BY <1>1 DEF ModelsInv, ServedOK
<1>3. asked # Host!NoQuery /\ law \in served
  BY <1>2, AskedIs DEF Host!Asked, Host!Nothing
<1>4. response' = [query |-> asked, status |-> "ok", how |-> <<>>, tag |-> Host!DensitySemantics(law),
                   parts |-> densities \cup {law}]
  BY <1>1 DEF Host!Reply
<1>5. Host!DensitySemantics(law) = "exact" => "coarse" \notin law
  BY DEF Host!DensitySemantics
<1>6. Host!AnswersAreHonest'
  BY <1>1, <1>2, <1>3, <1>4, <1>5 DEF Host!AnswersAreHonest, Host!OfService, Host!Query
<1>7. fresh => AsTold("ok")
  BY <1>2, ToldOf DEF AsTold
<1> QED
  BY <1>1, <1>4, <1>6, <1>7, ReplyKeeps, ToldIsHonest, TaskSaysStays DEF ModelsInv

LEMMA AnswerTaskKeeps ==
    ASSUME ModelsInv, Host!AnswerTask
    PROVE  ModelsInv'
<1>1. PICK e, says :
        /\ e \in Host!TaskEndpoints /\ host.kind = "task" /\ asked.route = e /\ Host!SayOfTask(e, says)
        /\ e = "predict" => says = Host!TaskPredict(host.input)
        /\ e = "chat" => says = Host!TaskChat(host.input)
        /\ e = "decision" => says = Host!EscalationDecision(host.input)
  BY DEF Host!AnswerTask, Host!Asked, Host!TaskEndpoints
<1>2. /\ said' = [said EXCEPT ![e] = says] /\ Host!Reply(Host!Plain("ok", {law}))
      /\ UNCHANGED <<host, law, densities, told, fresh, served, queries>>
  BY <1>1 DEF Host!SayOfTask
<1>3. asked # Host!NoQuery /\ densities = {}
  BY <1>1, AskedIs DEF ModelsInv, ServedOK, Host!Asked, Host!Nothing, Host!TaskEndpoints
<1>4. TaskSays'
  <2>1. said = [f \in Host!TaskEndpoints |-> said[f]]
    BY DEF ModelsInv, TaskSays
  <2>2. \A f \in Host!TaskEndpoints : said'[f] = IF f = e THEN says ELSE said[f]
    BY <1>2, <2>1
  <2>3. said' = [f \in Host!TaskEndpoints |-> said'[f]]
    BY <1>2, <2>1
  <2>4. /\ Host!TaskPredict(host.input)' = Host!TaskPredict(host.input)
        /\ Host!TaskChat(host.input)' = Host!TaskChat(host.input)
        /\ Host!EscalationDecision(host.input)' = Host!EscalationDecision(host.input)
    BY <1>2 DEF Host!TaskPredict, Host!TaskChat, Host!EscalationDecision, Host!Extractor, Host!Calibrated
  <2>5. {"predict", "chat", "decision"} = Host!TaskEndpoints
    BY DEF Host!TaskEndpoints
  <2> QED
    BY <1>1, <1>2, <2>2, <2>3, <2>4, <2>5 DEF ModelsInv, TaskSays
<1>5. fresh => AsTold("ok")
  <2>1. fresh /\ e \in {"predict", "chat"} => e \in told
    BY <1>1, ToldOf DEF Host!TaskCapabilities
  <2> QED
    BY <1>1, <2>1 DEF AsTold, Host!TaskEndpoints
<1>6. Host!AnswersAreHonest' /\ response'.query = asked /\ response'.status = "ok"
  BY <1>2, <1>3, PlainIsHonest
<1> QED
  BY <1>2, <1>3, <1>4, <1>5, <1>6, ReplyKeeps, ToldIsHonest

LEMMA ModelsInitHolds == MCInit => ModelsInv
<1> SUFFICES ASSUME MCInit PROVE ModelsInv
  OBVIOUS
<1>1. \E h \in Hosts : TRUE
  <2>1. OfKind("plain", {{}}, {FALSE}, {{}}, {NoInput}) \subseteq Hosts
    BY DEF Hosts
  <2>2. [kind |-> "plain", service |-> {}, fitData |-> FALSE, task |-> {}, input |-> NoInput]
            \in OfKind("plain", {{}}, {FALSE}, {{}}, {NoInput})
    BY DEF OfKind
  <2> QED
    BY <2>1, <2>2
<1>2. host \in Hosts
  <2>1. Of("models", Hosts) \subseteq Hosts
    BY <1>1, OfIsIn
  <2> QED
    BY <2>1 DEF MCInit, Host!InitIn
<1>3. /\ asked = Host!NoQuery /\ densities = {} /\ fresh = FALSE /\ response = Host!NoReply
      /\ said = [e \in Host!TaskEndpoints |-> Host!Nothing]
  BY DEF MCInit, Host!InitIn
<1>4. QueryOK /\ ServedOK /\ ToldOK
  BY <1>3 DEF QueryOK, ServedOK, ToldOK
<1>5. TaskSays
  BY <1>3 DEF TaskSays, Host!TaskEndpoints
<1>6. Host!AnswersAreHonest /\ Host!CapabilitiesAreHonest
  BY <1>3 DEF Host!AnswersAreHonest, Host!CapabilitiesAreHonest, Host!NoReply, Host!Nothing
<1> QED
  BY <1>2, <1>4, <1>5, <1>6 DEF ModelsInv

LEMMA ModelsStepKeeps ==
    ASSUME ModelsInv, Host!Next(QueriesOf(host)) \/ UNCHANGED modelVars
    PROVE  ModelsInv'
<1>1. CASE UNCHANGED modelVars
  <2>1. UNCHANGED <<host, law, asked, densities, told, fresh, served, response, said, queries>>
    BY <1>1 DEF modelVars
  <2>2. QueryOK' /\ ServedOK' /\ ToldOK' /\ TaskSays'
    BY <2>1, TaskSaysStays DEF ModelsInv, QueryOK, ServedOK, ToldOK, Host!CapabilitiesOf, Host!TaskCapabilities
  <2>3. Host!AnswersAreHonest' /\ Host!CapabilitiesAreHonest'
    BY <2>1 DEF ModelsInv, Host!AnswersAreHonest, Host!CapabilitiesAreHonest, Host!OnASlice, Host!OfService,
       Host!Query, Host!RecordsOf, Host!ParseRecords
  <2> QED
    BY <2>1, <2>2, <2>3 DEF ModelsInv
<1>2. ASSUME NEW q \in QueriesOf(host), Host!Ask(q)
      PROVE  ModelsInv'
  BY <1>2, ModelsAskKeeps
<1>3. CASE Host!Resolve \/ Host!TellCapabilities \/ Host!Answer
  BY <1>3, ResolveKeeps, TellKeeps, AnswerKeeps
<1>4. CASE Host!Score \/ Host!ScoreSemantics \/ Host!AnswerTask
  BY <1>4, ScoreKeeps, SemanticsKeeps, AnswerTaskKeeps
<1>5. ASSUME NEW m \in Challengers, Host!Promote(m)
      PROVE  ModelsInv'
  BY <1>5, PromoteKeeps
<1> QED
  BY <1>1, <1>2, <1>3, <1>4, <1>5 DEF Host!Next

\* Every query, and what was told and served so far, is of the models that have been in service.
THEOREM ModelsInvHolds == MCSpec => []ModelsInv
<1>1. MCInit => ModelsInv
  BY ModelsInitHolds
<1>2. ModelsInv /\ [MCNext]_allVars => ModelsInv'
  <2>1. [MCNext]_allVars => Host!Next(QueriesOf(host)) \/ UNCHANGED modelVars
    BY DEF MCNext, AccountsStep, McpStep, DocumentsStep, ServerStep, PageStep, ModelsStep, SelectionStep,
           DatasetsStep, FeedbackStep, allVars
  <2> QED
    BY <2>1, ModelsStepKeeps
<1> QED
  BY <1>1, <1>2, PTL DEF MCSpec

\* MixleAdapter.capabilities and TaskCascadeAdapter.capabilities, for any models
\* to promote and any number of queries: what is advertised is what is served.
THEOREM CapabilitiesHold == MCSpec => []CapabilitiesAreHonest
<1>1. ModelsInv => CapabilitiesAreHonest
  BY DEF ModelsInv, CapabilitiesAreHonest
<1> QED
  BY <1>1, ModelsInvHolds, PTL

\* MixleAdapter.score and predictive_batch against a promotion: an answer is of
\* models that were served while it was computed, and exact when it says so.
THEOREM AnswersHold == MCSpec => []AnswersAreHonest
<1>1. ModelsInv => AnswersAreHonest
  BY DEF ModelsInv, AnswersAreHonest
<1> QED
  BY <1>1, ModelsInvHolds, PTL

\* TaskCascadeAdapter.predict, stream and escalation_decision say the same of an
\* input, what the chat does not look at aside.
THEOREM EscalationHolds == MCSpec => []EscalationAgrees
<1>1. ModelsInv => EscalationAgrees
  <2> SUFFICES ASSUME ModelsInv, NEW e \in Host!TaskEndpoints, NEW f \in Host!TaskEndpoints,
                      e # f, said[e] # Host!Nothing, said[f] # Host!Nothing, said[e] # said[f]
               PROVE  IF Host!Extractor THEN host.input.unsure /\ "decision" \in {e, f}
                                        ELSE host.input.unfamiliar /\ "chat" \in {e, f}
    BY DEF EscalationAgrees, Host!EscalationAgrees
  <2>1. Host!Extractor => ~Host!Calibrated
    BY HostsAre DEF ModelsInv
  <2> QED
    BY <2>1 DEF ModelsInv, TaskSays, Host!TaskEndpoints, Host!TaskPredict, Host!TaskChat, Host!EscalationDecision,
       Host!LabelOr, Host!Escalated
<1> QED
  BY <1>1, ModelsInvHolds, PTL


-----------------------------------------------------------------------------
(* The least and the greatest of a finite set, by induction over it: there   *)
(* is no smallest set without one.                                           *)

LEMMA SomeLeast ==
    ASSUME NEW S, IsFiniteSet(S), S # {}, NEW g \in [S -> Int]
    PROVE  \E s \in S : \A t \in S : g[s] <= g[t]
<1> DEFINE Least(T) == \E s \in T : \A t \in T : g[s] <= g[t]
           Bad == {T \in FiniteSubsetsOf(S) : T # {} /\ ~Least(T)}
<1>1. SUFFICES Bad = {}
  BY DEF FiniteSubsetsOf
<1>2. SUFFICES ASSUME Bad # {} PROVE FALSE
  OBVIOUS
<1>3. PICK T \in Bad : \A V \in Bad : <<V, T>> \notin StrictSubsetOrdering(S)
  <2>1. Bad \subseteq FiniteSubsetsOf(S)
    OBVIOUS
  <2> HIDE DEF Bad
  <2> QED
    BY <2>1, <1>2, WFMin, FS_StrictSubsetOrderingWellFounded
<1>4. PICK x \in T : TRUE
  OBVIOUS
<1> DEFINE V == T \ {x}
<1>5. V \subseteq S /\ V \subseteq T /\ V # T /\ IsFiniteSet(V) /\ T \subseteq S
  BY <1>4, FS_RemoveElement DEF FiniteSubsetsOf
<1>6. <<V, T>> \in StrictSubsetOrdering(S)
  BY <1>5 DEF StrictSubsetOrdering
<1>7. V = {} \/ Least(V)
  BY <1>3, <1>5, <1>6 DEF FiniteSubsetsOf
<1>8. ~Least(T)
  OBVIOUS
<1> HIDE DEF Bad
<1>9. CASE V = {}
  <2>1. \A t \in T : t = x /\ g[x] <= g[t]
    BY <1>4, <1>5, <1>9
  <2> QED
    BY <1>4, <1>8, <2>1
<1>10. ASSUME NEW y \in V, \A t \in V : g[y] <= g[t]
       PROVE  Least(T)
  <2>1. g[x] \in Int /\ \A t \in T : g[t] \in Int /\ (t # x => t \in V)
    BY <1>4, <1>5
  <2>2. CASE g[y] <= g[x]
    BY <1>5, <1>10, <2>1, <2>2
  <2>3. CASE ~(g[y] <= g[x])
    <3>1. \A t \in T : g[x] <= g[t]
      BY <1>5, <1>10, <2>1, <2>3
    <3> QED
      BY <1>4, <3>1
  <2> QED
    BY <2>2, <2>3
<1> QED
  BY <1>7, <1>8, <1>9, <1>10

LEMMA LeastOfIs ==
    ASSUME NEW S, IsFiniteSet(S), S # {}, NEW g \in [S -> Int]
    PROVE  \E s \in S : Sel!LeastOf({g[t] : t \in S}) = g[s] /\ \A t \in S : g[s] <= g[t]
<1>1. PICK s \in S : \A t \in S : g[s] <= g[t]
  BY SomeLeast
<1>2. \A v \in {g[t] : t \in S} : v \in Int
  OBVIOUS
<1>3. g[s] \in {g[t] : t \in S} /\ \A v \in {g[t] : t \in S} : g[s] <= v
  BY <1>1
<1>4. Sel!LeastOf({g[t] : t \in S}) \in {g[t] : t \in S}
          /\ \A v \in {g[t] : t \in S} : Sel!LeastOf({g[t] : t \in S}) <= v
  BY <1>3 DEF Sel!LeastOf
<1> DEFINE v == Sel!LeastOf({g[t] : t \in S})
<1>5. v = g[s]
  <2>1. v \in Int /\ g[s] \in Int /\ v <= g[s] /\ g[s] <= v
    BY <1>2, <1>3, <1>4
  <2> HIDE DEF v
  <2> QED
    BY <2>1
<1> QED
  BY <1>1, <1>5

LEMMA MostOfIs ==
    ASSUME NEW S, IsFiniteSet(S), S # {}, NEW g \in [S -> Int]
    PROVE  \E s \in S : Sel!MostOf({g[t] : t \in S}) = g[s] /\ \A t \in S : g[t] <= g[s]
<1> DEFINE h == [t \in S |-> 0 - g[t]]
<1>1. PICK s \in S : \A t \in S : h[s] <= h[t]
  <2>1. h \in [S -> Int]
    OBVIOUS
  <2> HIDE DEF h
  <2> QED
    BY <2>1, SomeLeast
<1>2. \A v \in {g[t] : t \in S} : v \in Int
  OBVIOUS
<1>3. g[s] \in {g[t] : t \in S} /\ \A v \in {g[t] : t \in S} : v <= g[s]
  <2>1. \A t \in S : g[t] \in Int /\ g[s] \in Int /\ 0 - g[s] <= 0 - g[t]
    BY <1>1
  <2>2. \A t \in S : g[t] <= g[s]
    BY <2>1
  <2> QED
    BY <2>2
<1>4. Sel!MostOf({g[t] : t \in S}) \in {g[t] : t \in S}
          /\ \A v \in {g[t] : t \in S} : v <= Sel!MostOf({g[t] : t \in S})
  BY <1>3 DEF Sel!MostOf
<1> DEFINE v == Sel!MostOf({g[t] : t \in S})
<1>5. v = g[s]
  <2>1. v \in Int /\ g[s] \in Int /\ v <= g[s] /\ g[s] <= v
    BY <1>2, <1>3, <1>4
  <2> HIDE DEF v
  <2> QED
    BY <2>1
<1> QED
  BY <1>3, <1>5

-----------------------------------------------------------------------------
(* The proposers of a mixture that stay in it (Selection).                   *)

\* argmax.
LEMMA FirstBestIs ==
    ASSUME NEW S \in SUBSET Int, IsFiniteSet(S), S # {}, NEW value \in [S -> Int]
    PROVE  Sel!FirstBest(value, S) \in S /\ \A i \in S : value[i] <= value[Sel!FirstBest(value, S)]
<1> DEFINE B == {j \in S : \A i \in S : value[i] <= value[j]}
           g == [j \in B |-> j]
<1>1. B # {}
  BY MostOfIs
<1>2. IsFiniteSet(B) /\ B \subseteq S
  BY FS_Subset
<1>3. g \in [B -> Int] /\ {g[t] : t \in B} = B
  OBVIOUS
<1>4. Sel!LeastOf(B) \in B
  <2> HIDE DEF B, g
  <2> QED
    BY <1>1, <1>2, <1>3, LeastOfIs
<1> QED
  BY <1>2, <1>4 DEF Sel!FirstBest

LEMMA AboveIs ==
    ASSUME NEW S, IsFiniteSet(S), S # {}, NEW f \in [S -> Int]
    PROVE  /\ \E m \in Int : \A x \in S : Sel!Above(f, x, S) = f[x] - m
           /\ Sel!Width(f, S) \in Nat \ {0}
<1>1. PICK s \in S : Sel!LeastOf({f[t] : t \in S}) = f[s] /\ \A t \in S : f[s] <= f[t]
  BY LeastOfIs
<1>2. PICK r \in S : Sel!MostOf({f[t] : t \in S}) = f[r]
  BY MostOfIs
<1>3. f[s] \in Int /\ f[r] \in Int /\ f[s] <= f[r]
  BY <1>1
<1>4. \A x \in S : Sel!Above(f, x, S) = f[x] - f[s]
  BY <1>1 DEF Sel!Above
<1>5. Sel!Width(f, S) = IF f[r] - f[s] = 0 THEN 1 ELSE f[r] - f[s]
  BY <1>1, <1>2 DEF Sel!Width
<1> QED
  BY <1>3, <1>4, <1>5

LEMMA Cancels ==
    ASSUME NEW a \in Int, NEW b \in Int, NEW w \in Nat \ {0}, a * w <= b * w
    PROVE  a <= b
<1> SUFFICES ASSUME b + 1 <= a PROVE FALSE
  OBVIOUS
<1>1. PICK d \in Nat : a = b + 1 + d
  <2>1. a - b - 1 \in Nat /\ a = b + 1 + (a - b - 1)
    OBVIOUS
  <2> QED
    BY <2>1
<1>2. a * w = b * w + w + d * w /\ d * w \in Nat /\ b * w \in Int
  BY <1>1
<1> QED
  BY <1>2

LEMMA Products ==
    ASSUME NEW a \in Int, NEW b \in Int
    PROVE  a * b \in Int
OBVIOUS

\* What the scores of two proposers say of their qualities and gains.
LEMMA ScoresSay ==
    ASSUME NEW alpha \in 0 .. 2, NEW q \in [{1, 2} -> Int], NEW g \in [{1, 2} -> Int], NEW w \in [{1, 2} -> Nat \ {0}],
           alpha * q[1] * w[1] + (2 - alpha) * g[1] * w[2] <= alpha * q[2] * w[1] + (2 - alpha) * g[2] * w[2]
    PROVE  IF alpha = 0 THEN g[1] <= g[2] ELSE q[2] < q[1] => alpha = 1 /\ g[1] < g[2]
<1>1. /\ q[1] \in Int /\ q[2] \in Int /\ g[1] \in Int /\ g[2] \in Int
      /\ w[1] \in Nat \ {0} /\ w[2] \in Nat \ {0} /\ w[1] \in Int /\ w[2] \in Int
  OBVIOUS
<1>2. CASE alpha = 0
  <2>1. g[1] * w[2] \in Int /\ g[2] * w[2] \in Int
    BY <1>1, Products
  <2>2. g[1] * w[2] <= g[2] * w[2]
    BY <1>1, <1>2, <2>1
  <2>3. g[1] <= g[2]
    BY <1>1, <2>2, Cancels
  <2> QED
    BY <1>1, <1>2, <2>3
<1>3. CASE alpha = 2
  <2>1. q[1] * w[1] \in Int /\ q[2] * w[1] \in Int
    BY <1>1, Products
  <2>2. q[1] * w[1] <= q[2] * w[1]
    BY <1>1, <1>3, <2>1
  <2>3. q[1] <= q[2]
    BY <1>1, <2>2, Cancels
  <2> QED
    BY <1>1, <1>3, <2>3
<1>4. CASE alpha = 1 /\ q[2] < q[1]
  <2>1. q[1] * w[1] + g[1] * w[2] <= q[2] * w[1] + g[2] * w[2]
    BY <1>1, <1>4
  <2>2. ~(q[1] * w[1] <= q[2] * w[1])
    <3>1. ~(q[1] <= q[2])
      BY <1>1, <1>4
    <3> QED
      BY <1>1, <3>1, Cancels
  <2>3. q[1] * w[1] \in Int /\ q[2] * w[1] \in Int /\ g[1] * w[2] \in Int /\ g[2] * w[2] \in Int
    BY <1>1, Products
  <2>4. g[1] * w[2] < g[2] * w[2]
    BY <2>1, <2>2, <2>3
  <2>5. g[1] # g[2]
    BY <2>3, <2>4
  <2>6. g[1] * w[2] <= g[2] * w[2]
    BY <2>3, <2>4
  <2>7. g[1] <= g[2]
    BY <1>1, <2>6, Cancels
  <2> QED
    BY <1>1, <1>4, <2>5, <2>7
<1> QED
  BY <1>2, <1>3, <1>4

\* What a pool is: grades are given of every proposer or of none.
PoolOK(p) ==
    /\ p.n \in Nat \ {0} /\ p.k \in Int /\ p.alpha \in 0 .. 2
    /\ p.quality = <<>> \/ p.quality \in [1 .. p.n -> Int]
    /\ \A i, j \in 1 .. p.n : i # j => p.apart[{i, j}] \in Int

\* The proposer chosen i-th was as good a choice as any other that remained.
GoodChoice(i) ==
    /\ selected[i] \notin Sel!Before(i)
    /\ \A j \in Sel!Proposer \ Sel!Before(i) :
         LET mine == Sel!FromNearest(j, Sel!Before(i))
             its == Sel!FromNearest(selected[i], Sel!Before(i))
         IN  IF ~Sel!Graded \/ pool.alpha = 0 THEN mine <= its
             ELSE pool.quality[selected[i]] < pool.quality[j] => pool.alpha = 1 /\ mine < its

PoolInv ==
    /\ PoolOK(pool)
    /\ selected \in Seq(Sel!Proposer) /\ selected # <<>> /\ Len(selected) <= Sel!Kept
    /\ IsFiniteSet(Sel!Chosen) /\ Cardinality(Sel!Chosen) = Len(selected)
    /\ Sel!Graded => \A j \in Sel!Proposer : pool.quality[j] <= pool.quality[selected[1]]
    /\ \A i \in 2 .. Len(selected) : GoodChoice(i)

LEMMA ProposersAre ==
    ASSUME PoolOK(pool)
    PROVE  /\ IsFiniteSet(Sel!Proposer) /\ Cardinality(Sel!Proposer) = pool.n /\ Sel!Proposer \subseteq Int
           /\ 1 \in Sel!Proposer /\ Sel!Kept \in 1 .. pool.n
           /\ Sel!Graded <=> pool.quality \in [Sel!Proposer -> Int]
<1>1. pool.n \in Nat \ {0} /\ pool.k \in Int
  BY DEF PoolOK
<1>2. IsFiniteSet(1 .. pool.n) /\ Cardinality(1 .. pool.n) = pool.n
  <2>1. \A n \in Nat \ {0} : Cardinality(1 .. n) = n - 1 + 1 /\ IsFiniteSet(1 .. n)
    BY ONLY FS_Interval
  <2> QED
    BY ONLY <1>1, <2>1
<1>3. <<>> \notin [1 .. pool.n -> Int]
  BY <1>1
<1> QED
  BY <1>1, <1>2, <1>3 DEF PoolOK, Sel!Proposer, Sel!Kept, Sel!Graded

\* How far a proposer is from the nearest of others is a distance, and no more
\* than from the nearest of fewer.
LEMMA NearestIs ==
    ASSUME PoolOK(pool), NEW S \in SUBSET Sel!Proposer, S # {}, NEW j \in Sel!Proposer \ S
    PROVE  /\ Sel!Gain(j, S) \in Int /\ Sel!FromNearest(j, S) = Sel!Gain(j, S)
           /\ \E s \in S : Sel!Gain(j, S) = Sel!Distance(j, s)
           /\ \A s \in S : Sel!Gain(j, S) <= Sel!Distance(j, s)
<1> DEFINE g == [s \in S |-> Sel!Distance(j, s)]
<1>1. \A s \in S : Sel!Distance(j, s) \in Int
  <2> SUFFICES ASSUME NEW s \in S PROVE Sel!Distance(j, s) \in Int
    OBVIOUS
  <2>1. s \in 1 .. pool.n /\ j \in 1 .. pool.n /\ j # s
    BY DEF Sel!Proposer
  <2>2. pool.apart[{j, s}] \in Int
    BY <2>1 DEF PoolOK
  <2> QED
    BY <2>2 DEF Sel!Distance
<1>2. g \in [S -> Int] /\ {g[s] : s \in S} = {Sel!Distance(j, s) : s \in S} /\ \A s \in S : g[s] = Sel!Distance(j, s)
  BY <1>1
<1>3. IsFiniteSet(S)
  BY ProposersAre, FS_Subset
<1> HIDE DEF g
<1>4. PICK s \in S : Sel!LeastOf({g[t] : t \in S}) = g[s] /\ \A t \in S : g[s] <= g[t]
  BY <1>2, <1>3, LeastOfIs
<1>5. Sel!Gain(j, S) = g[s] /\ Sel!FromNearest(j, S) = g[s]
  BY <1>2, <1>4 DEF Sel!Gain, Sel!FromNearest
<1> QED
  BY <1>1, <1>2, <1>4, <1>5

LEMMA NearerOfMore ==
    ASSUME PoolOK(pool), NEW S \in SUBSET Sel!Proposer, NEW T \in SUBSET S, T # {}, NEW j \in Sel!Proposer \ S
    PROVE  Sel!FromNearest(j, S) <= Sel!FromNearest(j, T)
<1>1. PICK t \in T : Sel!Gain(j, T) = Sel!Distance(j, t)
  BY NearestIs
<1>2. Sel!Gain(j, S) <= Sel!Distance(j, t)
  BY NearestIs
<1> QED
  BY <1>1, <1>2, NearestIs

LEMMA ChosenAre ==
    ASSUME PoolInv
    PROVE  /\ Sel!Chosen \subseteq Sel!Proposer /\ Sel!Chosen # {}
           /\ Sel!Remaining = Sel!Proposer \ Sel!Chosen /\ IsFiniteSet(Sel!Remaining) /\ Sel!Remaining \subseteq Int
           /\ Len(selected) < Sel!Kept => Sel!Remaining # {}
<1>1. Sel!Chosen \subseteq Sel!Proposer /\ Sel!Chosen # {}
  BY DEF PoolInv, Sel!Chosen
<1>2. Sel!Remaining = Sel!Proposer \ Sel!Chosen
  BY DEF Sel!Remaining
<1>3. IsFiniteSet(Sel!Remaining) /\ Sel!Remaining \subseteq Int
  BY <1>2, ProposersAre, FS_Subset DEF PoolInv
<1>4. Sel!Remaining = {} => Len(selected) = pool.n
  <2>1. Sel!Remaining = {} => Sel!Chosen = Sel!Proposer
    BY <1>1, <1>2
  <2>2. Cardinality(Sel!Chosen) = Len(selected) /\ Cardinality(Sel!Proposer) = pool.n
    BY ProposersAre DEF PoolInv
  <2> QED
    BY <2>1, <2>2
<1>5. Sel!Kept \in 1 .. pool.n /\ pool.n \in Nat
  BY ProposersAre DEF PoolInv, PoolOK
<1> QED
  BY <1>1, <1>2, <1>3, <1>4, <1>5

\* The next proposer is among those that remain, and as good a choice as any.
LEMMA NextIsGood ==
    ASSUME PoolInv, Len(selected) < Sel!Kept
    PROVE  LET x == Sel!FirstBest([j \in Sel!Remaining |-> Sel!Score(j)], Sel!Remaining)
           IN  /\ x \in Sel!Remaining
               /\ \A j \in Sel!Remaining :
                    IF ~Sel!Graded \/ pool.alpha = 0
                    THEN Sel!FromNearest(j, Sel!Chosen) <= Sel!FromNearest(x, Sel!Chosen)
                    ELSE pool.quality[x] < pool.quality[j] =>
                           pool.alpha = 1 /\ Sel!FromNearest(j, Sel!Chosen) < Sel!FromNearest(x, Sel!Chosen)
<1> DEFINE R == Sel!Remaining
           gain == [i \in R |-> Sel!Gain(i, Sel!Chosen)]
           value == [j \in R |-> Sel!Score(j)]
           x == Sel!FirstBest(value, R)
<1>1. /\ R \subseteq Sel!Proposer /\ R = Sel!Proposer \ Sel!Chosen /\ Sel!Chosen \subseteq Sel!Proposer
      /\ Sel!Chosen # {} /\ R # {} /\ IsFiniteSet(R) /\ R \subseteq Int
  BY ChosenAre
<1>2. \A j \in R : Sel!Gain(j, Sel!Chosen) \in Int /\ Sel!FromNearest(j, Sel!Chosen) = Sel!Gain(j, Sel!Chosen)
  BY <1>1, NearestIs DEF PoolInv
<1>3. gain \in [R -> Int] /\ \A j \in R : gain[j] = Sel!FromNearest(j, Sel!Chosen)
  BY <1>2
<1>4. CASE ~Sel!Graded
  <2>1. value = gain
    BY <1>4 DEF Sel!Score
  <2>2. x \in R /\ \A j \in R : value[j] <= value[x]
    <3> HIDE DEF value, R, gain
    <3> QED
      BY <1>1, <1>3, <2>1, FirstBestIs DEF x
  <2> HIDE DEF x, value, gain
  <2> QED
    BY <1>3, <1>4, <2>1, <2>2 DEF x, value
<1>5. CASE Sel!Graded
  <2> DEFINE q == pool.quality
             wg == Sel!Width(gain, R)
             wq == Sel!Width(q, Sel!Proposer)
  <2>1. q \in [Sel!Proposer -> Int] /\ IsFiniteSet(Sel!Proposer) /\ Sel!Proposer # {} /\ pool.alpha \in 0 .. 2
    BY <1>5, ProposersAre DEF PoolInv, PoolOK
  <2>2. PICK mq \in Int : \A j \in Sel!Proposer : Sel!Above(q, j, Sel!Proposer) = q[j] - mq
    BY <2>1, AboveIs
  <2>3. PICK mg \in Int : \A j \in R : Sel!Above(gain, j, R) = gain[j] - mg
    <3>1. IsFiniteSet(R) /\ R # {} /\ gain \in [R -> Int]
      BY <1>1, <1>3
    <3> HIDE DEF gain, R
    <3>2. \E m \in Int : \A j \in R : Sel!Above(gain, j, R) = gain[j] - m
      BY <3>1, AboveIs
    <3> QED
      BY <3>2
  <2>4. wg \in Nat \ {0} /\ wq \in Nat \ {0}
    <3> HIDE DEF gain, R, q
    <3> QED
      BY <1>1, <1>3, <2>1, AboveIs
  <2>5. \A j \in R : value[j] = pool.alpha * (q[j] - mq) * wg + (2 - pool.alpha) * (gain[j] - mg) * wq
    <3> SUFFICES ASSUME NEW j \in R
                 PROVE  value[j] = pool.alpha * (q[j] - mq) * wg + (2 - pool.alpha) * (gain[j] - mg) * wq
      OBVIOUS
    <3>1. Sel!Above(q, j, Sel!Proposer) = q[j] - mq /\ Sel!Above(gain, j, R) = gain[j] - mg
      BY <1>1, <2>2, <2>3
    <3>2. value[j] = pool.alpha * Sel!Above(q, j, Sel!Proposer) * wg + (2 - pool.alpha) * Sel!Above(gain, j, R) * wq
      BY <1>5 DEF Sel!Score
    <3> QED
      BY <3>1, <3>2
  <2> HIDE DEF R, gain, wg, wq, value, q, x
  <2>6. \A j \in R : q[j] - mq \in Int /\ gain[j] - mg \in Int
    BY <1>1, <1>3, <2>1
  <2>7. value \in [R -> Int]
    <3>1. \A j \in R : value[j] \in Int
      <4> SUFFICES ASSUME NEW j \in R PROVE value[j] \in Int
        OBVIOUS
      <4>1. pool.alpha \in Int /\ 2 - pool.alpha \in Int /\ wg \in Int /\ wq \in Int
        BY <2>1, <2>4
      <4>2. pool.alpha * (q[j] - mq) \in Int /\ (2 - pool.alpha) * (gain[j] - mg) \in Int
        BY <4>1, <2>6, Products
      <4>3. pool.alpha * (q[j] - mq) * wg \in Int /\ (2 - pool.alpha) * (gain[j] - mg) * wq \in Int
        BY <4>1, <4>2, Products
      <4> QED
        BY <2>5, <4>3
    <3> QED
      BY <3>1 DEF value
  <2>8. x \in R /\ \A j \in R : value[j] <= value[x]
    BY <1>1, <2>7, FirstBestIs DEF x
  <2>9. ASSUME NEW j \in R
        PROVE  IF pool.alpha = 0 THEN gain[j] <= gain[x]
               ELSE q[x] < q[j] => pool.alpha = 1 /\ gain[j] < gain[x]
    <3> DEFINE qq == [i \in {1, 2} |-> IF i = 1 THEN q[j] - mq ELSE q[x] - mq]
               gg == [i \in {1, 2} |-> IF i = 1 THEN gain[j] - mg ELSE gain[x] - mg]
               ww == [i \in {1, 2} |-> IF i = 1 THEN wg ELSE wq]
    <3>1. qq \in [{1, 2} -> Int] /\ gg \in [{1, 2} -> Int] /\ ww \in [{1, 2} -> Nat \ {0}]
      BY <2>4, <2>6, <2>8
    <3>2. /\ qq[1] = q[j] - mq /\ qq[2] = q[x] - mq /\ gg[1] = gain[j] - mg /\ gg[2] = gain[x] - mg
          /\ ww[1] = wg /\ ww[2] = wq
      OBVIOUS
    <3> HIDE DEF qq, gg, ww
    <3>3. pool.alpha * qq[1] * ww[1] + (2 - pool.alpha) * gg[1] * ww[2]
              <= pool.alpha * qq[2] * ww[1] + (2 - pool.alpha) * gg[2] * ww[2]
      BY <2>5, <2>8, <3>2
    <3>4. IF pool.alpha = 0 THEN gg[1] <= gg[2] ELSE qq[2] < qq[1] => pool.alpha = 1 /\ gg[1] < gg[2]
      BY <2>1, <3>1, <3>3, ScoresSay
    <3>5. q[j] \in Int /\ q[x] \in Int /\ gain[j] \in Int /\ gain[x] \in Int
      BY <1>1, <1>3, <2>1, <2>8
    <3> QED
      BY <2>1, <3>2, <3>4, <3>5, SMTT(30)
  <2> QED
    BY <1>3, <1>5, <2>8, <2>9 DEF x, value, R, q
<1> QED
  BY <1>4, <1>5

LEMMA PoolInitHolds ==
    ASSUME PoolOK(pool), selected = <<IF Sel!Graded THEN Sel!FirstBest(pool.quality, Sel!Proposer) ELSE 1>>
    PROVE  PoolInv
<1> DEFINE x == IF Sel!Graded THEN Sel!FirstBest(pool.quality, Sel!Proposer) ELSE 1
<1>1. x \in Sel!Proposer /\ (Sel!Graded => \A j \in Sel!Proposer : pool.quality[j] <= pool.quality[x])
  BY ProposersAre, FirstBestIs
<1> HIDE DEF x
<1>2. selected = <<x>>
  BY DEF x
<1>3. Sel!Chosen = {x}
  BY <1>2 DEF Sel!Chosen
<1>4. IsFiniteSet(Sel!Chosen) /\ Cardinality(Sel!Chosen) = 1
  BY <1>3, FS_Singleton
<1>5. selected \in Seq(Sel!Proposer) /\ selected # <<>> /\ Len(selected) = 1 /\ selected[1] = x
  BY <1>1, <1>2
<1>6. 1 <= Sel!Kept
  <2>1. Sel!Kept \in 1 .. pool.n
    BY ProposersAre
  <2>2. pool.n \in Nat
    BY DEF PoolOK
  <2> QED
    BY <2>1, <2>2
<1>7. 2 .. 1 = {}
  OBVIOUS
<1> QED
  BY <1>1, <1>4, <1>5, <1>6, <1>7 DEF PoolInv

LEMMA PickKeeps ==
    ASSUME PoolInv, Sel!Pick
    PROVE  PoolInv'
<1> DEFINE x == Sel!FirstBest([j \in Sel!Remaining |-> Sel!Score(j)], Sel!Remaining)
           n == Len(selected)
<1>1. n < Sel!Kept /\ selected' = Append(selected, x) /\ pool' = pool
  BY DEF Sel!Pick
<1>2. /\ x \in Sel!Remaining
      /\ \A j \in Sel!Remaining :
           IF ~Sel!Graded \/ pool.alpha = 0
           THEN Sel!FromNearest(j, Sel!Chosen) <= Sel!FromNearest(x, Sel!Chosen)
           ELSE pool.quality[x] < pool.quality[j] =>
                  pool.alpha = 1 /\ Sel!FromNearest(j, Sel!Chosen) < Sel!FromNearest(x, Sel!Chosen)
  BY <1>1, NextIsGood
<1>3. Sel!Remaining = Sel!Proposer \ Sel!Chosen
  BY ChosenAre
<1>4. /\ selected \in Seq(Sel!Proposer) /\ n \in Nat \ {0} /\ x \in Sel!Proposer /\ Sel!Kept \in Nat
      /\ DOMAIN selected = 1 .. n
  BY <1>2, <1>3, ProposersAre DEF PoolInv
<1> HIDE DEF x
<1>5. /\ selected' \in Seq(Sel!Proposer) /\ Len(selected') = n + 1 /\ selected'[n + 1] = x
      /\ \A i \in 1 .. n : selected'[i] = selected[i]
  BY <1>1, <1>4
<1>6. /\ Sel!Proposer' = Sel!Proposer /\ Sel!Kept' = Sel!Kept /\ (Sel!Graded' <=> Sel!Graded)
      /\ \A j, S : Sel!FromNearest(j, S)' = Sel!FromNearest(j, S)
      /\ PoolOK(pool)'
  BY <1>1 DEF PoolInv, PoolOK, Sel!Proposer, Sel!Kept, Sel!Graded, Sel!FromNearest, Sel!Distance
<1>7. Sel!Chosen' = Sel!Chosen \cup {x}
  <2>1. DOMAIN selected' = 1 .. n + 1 /\ 1 .. n + 1 = (1 .. n) \cup {n + 1}
    BY <1>4, <1>5
  <2> HIDE DEF n
  <2> QED
    BY <1>4, <1>5, <2>1 DEF Sel!Chosen
<1>8. IsFiniteSet(Sel!Chosen') /\ Cardinality(Sel!Chosen') = n + 1
  BY <1>2, <1>3, <1>7, FS_AddElement DEF PoolInv
<1>9. \A i \in 2 .. n : Sel!Before(i)' = Sel!Before(i)
  <2>1. \A i \in 2 .. n : \A h \in 1 .. i - 1 : selected'[h] = selected[h]
    BY <1>4, <1>5
  <2> QED
    BY <2>1 DEF Sel!Before
<1>10. \A i : i = n + 1 => Sel!Before(i)' = Sel!Chosen
  <2>1. (n + 1) - 1 = n
    BY <1>4
  <2> HIDE DEF n
  <2>2. {selected'[h] : h \in 1 .. n} = Sel!Chosen
    BY <1>4, <1>5 DEF Sel!Chosen
  <2> QED
    BY <2>1, <2>2 DEF Sel!Before
<1>11. \A i \in 2 .. n : GoodChoice(i)'
  <2> SUFFICES ASSUME NEW i \in 2 .. n PROVE GoodChoice(i)'
    OBVIOUS
  <2>1. Sel!Before(i)' = Sel!Before(i) /\ selected'[i] = selected[i] /\ GoodChoice(i)
    BY <1>4, <1>5, <1>9 DEF PoolInv
  <2> QED
    BY <1>1, <1>6, <2>1 DEF GoodChoice
<1>12. \A i : i = n + 1 => GoodChoice(i)'
  <2> SUFFICES ASSUME NEW i, i = n + 1 PROVE GoodChoice(i)'
    OBVIOUS
  <2>1. Sel!Before(i)' = Sel!Chosen /\ selected'[i] = x
    BY <1>5, <1>10
  <2> QED
    BY <1>1, <1>2, <1>3, <1>6, <2>1 DEF GoodChoice
<1>13. Sel!Graded => \A j \in Sel!Proposer : pool.quality[j] <= pool.quality[selected'[1]]
  BY <1>4, <1>5 DEF PoolInv
<1>14. Len(selected') <= Sel!Kept' /\ selected' # <<>> /\ 2 .. Len(selected') = (2 .. n) \cup {n + 1}
  BY <1>1, <1>4, <1>5, <1>6
<1> QED
  BY <1>1, <1>5, <1>6, <1>8, <1>11, <1>12, <1>13, <1>14 DEF PoolInv

LEMMA PoolIsSpread ==
    ASSUME PoolInv
    PROVE  Sel!SelectionIsSpread
<1> SUFFICES ASSUME Sel!Finished PROVE Sel!SelectionIsSpread
  BY DEF Sel!SelectionIsSpread
<1>1. /\ Sel!Cardinality(Sel!Chosen) = Sel!Kept
      /\ Sel!Graded => \A j \in Sel!Proposer : pool.quality[j] <= pool.quality[selected[1]]
  <2>1. Sel!Cardinality(Sel!Chosen) = Cardinality(Sel!Chosen)
    BY DEF Sel!Cardinality, Sel!IsFiniteSet, Cardinality, IsFiniteSet
  <2> QED
    BY <2>1 DEF PoolInv, Sel!Finished
<1>2. ASSUME NEW i \in 2 .. Sel!Kept, NEW j \in Sel!Remaining
      PROVE  IF ~Sel!Graded \/ pool.alpha = 0
             THEN Sel!FromNearest(j, Sel!Chosen) <= Sel!FromNearest(selected[i], Sel!Before(i))
             ELSE pool.quality[selected[i]] < pool.quality[j] =>
                    /\ pool.alpha = 1
                    /\ Sel!FromNearest(j, Sel!Before(i)) < Sel!FromNearest(selected[i], Sel!Before(i))
  <2>1. /\ GoodChoice(i) /\ i \in 2 .. Len(selected) /\ Len(selected) \in Nat /\ DOMAIN selected = 1 .. Len(selected)
        /\ PoolOK(pool)
    BY DEF PoolInv, Sel!Finished
  <2>2. /\ Sel!Before(i) \subseteq Sel!Chosen /\ Sel!Before(i) # {} /\ selected[i] \in Sel!Chosen
    BY <2>1 DEF Sel!Before, Sel!Chosen
  <2>3. Sel!Chosen \subseteq Sel!Proposer /\ j \in Sel!Proposer \ Sel!Chosen
    BY ChosenAre
  <2>4. Sel!FromNearest(j, Sel!Chosen) <= Sel!FromNearest(j, Sel!Before(i))
    BY <2>1, <2>2, <2>3, NearerOfMore
  <2>5. selected[i] \notin Sel!Before(i)
    BY <2>1 DEF GoodChoice
  <2>6. /\ Sel!FromNearest(j, Sel!Chosen) \in Int /\ Sel!FromNearest(j, Sel!Before(i)) \in Int
        /\ Sel!FromNearest(selected[i], Sel!Before(i)) \in Int
    BY <2>1, <2>2, <2>3, <2>5, NearestIs
  <2>7. IF ~Sel!Graded \/ pool.alpha = 0
        THEN Sel!FromNearest(j, Sel!Before(i)) <= Sel!FromNearest(selected[i], Sel!Before(i))
        ELSE pool.quality[selected[i]] < pool.quality[j] =>
               /\ pool.alpha = 1
               /\ Sel!FromNearest(j, Sel!Before(i)) < Sel!FromNearest(selected[i], Sel!Before(i))
    BY <2>1, <2>2, <2>3 DEF GoodChoice
  <2> QED
    BY <2>4, <2>6, <2>7
<1> QED
  BY <1>1, <1>2 DEF Sel!SelectionIsSpread

LEMMA PoolStepKeeps ==
    ASSUME PoolInv, [Sel!Next]_(Sel!vars)
    PROVE  PoolInv'
<1>1. CASE UNCHANGED Sel!vars
  <2>1. selected' = selected /\ pool' = pool
    BY <1>1 DEF Sel!vars
  <2>2. /\ Sel!Proposer' = Sel!Proposer /\ Sel!Kept' = Sel!Kept /\ (Sel!Graded' <=> Sel!Graded)
        /\ Sel!Chosen' = Sel!Chosen /\ (PoolOK(pool)' <=> PoolOK(pool))
        /\ \A i : Sel!Before(i)' = Sel!Before(i)
        /\ \A j, S : Sel!FromNearest(j, S)' = Sel!FromNearest(j, S)
    BY <2>1 DEF PoolOK, Sel!Proposer, Sel!Kept, Sel!Graded, Sel!Chosen, Sel!FromNearest, Sel!Distance, Sel!Before
  <2>3. \A i \in 2 .. Len(selected) : GoodChoice(i)'
    BY <2>1, <2>2 DEF PoolInv, GoodChoice
  <2> QED
    BY <2>1, <2>2, <2>3 DEF PoolInv
<1> QED
  BY <1>1, PickKeeps DEF Sel!Next

\* focal_diversity_select, for any number of proposers, any distances between
\* their answers and any grades: who stays is spread.
THEOREM AnySelectionHolds ==
    PoolOK(pool) /\ Sel!InitIn({pool}) /\ [][Sel!Next]_(Sel!vars) => []Sel!SelectionIsSpread
<1>1. PoolOK(pool) /\ Sel!InitIn({pool}) => PoolInv
  BY PoolInitHolds DEF Sel!InitIn
<1>2. PoolInv /\ [Sel!Next]_(Sel!vars) => PoolInv'
  BY PoolStepKeeps
<1>3. PoolInv => Sel!SelectionIsSpread
  BY PoolIsSpread
<1> QED
  BY <1>1, <1>2, <1>3, PTL

LEMMA PoolsAreOK == Pools # {} /\ \A p \in Pools : PoolOK(p)
<1>1. \A n \in {3, 4} : \A i, j \in 1 .. n : i # j => {i, j} \in PairsUpTo(n)
  <2> SUFFICES ASSUME NEW n \in {3, 4}, NEW i \in 1 .. n, NEW j \in 1 .. n, i # j
               PROVE  {i, j} \in PairsUpTo(n)
    OBVIOUS
  <2>1. Cardinality({i, j}) = 2
    BY TwoOf
  <2> QED
    BY <2>1 DEF PairsUpTo
<1>2. ASSUME NEW p \in Pools PROVE PoolOK(p)
  <2>1. \A i, j \in 1 .. p.n : i # j => {i, j} \in PairsUpTo(p.n)
    BY <1>1 DEF Pools
  <2>2. \A r \in PairsUpTo(p.n) : p.apart[r] \in Int
    BY DEF Pools
  <2>3. p.n \in Nat \ {0} /\ p.k \in Int /\ p.alpha \in 0 .. 2
    BY DEF Pools
  <2>4. p.quality = <<>> \/ p.quality \in [1 .. p.n -> Int]
    <3>1. p.quality = <<>> \/ (p.n = 3 /\ p.quality \in [1 .. 3 -> 0 .. 2])
      BY DEF Pools
    <3>2. [1 .. 3 -> 0 .. 2] \subseteq [1 .. 3 -> Int]
      OBVIOUS
    <3> QED
      BY <3>1, <3>2
  <2> QED
    BY <2>1, <2>2, <2>3, <2>4 DEF PoolOK
<1>3. Pools # {}
  <2>1. [r \in PairsUpTo(4) |-> 0] \in [PairsUpTo(4) -> {0, 1, 3}]
    OBVIOUS
  <2>2. \A a \in [PairsUpTo(4) -> {0, 1, 3}] :
          [n |-> 4, k |-> 0, apart |-> a, blank |-> {}, quality |-> <<>>, alpha |-> 1] \in Pools
    BY DEF Pools
  <2> QED
    BY <2>1, <2>2
<1> QED
  BY <1>2, <1>3

\* The same of the pools that are listed.
THEOREM SelectionHolds == MCSpec => []SelectionIsSpread
<1>1. MCInit => PoolInv
  <2> SUFFICES ASSUME MCInit PROVE PoolInv
    OBVIOUS
  <2>1. OnePool \subseteq Pools
    BY PoolsAreOK DEF OnePool
  <2>2. PoolOK(pool)
    BY <2>1, PoolsAreOK DEF MCInit, Sel!InitIn
  <2> QED
    BY <2>2, PoolInitHolds DEF MCInit, Sel!InitIn
<1>2. PoolInv /\ [MCNext]_allVars => PoolInv'
  <2>1. [MCNext]_allVars => [Sel!Next]_(Sel!vars)
    BY DEF MCNext, AccountsStep, McpStep, DocumentsStep, ServerStep, PageStep, ModelsStep, SelectionStep,
           DatasetsStep, FeedbackStep, allVars, poolVars, Sel!vars
  <2> QED
    BY <2>1, PoolStepKeeps
<1>3. PoolInv => SelectionIsSpread
  BY PoolIsSpread DEF SelectionIsSpread
<1> QED
  BY <1>1, <1>2, <1>3, PTL DEF MCSpec


-----------------------------------------------------------------------------
(* The generated datasets (Datasets).                                        *)

LessThan(i, S) == {j \in S : j < i}

\* A finite set of numbers has an n-th one, for each n up to how many there are.
LEMMA NthIs ==
    ASSUME NEW S \in SUBSET Int, IsFiniteSet(S), NEW n \in 1 .. Cardinality(S)
    PROVE  Data!Nth(n, S) \in S /\ Cardinality(LessThan(Data!Nth(n, S), S)) = n - 1
<1> DEFINE Below(i, T) == {j \in T : j < i}
           HasAll(T) == \A k \in 1 .. Cardinality(T) : \E i \in T : Cardinality(Below(i, T)) = k - 1
           Bad == {T \in FiniteSubsetsOf(S) : ~HasAll(T)}
<1>1. ASSUME Bad # {} PROVE FALSE
  <2>1. PICK T \in Bad : \A V \in Bad : <<V, T>> \notin StrictSubsetOrdering(S)
    <3>1. Bad \subseteq FiniteSubsetsOf(S)
      OBVIOUS
    <3> HIDE DEF Bad
    <3> QED
      BY <3>1, <1>1, WFMin, FS_StrictSubsetOrderingWellFounded
  <2>2. T \subseteq S /\ IsFiniteSet(T) /\ ~HasAll(T)
    BY DEF FiniteSubsetsOf
  <2>3. T # {}
    <3>1. Cardinality({}) = 0 /\ 1 .. 0 = {}
      BY FS_EmptySet
    <3> QED
      BY <2>2, <3>1
  <2>4. PICK m \in T : \A j \in T : j <= m
    <3> DEFINE g == [t \in T |-> t]
    <3>1. g \in [T -> Int]
      BY <2>2
    <3>2. \E s \in T : \A t \in T : g[t] <= g[s]
      <4> HIDE DEF g
      <4> QED
        BY <2>2, <2>3, <3>1, MostOfIs
    <3> QED
      BY <3>2
  <2> DEFINE V == T \ {m}
  <2>5. V \subseteq S /\ IsFiniteSet(V) /\ V # T /\ Cardinality(V) = Cardinality(T) - 1 /\ Cardinality(T) \in Nat
    BY <2>2, <2>4, FS_RemoveElement, FS_CardinalityType
  <2>6. <<V, T>> \in StrictSubsetOrdering(S)
    BY <2>2, <2>5 DEF StrictSubsetOrdering
  <2>7. HasAll(V)
    BY <2>1, <2>5, <2>6 DEF FiniteSubsetsOf
  <2>8. Below(m, T) = V /\ \A i \in V : Below(i, T) = Below(i, V)
    <3>1. \A j \in T : j \in Int /\ m \in Int /\ j <= m
      BY <2>2, <2>4
    <3>2. \A j \in T : j < m <=> j # m
      BY <3>1
    <3>3. \A i \in V : i <= m /\ i # m /\ ~(m < i)
      BY <3>1
    <3> QED
      BY <3>2, <3>3
  <2>9. ASSUME NEW k \in 1 .. Cardinality(T)
        PROVE  \E i \in T : Cardinality(Below(i, T)) = k - 1
    <3>1. CASE k = Cardinality(T)
      BY <2>4, <2>5, <2>8, <3>1
    <3>2. CASE k # Cardinality(T)
      <4>1. k \in 1 .. Cardinality(V)
        BY <2>5, <3>2
      <4> QED
        BY <2>7, <2>8, <4>1
    <3> QED
      BY <3>1, <3>2
  <2> QED
    BY <2>2, <2>9
<1>2. HasAll(S)
  BY <1>1 DEF FiniteSubsetsOf
<1>3. \A T : Data!Cardinality(T) = Cardinality(T)
  BY DEF Data!Cardinality, Data!IsFiniteSet, Cardinality, IsFiniteSet
<1>4. \E i \in S : Data!Cardinality({j \in S : j < i}) = n - 1
  BY <1>2, <1>3
<1>5. LET i == Data!Nth(n, S) IN i \in S /\ Data!Cardinality({j \in S : j < i}) = n - 1
  BY <1>4 DEF Data!Nth
<1> QED
  BY <1>3, <1>5 DEF LessThan

\* What a request is: a schema has the types there are.
Types == {"integer", "number", "boolean", "string"}
SpecOK == spec.n \in Nat /\ \A c \in DOMAIN spec.schema : spec.schema[c] \in Types

\* Data!NamesRepeat, of given columns.
Repeat(columns, draw) ==
    LET names == Data!Names(columns, draw.values)
    IN  \E i, j \in DOMAIN names : i # j /\ names[i] = names[j]

\* What the rows are once they are made.
RowsOK ==
    /\ \E m \in Nat : m <= spec.n /\ Len(generated) = m /\ DOMAIN generated = 1 .. m
    /\ \A i \in DOMAIN generated :
         /\ DOMAIN generated[i] \subseteq DOMAIN schema
         /\ spec.source = "llm" =>
              \A c \in DOMAIN schema : c \in DOMAIN generated[i] /\ Data!ScalarType(generated[i][c]) = schema[c]
         /\ spec.source = "mixle" /\ source.draws[i].kind = "values" =>
              \/ Repeat(spec.columns, source.draws[i])
              \/ Data!Cardinality(DOMAIN generated[i]) = Len(source.draws[i].values)

\* A file has the rows and all their columns, and only a dataset has a row.
DataInv ==
    /\ SpecOK
    /\ job = "begin" => blob = Data!Absent /\ artifact = Data!Absent
    /\ job = "generated" => RowsOK /\ blob = Data!Absent /\ artifact = Data!Absent
    /\ job = "exported" => blob # Data!Absent /\ artifact = Data!Absent
    /\ blob # Data!Absent =>
         /\ RowsOK /\ blob.rows = generated
         /\ \A i \in DOMAIN generated : DOMAIN generated[i] \subseteq blob.columns
    /\ artifact # Data!Absent =>
         blob # Data!Absent /\ artifact.n_rows = Len(generated) /\ artifact.schema = schema

LEMMA DataIsWhole ==
    ASSUME DataInv
    PROVE  Data!DatasetIsWhole
<1> SUFFICES ASSUME artifact # Data!Absent PROVE Data!DatasetIsWhole
  BY DEF Data!DatasetIsWhole
<1>1. /\ blob # Data!Absent /\ artifact.n_rows = Len(generated) /\ artifact.schema = schema /\ RowsOK
      /\ blob.rows = generated /\ \A i \in DOMAIN generated : DOMAIN generated[i] \subseteq blob.columns
  BY DEF DataInv
<1>2. Len(generated) <= spec.n
  BY <1>1 DEF RowsOK
<1>3. \A i \in DOMAIN generated :
        /\ DOMAIN generated[i] \subseteq blob.columns \cap DOMAIN schema
        /\ spec.source = "llm" =>
             \A c \in DOMAIN schema : c \in DOMAIN generated[i] /\ Data!ScalarType(generated[i][c]) = schema[c]
        /\ spec.source = "mixle" /\ source.draws[i].kind = "values" =>
             Data!HasEveryValue(generated[i], source.draws[i])
  BY <1>1 DEF RowsOK, Data!HasEveryValue, Data!NamesRepeat, Repeat
<1> QED
  BY <1>1, <1>2, <1>3 DEF Data!DatasetIsWhole

\* A step of the request that makes no rows.
LEMMA ExportKeeps ==
    ASSUME DataInv, Data!Export
    PROVE  DataInv'
<1>1. /\ job = "generated" /\ UNCHANGED <<spec, source, generated, schema, artifact>>
      /\ \/ /\ spec.fmt \in {"jsonl", "csv", "parquet"} /\ job' = "exported"
            /\ blob' = [kind |-> spec.fmt, rows |-> generated, columns |-> Data!ColumnsOf(spec.fmt)]
         \/ blob' = blob /\ job' = "done"
  BY DEF Data!Export, Data!Answer
<1>2. RowsOK /\ blob = Data!Absent /\ artifact = Data!Absent /\ SpecOK
  BY <1>1 DEF DataInv
<1>3. RowsOK' /\ SpecOK'
  BY <1>1, <1>2 DEF RowsOK, SpecOK
<1>4. CASE blob' = [kind |-> spec.fmt, rows |-> generated, columns |-> Data!ColumnsOf(spec.fmt)]
             /\ spec.fmt \in {"jsonl", "csv", "parquet"} /\ job' = "exported"
  <2>1. blob' # Data!Absent /\ blob'.rows = generated /\ blob'.columns = Data!ColumnsOf(spec.fmt)
    BY <1>4 DEF Data!Absent
  <2>2. \A i \in DOMAIN generated : DOMAIN generated[i] \subseteq Data!ColumnsOf(spec.fmt)
    <3>1. \A i \in DOMAIN generated : DOMAIN generated[i] \subseteq DOMAIN schema
      BY <1>2 DEF RowsOK
    <3>2. \A i \in DOMAIN generated : DOMAIN generated[i] \subseteq UNION {DOMAIN generated[j] : j \in DOMAIN generated}
      OBVIOUS
    <3> QED
      BY <1>4, <3>1, <3>2 DEF Data!ColumnsOf
  <2> QED
    BY <1>1, <1>2, <1>3, <1>4, <2>1, <2>2 DEF DataInv, Data!Absent
<1>5. CASE blob' = blob /\ job' = "done"
  BY <1>1, <1>2, <1>3, <1>5 DEF DataInv, Data!Absent
<1> QED
  BY <1>1, <1>4, <1>5

LEMMA OtherwiseDataKeeps ==
    ASSUME DataInv, Data!Refuse \/ Data!Persist \/ Data!Fail \/ UNCHANGED Data!vars
    PROVE  DataInv'
<1>1. /\ UNCHANGED <<spec, source, generated, schema, blob>>
      /\ job' \in {job, "done"}
      /\ \/ artifact' = artifact
         \/ job = "exported" /\ job' = "done"
               /\ artifact' = [kind |-> "row", n_rows |-> Len(generated), schema |-> schema]
  BY DEF Data!Refuse, Data!Persist, Data!Fail, Data!Answer, Data!vars
<1>2. SpecOK' /\ (RowsOK' <=> RowsOK) /\ Data!Absent' = Data!Absent
  BY <1>1 DEF DataInv, SpecOK, RowsOK, Data!Absent
<1> QED
  BY <1>1, <1>2 DEF DataInv

IsSeq(s) == \E m \in Nat : Len(s) = m /\ DOMAIN s = 1 .. m

\* As many names as values, when none repeats.
LEMMA RowOfDrawIs ==
    ASSUME NEW draw, draw.kind = "values" => IsSeq(draw.values)
    PROVE  draw.kind = "values" =>
             \/ Repeat(spec.columns, draw)
             \/ Data!Cardinality(DOMAIN Data!RowFromDraw(draw, spec.columns)) = Len(draw.values)
<1> SUFFICES ASSUME draw.kind = "values", ~Repeat(spec.columns, draw)
             PROVE  Data!Cardinality(DOMAIN Data!RowFromDraw(draw, spec.columns)) = Len(draw.values)
  OBVIOUS
<1> DEFINE names == Data!Names(spec.columns, draw.values)
           T == {names[i] : i \in DOMAIN names}
<1>1. PICK m \in Nat : Len(draw.values) = m /\ DOMAIN draw.values = 1 .. m
  BY DEF IsSeq
<1>2. DOMAIN names = 1 .. m /\ names = [i \in 1 .. m |-> names[i]]
  BY <1>1 DEF Data!Names
<1>3. \A i, j \in 1 .. m : names[i] = names[j] => i = j
  BY <1>1, <1>2 DEF Repeat
<1>4. DOMAIN Data!RowFromDraw(draw, spec.columns) = T
  BY DEF Data!RowFromDraw, Data!Taken
<1> HIDE DEF names
<1>5. names \in [1 .. m -> T] /\ \A t \in T : \E i \in 1 .. m : names[i] = t
  BY <1>2
<1> HIDE DEF T
<1>6. ExistsBijection(1 .. m, T)
  <2>1. names \in Bijection(1 .. m, T)
    BY <1>3, <1>5 DEF Bijection, Injection, Surjection, IsInjective
  <2> QED
    BY <2>1 DEF ExistsBijection
<1>7. Cardinality(T) = m
  <2>1. IsFiniteSet(1 .. m) /\ Cardinality(1 .. m) = m
    BY FS_Interval
  <2> QED
    BY <1>6, <2>1, FS_Bijection
<1>8. Data!Cardinality(T) = Cardinality(T)
  BY DEF Data!Cardinality, Data!IsFiniteSet, Cardinality, IsFiniteSet
<1> QED
  BY <1>1, <1>4, <1>7, <1>8

DrawsOK(draws) == IsSeq(draws) /\ \A i \in DOMAIN draws : draws[i].kind = "values" => IsSeq(draws[i].values)

LEMMA FromMixleKeeps ==
    ASSUME DataInv, NEW draws, DrawsOK(draws), Data!GenerateFromMixle(draws)
    PROVE  DataInv'
<1>1. /\ job = "begin" /\ spec.source = "mixle" /\ Len(draws) = spec.n
      /\ source' = [kind |-> "draws", draws |-> draws] /\ job' = "generated"
      /\ generated' = [i \in DOMAIN draws |-> Data!RowFromDraw(draws[i], spec.columns)]
      /\ schema' = Data!InferSchema(generated') /\ UNCHANGED <<spec, blob, artifact>>
  BY DEF Data!GenerateFromMixle, Data!Generated
<1>2. SpecOK' /\ blob = Data!Absent /\ artifact = Data!Absent
  BY <1>1 DEF DataInv, SpecOK
<1>3. PICK m \in Nat : Len(draws) = m /\ DOMAIN draws = 1 .. m
  BY DEF DrawsOK, IsSeq
<1>4. DOMAIN generated' = 1 .. m /\ Len(generated') = m
  BY <1>1, <1>3
<1>5. ASSUME NEW i \in 1 .. m
      PROVE  /\ DOMAIN generated'[i] \subseteq DOMAIN schema'
             /\ source'.draws[i].kind = "values" =>
                  \/ Repeat(spec.columns, source'.draws[i])
                  \/ Data!Cardinality(DOMAIN generated'[i]) = Len(source'.draws[i].values)
  <2>1. generated'[i] = Data!RowFromDraw(draws[i], spec.columns) /\ source'.draws = draws
    BY <1>1, <1>3
  <2>2. DOMAIN schema' = UNION {DOMAIN generated'[j] : j \in DOMAIN generated'}
    BY <1>1 DEF Data!InferSchema
  <2>3. draws[i].kind = "values" => IsSeq(draws[i].values)
    BY <1>3 DEF DrawsOK
  <2> QED
    BY <1>4, <2>1, <2>2, <2>3, RowOfDrawIs
<1>6. RowsOK'
  BY <1>1, <1>3, <1>4, <1>5 DEF RowsOK
<1> QED
  BY <1>1, <1>2, <1>6 DEF DataInv, Data!Absent

\* A record that fits has, once coerced, every column with the type of the schema.
LEMMA CoercedIs ==
    ASSUME NEW record, NEW columns, Data!Fits(record, columns), \A c \in DOMAIN columns : columns[c] \in Types
    PROVE  /\ DOMAIN Data!CoerceToSchema(record, columns) = DOMAIN columns
           /\ \A c \in DOMAIN columns : Data!ScalarType(Data!CoerceToSchema(record, columns)[c]) = columns[c]
<1>1. DOMAIN columns \cap DOMAIN record.row = DOMAIN columns
  BY DEF Data!Fits, Data!HasFit
<1>2. Data!CoerceToSchema(record, columns) = [c \in DOMAIN columns |-> Data!Kind[columns[c]]]
  BY <1>1 DEF Data!CoerceToSchema
<1>3. \A t \in Types : Data!ScalarType(Data!Kind[t]) = t
  BY DEF Types, Data!ScalarType, Data!Kind
<1> QED
  BY <1>2, <1>3

LEMMA ParsedIs ==
    ASSUME NEW text, NEW columns, IsSeq(Data!Candidates(text)), \A c \in DOMAIN columns : columns[c] \in Types
    PROVE  \E m \in Nat :
             /\ Len(Data!ParseLlmRecords(text, columns)) = m
             /\ \A k \in 1 .. m :
                  /\ DOMAIN Data!ParseLlmRecords(text, columns)[k] = DOMAIN columns
                  /\ \A c \in DOMAIN columns :
                       Data!ScalarType(Data!ParseLlmRecords(text, columns)[k][c]) = columns[c]
<1> DEFINE records == Data!Candidates(text)
           fitting == Data!Fitting(records, columns)
           parsed == Data!ParseLlmRecords(text, columns)
<1>1. fitting \subseteq Int /\ IsFiniteSet(fitting) /\ \A i \in fitting : Data!Fits(records[i], columns)
  <2>1. PICK m \in Nat : DOMAIN records = 1 .. m
    BY DEF IsSeq
  <2>2. IsFiniteSet(1 .. m) /\ fitting \subseteq 1 .. m
    BY <2>1, FS_Interval DEF Data!Fitting
  <2> QED
    BY <2>2, FS_Subset DEF Data!Fitting
<1>2. Data!Cardinality(fitting) = Cardinality(fitting) /\ Cardinality(fitting) \in Nat
  <2>1. \A T : Data!Cardinality(T) = Cardinality(T)
    BY DEF Data!Cardinality, Data!IsFiniteSet, Cardinality, IsFiniteSet
  <2> QED
    BY <1>1, <2>1, FS_CardinalityType
<1> DEFINE m == Cardinality(fitting)
<1>3. parsed = [k \in 1 .. m |-> Data!CoerceToSchema(records[Data!Nth(k, fitting)], columns)]
  BY <1>2 DEF Data!ParseLlmRecords, Data!AtPositions
<1> HIDE DEF fitting, records, parsed
<1>4. \A k \in 1 .. m : Data!Fits(records[Data!Nth(k, fitting)], columns)
  BY <1>1, NthIs
<1> HIDE DEF m
<1>5. m \in Nat /\ Len(parsed) = m
  <2> DEFINE coerced(k) == Data!CoerceToSchema(records[Data!Nth(k, fitting)], columns)
  <2>1. m \in Nat /\ parsed = [k \in 1 .. m |-> coerced(k)]
    BY <1>2, <1>3 DEF m
  <2> HIDE DEF coerced
  <2>2. parsed \in Seq({coerced(k) : k \in 1 .. m}) /\ DOMAIN parsed = 1 .. m
    BY <2>1
  <2> QED
    BY <2>1, <2>2
<1>6. \A k \in 1 .. m : /\ DOMAIN parsed[k] = DOMAIN columns
                        /\ \A c \in DOMAIN columns : Data!ScalarType(parsed[k][c]) = columns[c]
  BY <1>3, <1>4, CoercedIs
<1> QED
  BY <1>5, <1>6 DEF parsed

\* The first n of a sequence.
LEMMA PrefixIs ==
    ASSUME NEW table1, NEW l \in Nat
    PROVE  /\ Len(SubSeq(table1, 1, l)) = l /\ DOMAIN SubSeq(table1, 1, l) = 1 .. l
           /\ \A k \in 1 .. l : SubSeq(table1, 1, l)[k] = table1[k]
<1> DEFINE S == {table1[k] : k \in 1 .. l}
<1>1. 1 \in Int /\ l \in Int /\ \A k \in 1 .. l : table1[k] \in S
  OBVIOUS
<1> HIDE DEF S
<1>2. /\ SubSeq(table1, 1, l) \in Seq(S)
      /\ Len(SubSeq(table1, 1, l)) = IF 1 <= l THEN l - 1 + 1 ELSE 0
      /\ \A k \in 1 .. l - 1 + 1 : SubSeq(table1, 1, l)[k] = table1[1 + k - 1]
  BY <1>1, SubSeqProperties
<1> HIDE DEF S
<1>3. Len(SubSeq(table1, 1, l)) = l
  BY <1>2
<1>4. ASSUME NEW k \in 1 .. l PROVE SubSeq(table1, 1, l)[k] = table1[k]
  <2>1. k \in 1 .. l - 1 + 1 /\ 1 + k - 1 = k
    OBVIOUS
  <2> QED
    BY <1>2, <2>1
<1> QED
  BY <1>2, <1>3, <1>4

LEMMA FirstIs ==
    ASSUME NEW n \in Nat, NEW m \in Nat, NEW table1, Len(table1) = m
    PROVE  \E l \in Nat : /\ l <= n /\ l <= m /\ Len(Data!First(n, table1)) = l /\ DOMAIN Data!First(n, table1) = 1 .. l
                          /\ \A k \in 1 .. l : Data!First(n, table1)[k] = table1[k]
<1> DEFINE l == IF n < m THEN n ELSE m
<1>1. l \in Nat /\ l <= n /\ l <= m /\ Data!First(n, table1) = SubSeq(table1, 1, l)
  BY DEF Data!First, Data!Least
<1> HIDE DEF l
<1> QED
  BY <1>1, PrefixIs

TextsOK(text) == IsSeq(Data!Candidates(text))

LEMMA FromLlmKeeps ==
    ASSUME DataInv, NEW text, TextsOK(text), Data!GenerateFromLlm(text)
    PROVE  DataInv'
<1> DEFINE parsed == Data!ParseLlmRecords(text, spec.schema)
           raises == \E i \in DOMAIN Data!Candidates(text) : Data!Overflows(Data!Candidates(text)[i], spec.schema, spec.order)
<1>1. /\ job = "begin" /\ spec.source = "llm" /\ UNCHANGED <<spec, blob, artifact>>
      /\ \/ job' = "done"
         \/ /\ job' = "generated" /\ schema' = spec.schema
            /\ generated' = Data!First(spec.n, parsed)
  <2>1. job = "begin" /\ spec.source = "llm"
    BY DEF Data!GenerateFromLlm
  <2>2. CASE raises
    BY <2>1, <2>2 DEF Data!GenerateFromLlm, Data!Answer
  <2>3. CASE ~raises
    BY <2>1, <2>3 DEF Data!GenerateFromLlm, Data!Generated
  <2> QED
    BY <2>2, <2>3, <2>1
<1>2. SpecOK /\ SpecOK' /\ blob = Data!Absent /\ artifact = Data!Absent
  BY <1>1 DEF DataInv, SpecOK
<1>3. CASE job' = "done"
  BY <1>1, <1>2, <1>3 DEF DataInv, Data!Absent
<1>4. CASE job' = "generated" /\ schema' = spec.schema /\ generated' = Data!First(spec.n, parsed)
  <2>1. \A c \in DOMAIN spec.schema : spec.schema[c] \in Types
    BY <1>2 DEF SpecOK
  <2>2. PICK m \in Nat :
          /\ Len(parsed) = m
          /\ \A k \in 1 .. m : /\ DOMAIN parsed[k] = DOMAIN spec.schema
                               /\ \A c \in DOMAIN spec.schema : Data!ScalarType(parsed[k][c]) = spec.schema[c]
    <3>1. IsSeq(Data!Candidates(text))
      BY DEF TextsOK
    <3> QED
      BY <2>1, <3>1, ParsedIs
  <2> HIDE DEF parsed
  <2>3. spec.n \in Nat
    BY <1>2 DEF SpecOK
  <2>4. PICK l \in Nat : /\ l <= spec.n /\ l <= m /\ Len(generated') = l /\ DOMAIN generated' = 1 .. l
                         /\ \A k \in 1 .. l : generated'[k] = parsed[k]
    <3>1. \E l \in Nat :
            /\ l <= spec.n /\ l <= m /\ Len(Data!First(spec.n, parsed)) = l
            /\ DOMAIN Data!First(spec.n, parsed) = 1 .. l
            /\ \A k \in 1 .. l : Data!First(spec.n, parsed)[k] = parsed[k]
      BY ONLY <2>2, <2>3, FirstIs
    <3> QED
      BY <1>4, <3>1
  <2>5. \A k \in 1 .. l : /\ DOMAIN generated'[k] = DOMAIN schema'
                          /\ \A c \in DOMAIN schema' : Data!ScalarType(generated'[k][c]) = schema'[c]
    <3>1. \A k \in 1 .. l : k \in 1 .. m
      BY <2>4
    <3> QED
      BY <1>4, <2>2, <2>4, <3>1
  <2>6. RowsOK'
    <3>1. spec' = spec /\ spec.source = "llm" /\ spec.source # "mixle"
      BY <1>1
    <3>2. \E k \in Nat : k <= spec'.n /\ Len(generated') = k /\ DOMAIN generated' = 1 .. k
      BY <2>4, <3>1
    <3> QED
      BY <2>4, <2>5, <3>1, <3>2 DEF RowsOK
  <2> QED
    BY <1>1, <1>2, <1>4, <2>6 DEF DataInv, Data!Absent
<1> QED
  BY <1>1, <1>3, <1>4

LEMMA DataKeeps ==
    ASSUME DataInv, NEW draws, \A d \in draws : DrawsOK(d), NEW texts, \A t \in texts : TextsOK(t),
           Data!Next(draws, texts) \/ UNCHANGED Data!vars
    PROVE  DataInv'
<1>1. CASE Data!Refuse \/ Data!Persist \/ Data!Fail \/ UNCHANGED Data!vars
  BY <1>1, OtherwiseDataKeeps
<1>2. CASE Data!Export
  BY <1>2, ExportKeeps
<1>3. CASE \E d \in draws : Data!GenerateFromMixle(d)
  BY <1>3, FromMixleKeeps
<1>4. CASE \E t \in texts : Data!GenerateFromLlm(t)
  BY <1>4, FromLlmKeeps
<1> QED
  BY <1>1, <1>2, <1>3, <1>4 DEF Data!Next

\* generate_dataset, export_dataset and _persist, for any requests whose schemas
\* have the types there are, any LLM, and any sampler: its draws may be dicts,
\* scalars, sequences and arrays, of which the values of sequences are promised
\* a column each.
THEOREM AnyDatasetHolds ==
    ASSUME NEW specs, \A s \in specs : s.n \in Nat /\ \A c \in DOMAIN s.schema : s.schema[c] \in Types,
           NEW draws, \A d \in draws : DrawsOK(d), NEW texts, \A t \in texts : TextsOK(t)
    PROVE  Data!InitIn(specs) /\ [][Data!Next(draws, texts)]_(Data!vars) => []Data!DatasetIsWhole
<1>1. Data!InitIn(specs) => DataInv
  BY DEF Data!InitIn, DataInv, SpecOK, Data!Absent
<1>2. DataInv /\ [Data!Next(draws, texts)]_(Data!vars) => DataInv'
  BY DataKeeps
<1>3. DataInv => Data!DatasetIsWhole
  BY DataIsWhole
<1> QED
  BY <1>1, <1>2, <1>3, PTL

LEMMA InputsOfDatasets ==
    /\ Orders # {} /\ \A s \in Orders : s.n \in Nat /\ \A c \in DOMAIN s.schema : s.schema[c] \in Types
    /\ \A d \in Draws : DrawsOK(d)
    /\ \A t \in LlmTexts : TextsOK(t)
<1>1. Orders # {}
  <2>1. [source |-> "web", fmt |-> "csv", n |-> 2, schema |-> <<>>, order |-> Forth, columns |-> <<>>,
         hosted |-> TRUE, able |-> FALSE]
          \in OrdersOf({"llm", "mixle", "web"}, {"csv"}, {<<>>}, {Forth}, {<<>>}, BOOLEAN, {FALSE})
    BY DEF OrdersOf
  <2> QED
    BY <2>1 DEF Orders
<1>2. ASSUME NEW s \in Orders PROVE s.n \in Nat /\ \A c \in DOMAIN s.schema : s.schema[c] \in Types
  <2>1. s.n = 2 /\ s.schema \in {<<>>} \cup Narrow \cup Wide
    BY DEF Orders, OrdersOf
  <2>2. \A table1 \in Narrow \cup Wide : \A c \in DOMAIN table1 : table1[c] \in Types
    BY DEF Narrow, Wide, Types
  <2> QED
    BY <2>1, <2>2
<1>3. ASSUME NEW d \in Draws PROVE DrawsOK(d)
  <2>1. IsSeq(d)
    BY DEF Draws, IsSeq
  <2>2. \A k : IsSeq(<<k>>) /\ IsSeq(<<k, "float">>)
    BY DEF IsSeq
  <2>3. ASSUME NEW i \in DOMAIN d PROVE d[i].kind = "values" => IsSeq(d[i].values)
    <3>1. \/ \E k : d[i] = Values(<<k>>)
          \/ \E k : d[i] = Values(<<k, "float">>)
          \/ d[i] \in {Dict([a |-> "int"]), Array(<<"float", "float">>)}
      BY DEF Draws
    <3>2. \A v : Values(v).values = v
      BY DEF Values
    <3>3. Dict([a |-> "int"]).kind # "values" /\ Array(<<"float", "float">>).kind # "values"
      BY DEF Dict, Array
    <3> QED
      BY <2>2, <3>1, <3>2, <3>3
  <2> QED
    BY <2>1, <2>3 DEF DrawsOK
<1>4. ASSUME NEW t \in LlmTexts PROVE TextsOK(t)
  <2>1. IsSeq(t.records)
    <3> DEFINE more == Dict([a |-> "int", b |-> "text"])
               longer == Record \X Record \X {more}
               shorter == {<<r>> : r \in Record}
    <3>1. t.records \in longer \cup shorter
      <4> HIDE DEF longer, shorter
      <4>1. t \in [shape : {"array", "object"}, records : longer]
                  \cup [shape : {"in prose", "prose", "fenced"}, records : shorter]
        BY DEF LlmTexts, longer, shorter
      <4> QED
        BY <4>1
    <3>2. (\E q, r, x : t.records = <<r, q, x>>) \/ \E r : t.records = <<r>>
      <4> HIDE DEF more
      <4>1. ASSUME t.records \in longer PROVE \E q, r, x : t.records = <<r, q, x>>
        BY <4>1
      <4>2. ASSUME t.records \in shorter PROVE \E r : t.records = <<r>>
        BY <4>2
      <4> QED
        BY <3>1, <4>1, <4>2
    <3>3. \A q, r, x : IsSeq(<<r, q, x>>) /\ IsSeq(<<r>>)
      BY DEF IsSeq
    <3> QED
      BY <3>2, <3>3
  <2>2. IsSeq(<<t.records[1]>>) /\ IsSeq(<<>>)
    BY DEF IsSeq
  <2> QED
    BY <2>1, <2>2 DEF TextsOK, Data!Candidates
<1> QED
  BY <1>1, <1>2, <1>3, <1>4

\* The same of the requests that are listed.
THEOREM DatasetHolds == MCSpec => []DatasetIsWhole
<1>1. MCInit => DataInv
  <2> SUFFICES ASSUME MCInit PROVE DataInv
    OBVIOUS
  <2>1. Of("datasets", Orders) \subseteq Orders
    BY InputsOfDatasets, OfIsIn
  <2>2. SpecOK
    BY <2>1, InputsOfDatasets DEF MCInit, Data!InitIn, SpecOK
  <2> QED
    BY <2>2 DEF MCInit, Data!InitIn, DataInv, Data!Absent
<1>2. DataInv /\ [MCNext]_allVars => DataInv'
  <2>1. [MCNext]_allVars => Data!Next(Draws, LlmTexts) \/ UNCHANGED Data!vars
    BY DEF MCNext, AccountsStep, McpStep, DocumentsStep, ServerStep, PageStep, ModelsStep, SelectionStep,
           DatasetsStep, FeedbackStep, allVars, datasetVars, Data!vars
  <2> QED
    BY <2>1, InputsOfDatasets, DataKeeps
<1>3. DataInv => DatasetIsWhole
  BY DataIsWhole DEF DatasetIsWhole
<1> QED
  BY <1>1, <1>2, <1>3, PTL DEF MCSpec


-----------------------------------------------------------------------------
(* Feedback and its preferences (Feedback).                                  *)

\* What is exported for an item is its own text or one that came with it, and
\* items with the same type and text are the same.
BodyOK(b) ==
    b.kind = "preference" /\ NoItem \notin {b.chosen, b.rejected} =>
        /\ b.chosen.type = b.rejected.type /\ b.chosen.text = b.rejected.text => b.chosen = b.rejected
        /\ Fb!TextOr(b.payload, "chosen_text", Fb!TextOr(b.payload, "chosen", b.chosen.text))
             \in {b.chosen.text, "better"}
        /\ Fb!TextOr(b.payload, "rejected_text", Fb!TextOr(b.payload, "rejected", b.rejected.text))
             \in {b.rejected.text, "worse"}

Body == Judgements \cup OtherBodies
BodyRow == {Fb!RowOf(b) : b \in {x \in Body : Fb!Refused(x) = 0}}

\* The one promoted leads the pairs that were fitted.
VerdictOK ==
    /\ \E m \in Nat : DOMAIN fitted = 1 .. m
    /\ verdict.promote => \E l \in Fb!Leaders(fitted) : l[1] = verdict.champion

FbInv ==
    /\ table \in Seq(BodyRow) /\ sent \in Seq(Body) /\ known \in Seq(Body)
    /\ \A r \in BodyRow : Fb!Times(known, r) <= Fb!Rows(r) /\ Fb!Rows(r) <= Fb!Times(sent, r)
    /\ \A i \in DOMAIN table : \E j \in DOMAIN sent : Fb!IsOf(sent[j], table[i])
    /\ \A i \in DOMAIN known : \E j \in DOMAIN table : Fb!IsOf(known[i], table[j])
    /\ VerdictOK

\* How many elements of a sequence are in a set.
Count(s, T) == Cardinality({i \in DOMAIN s : s[i] \in T})

\* One more element counts once, if it counts.
LEMMA OneCounts ==
    ASSUME NEW S, NEW s \in Seq(S), NEW x \in S, NEW T
    PROVE  Count(s, T) \in Nat /\ Count(Append(s, x), T) = Count(s, T) + IF x \in T THEN 1 ELSE 0
<1> DEFINE n == Len(s)
           before == {i \in DOMAIN s : s[i] \in T}
           after == {i \in DOMAIN Append(s, x) : Append(s, x)[i] \in T}
<1> SUFFICES Cardinality(before) \in Nat /\ Cardinality(after) = Cardinality(before) + IF x \in T THEN 1 ELSE 0
  BY DEF Count
<1>1. /\ n \in Nat /\ DOMAIN s = 1 .. n /\ DOMAIN Append(s, x) = 1 .. n + 1
      /\ Append(s, x)[n + 1] = x /\ \A i \in 1 .. n : Append(s, x)[i] = s[i]
  BY AppendProperties
<1>2. IsFiniteSet(before)
  <2>1. IsFiniteSet(1 .. n) /\ before \subseteq 1 .. n
    BY <1>1, FS_Interval
  <2> QED
    BY <2>1, FS_Subset
<1>3. Cardinality(before) \in Nat
  BY <1>2, FS_CardinalityType
<1>4. 1 .. n + 1 = (1 .. n) \cup {n + 1} /\ n + 1 \notin before
  BY <1>1
<1>5. CASE x \in T
  <2>1. after = before \cup {n + 1}
    BY <1>1, <1>4, <1>5
  <2>2. Cardinality(before \cup {n + 1}) = IF n + 1 \in before THEN Cardinality(before) ELSE Cardinality(before) + 1
    BY ONLY <1>2, FS_AddElement
  <2> HIDE DEF before, after, n
  <2> QED
    BY <1>3, <1>4, <1>5, <2>1, <2>2
<1>6. CASE x \notin T
  <2>1. after = before
    BY <1>1, <1>4, <1>6
  <2> HIDE DEF before, after, n
  <2> QED
    BY <1>3, <1>6, <2>1
<1> QED
  BY <1>3, <1>5, <1>6

\* The bodies that are kept as a row.
PostsOf(r) == {b \in Body : Fb!IsOf(b, r)}

\* How often a row was posted, and how often it is there, as such counts.
LEMMA CountsAre ==
    ASSUME NEW r
    PROVE  /\ \A s \in Seq(Body) : Fb!Times(s, r) = Count(s, PostsOf(r))
           /\ Fb!Rows(r) = Count(table, {r}) /\ Fb!Rows(r)' = Count(table', {r})
<1>1. \A S : Fb!Cardinality(S) = Cardinality(S)
  BY DEF Fb!Cardinality, Fb!IsFiniteSet, Cardinality, IsFiniteSet
<1>2. ASSUME NEW s \in Seq(Body)
      PROVE  {i \in DOMAIN s : Fb!IsOf(s[i], r)} = {i \in DOMAIN s : s[i] \in PostsOf(r)}
  <2>1. \A i \in DOMAIN s : s[i] \in Body
    OBVIOUS
  <2> QED
    BY <2>1 DEF PostsOf
<1>3. \A s : {i \in DOMAIN s : s[i] = r} = {i \in DOMAIN s : s[i] \in {r}}
  OBVIOUS
<1> QED
  BY <1>1, <1>2, <1>3 DEF Fb!Times, Fb!Rows, Count

LEMMA TimesGrows ==
    ASSUME NEW s \in Seq(Body), NEW b \in Body, NEW r
    PROVE  /\ Fb!Times(s, r) \in Nat
           /\ Fb!Times(Append(s, b), r) = Fb!Times(s, r) + IF Fb!IsOf(b, r) THEN 1 ELSE 0
<1>1. b \in PostsOf(r) <=> Fb!IsOf(b, r)
  BY DEF PostsOf
<1>2. Fb!Times(s, r) = Count(s, PostsOf(r)) /\ Fb!Times(Append(s, b), r) = Count(Append(s, b), PostsOf(r))
  <2>1. Append(s, b) \in Seq(Body)
    OBVIOUS
  <2> QED
    BY <2>1, CountsAre
<1> QED
  BY <1>1, <1>2, OneCounts

LEMMA RowsGrow ==
    ASSUME table \in Seq(BodyRow), NEW row \in BodyRow, table' = Append(table, row), NEW r
    PROVE  /\ Fb!Rows(r) \in Nat
           /\ Fb!Rows(r)' = Fb!Rows(r) + IF row = r THEN 1 ELSE 0
<1>1. Count(table, {r}) \in Nat /\ Count(Append(table, row), {r}) = Count(table, {r}) + IF row \in {r} THEN 1 ELSE 0
  BY OneCounts
<1> QED
  BY <1>1, CountsAre

LEMMA PostKeeps ==
    ASSUME FbInv, NEW b \in Body, Fb!PostFeedback(b)
    PROVE  FbInv'
<1> DEFINE row == Fb!RowOf(b)
<1>1. /\ sent' = Append(sent, b) /\ UNCHANGED <<fitted, verdict>>
      /\ \/ UNCHANGED <<table, known>>
         \/ Fb!Refused(b) = 0 /\ table' = Append(table, row) /\ known' \in {known, Append(known, b)}
  BY DEF Fb!PostFeedback, Fb!Save, Fb!Kept
<1>2. /\ table \in Seq(BodyRow) /\ sent \in Seq(Body) /\ known \in Seq(Body)
      /\ Fb!Refused(b) = 0 => row \in BodyRow
  BY DEF FbInv, BodyRow
<1>3. table' \in Seq(BodyRow) /\ sent' \in Seq(Body) /\ known' \in Seq(Body)
  <2> HIDE DEF row
  <2>1. /\ Fb!Refused(b) = 0 => Append(table, row) \in Seq(BodyRow)
        /\ Append(sent, b) \in Seq(Body) /\ Append(known, b) \in Seq(Body)
    BY <1>2
  <2> QED
    BY <1>1, <1>2, <2>1
<1>4. ASSUME NEW r \in BodyRow
      PROVE  Fb!Times(known', r) <= Fb!Rows(r)' /\ Fb!Rows(r)' <= Fb!Times(sent', r)
  <2>1. /\ Fb!Times(known, r) \in Nat /\ Fb!Times(sent, r) \in Nat
        /\ Fb!Times(Append(known, b), r) = Fb!Times(known, r) + IF Fb!IsOf(b, r) THEN 1 ELSE 0
        /\ Fb!Times(sent', r) = Fb!Times(sent, r) + IF Fb!IsOf(b, r) THEN 1 ELSE 0
    BY <1>1, <1>2, TimesGrows
  <2>2. Fb!Times(known, r) <= Fb!Rows(r) /\ Fb!Rows(r) <= Fb!Times(sent, r)
    BY DEF FbInv
  <2>3. Fb!Rows(r) \in Nat
    <3>1. Fb!Rows(r) = Count(table, {r})
      BY CountsAre
    <3> QED
      BY <1>2, <3>1, OneCounts
  <2>4. CASE UNCHANGED <<table, known>>
    <3>1. Fb!Rows(r)' = Fb!Rows(r)
      BY <2>4, CountsAre
    <3> QED
      BY <2>1, <2>2, <2>3, <2>4, <3>1
  <2>5. CASE Fb!Refused(b) = 0 /\ table' = Append(table, row) /\ known' \in {known, Append(known, b)}
    <3>1. Fb!Rows(r)' = Fb!Rows(r) + IF row = r THEN 1 ELSE 0
      BY <1>2, <2>5, RowsGrow
    <3>2. Fb!IsOf(b, r) <=> row = r
      BY <2>5 DEF Fb!IsOf
    <3>3. Fb!Times(known', r) <= Fb!Times(known, r) + IF Fb!IsOf(b, r) THEN 1 ELSE 0
      <4>1. CASE known' = known
        BY <2>1, <4>1
      <4>2. CASE known' = Append(known, b)
        BY <2>1, <4>2
      <4> QED
        BY <2>5, <4>1, <4>2
    <3>4. Fb!Times(known', r) \in Nat
      BY <1>3, TimesGrows
    <3> HIDE DEF row
    <3> QED
      BY <2>1, <2>2, <2>3, <3>1, <3>2, <3>3, <3>4
  <2> QED
    BY <1>1, <2>4, <2>5
<1>5. \A i \in DOMAIN table' : \E j \in DOMAIN sent' : Fb!IsOf(sent'[j], table'[i])
  <2>1. \A i \in DOMAIN table : \E j \in DOMAIN sent : Fb!IsOf(sent[j], table[i])
    BY DEF FbInv
  <2>2. \A j \in DOMAIN sent : j \in DOMAIN sent' /\ sent'[j] = sent[j]
    BY <1>1, <1>2
  <2>3. Len(sent) + 1 \in DOMAIN sent' /\ sent'[Len(sent) + 1] = b
    BY <1>1, <1>2
  <2>4. CASE table' = table
    BY <2>1, <2>2, <2>4
  <2>5. CASE Fb!Refused(b) = 0 /\ table' = Append(table, row)
    <3>1. Fb!IsOf(b, row)
      BY <2>5 DEF Fb!IsOf
    <3> HIDE DEF row
    <3>2. \A i \in DOMAIN table' : (i \in DOMAIN table /\ table'[i] = table[i]) \/ table'[i] = row
      BY <1>2, <2>5
    <3> QED
      BY <2>1, <2>2, <2>3, <3>1, <3>2
  <2> QED
    BY <1>1, <2>4, <2>5
<1>6. \A i \in DOMAIN known' : \E j \in DOMAIN table' : Fb!IsOf(known'[i], table'[j])
  <2>1. \A i \in DOMAIN known : \E j \in DOMAIN table : Fb!IsOf(known[i], table[j])
    BY DEF FbInv
  <2>2. CASE UNCHANGED <<table, known>>
    BY <2>1, <2>2
  <2>3. CASE Fb!Refused(b) = 0 /\ table' = Append(table, row) /\ known' \in {known, Append(known, b)}
    <3>1. Fb!IsOf(b, row)
      BY <2>3 DEF Fb!IsOf
    <3> HIDE DEF row
    <3>2. \A j \in DOMAIN table : j \in DOMAIN table' /\ table'[j] = table[j]
      BY <1>2, <2>3
    <3>3. Len(table) + 1 \in DOMAIN table' /\ table'[Len(table) + 1] = row
      BY <1>2, <2>3
    <3>4. \A i \in DOMAIN known' : (i \in DOMAIN known /\ known'[i] = known[i]) \/ known'[i] = b
      <4>1. CASE known' = known
        BY <4>1
      <4>2. CASE known' = Append(known, b)
        BY <1>2, <4>2
      <4> QED
        BY <2>3, <4>1, <4>2
    <3> QED
      BY <2>1, <3>1, <3>2, <3>3, <3>4
  <2> QED
    BY <1>1, <2>2, <2>3
<1>7. VerdictOK'
  BY <1>1 DEF FbInv, VerdictOK
<1> QED
  BY <1>3, <1>4, <1>5, <1>6, <1>7 DEF FbInv

\* What is listed are listed that are preferences, as many as there are.
LEMMA ListedAre ==
    ASSUME table \in Seq(BodyRow), NEW m
    PROVE  \E n \in Nat :
             /\ DOMAIN Fb!ListPreferences(m) = 1 .. n
             /\ \A i \in 1 .. n : \E j \in DOMAIN table :
                  Fb!ListPreferences(m)[i] = table[j] /\ table[j].kind = "preference"
<1> DEFINE S == {i \in DOMAIN table : Fb!Has(table[i], m)}
           n == Cardinality(S)
<1>1. S \subseteq Int /\ IsFiniteSet(S) /\ n \in Nat
  <2>1. IsFiniteSet(1 .. Len(table)) /\ S \subseteq 1 .. Len(table)
    BY FS_Interval
  <2> QED
    BY <2>1, FS_Subset, FS_CardinalityType
<1>2. \A i : Fb!Nth(i, S) = Data!Nth(i, S)
  BY DEF Fb!Nth, Data!Nth, Fb!Cardinality, Fb!IsFiniteSet, Data!Cardinality, Data!IsFiniteSet
<1>3. Fb!Cardinality(S) = n
  BY DEF Fb!Cardinality, Fb!IsFiniteSet, Cardinality, IsFiniteSet
<1>4. Fb!ListPreferences(m) = [i \in 1 .. n |-> table[Data!Nth(i, S)]]
  BY <1>2, <1>3 DEF Fb!ListPreferences, Fb!AtPositions
<1>5. \A i \in S : i \in DOMAIN table /\ table[i].kind = "preference"
  BY DEF Fb!Has
<1> HIDE DEF S
<1>6. \A i \in 1 .. n : Data!Nth(i, S) \in S
  BY <1>1, NthIs
<1> HIDE DEF n
<1> QED
  BY <1>1, <1>4, <1>5, <1>6

LEMMA FitKeeps ==
    ASSUME FbInv, NEW model, Fb!Fit(model)
    PROVE  FbInv'
<1> DEFINE pairs == Fb!PreferencePairs(model)
<1>1. UNCHANGED <<table, sent, known>>
  BY DEF Fb!Fit
<1>2. VerdictOK'
  <2>1. \/ UNCHANGED <<fitted, verdict>>
        \/ \E l \in Fb!Leaders(pairs) : /\ fitted' = pairs
                                        /\ verdict'.promote => verdict'.champion = l[1]
    BY DEF Fb!Fit, Fb!FitReward
  <2>2. \E m \in Nat : DOMAIN pairs = 1 .. m
    <3>1. table \in Seq(BodyRow)
      BY DEF FbInv
    <3>2. DOMAIN pairs = DOMAIN Fb!ListPreferences(model)
      BY DEF Fb!PreferencePairs
    <3> HIDE DEF pairs
    <3> QED
      BY <3>1, <3>2, ListedAre
  <2> HIDE DEF pairs
  <2>3. CASE UNCHANGED <<fitted, verdict>>
    BY <2>3 DEF FbInv, VerdictOK
  <2>4. CASE \E l \in Fb!Leaders(pairs) : fitted' = pairs /\ (verdict'.promote => verdict'.champion = l[1])
    BY <2>2, <2>4 DEF VerdictOK
  <2> QED
    BY <2>1, <2>3, <2>4
<1>3. \A r : Fb!Rows(r)' = Fb!Rows(r)
  BY <1>1, CountsAre
<1> QED
  BY <1>1, <1>2, <1>3 DEF FbInv

LEMMA FbKeeps ==
    ASSUME FbInv, NEW bodies \in SUBSET Body, NEW models, Fb!Next(bodies, models) \/ UNCHANGED Fb!vars
    PROVE  FbInv'
<1>1. CASE \E b \in bodies : Fb!PostFeedback(b)
  BY <1>1, PostKeeps
<1>2. CASE \E m \in models : Fb!Fit(m)
  BY <1>2, FitKeeps
<1>3. CASE UNCHANGED Fb!vars
  <2>1. UNCHANGED <<table, sent, known, fitted, verdict>>
    BY <1>3 DEF Fb!vars
  <2>2. \A r : Fb!Rows(r)' = Fb!Rows(r)
    BY <2>1, CountsAre
  <2> QED
    BY <2>1, <2>2 DEF FbInv, VerdictOK
<1> QED
  BY <1>1, <1>2, <1>3 DEF Fb!Next

\* A row of a preference is of a body with two different items.
LEMMA PreferenceIs ==
    ASSUME NEW b, NEW row, Fb!IsOf(b, row), row.kind = "preference"
    PROVE  /\ b.kind = "preference" /\ NoItem \notin {b.chosen, b.rejected} /\ b.chosen # b.rejected
           /\ row.chosen = b.chosen.text /\ row.rejected = b.rejected.text /\ row.payload = b.payload
<1>1. Fb!Refused(b) = 0 /\ Fb!RowOf(b) = row
  BY DEF Fb!IsOf
<1>2. b.kind = "preference"
  BY <1>1 DEF Fb!RowOf
<1>3. NoItem \notin {b.chosen, b.rejected} /\ b.chosen # b.rejected
  BY <1>1, <1>2 DEF Fb!Refused
<1>4. row.chosen = b.chosen.text /\ row.rejected = b.rejected.text /\ row.payload = b.payload
  BY <1>1, <1>2 DEF Fb!RowOf
<1> QED
  BY <1>2, <1>3, <1>4

LEMMA ItemsAreFinite ==
    ASSUME VerdictOK
    PROVE  IsFiniteSet(Fb!Items(fitted))
<1>1. PICK m \in Nat : DOMAIN fitted = 1 .. m
  BY DEF VerdictOK
<1> DEFINE first1 == [i \in 1 .. m |-> fitted[i][1]]
           second1 == [i \in 1 .. m |-> fitted[i][2]]
           F == {first1[i] : i \in 1 .. m}
           G == {second1[i] : i \in 1 .. m}
<1>2. IsFiniteSet(1 .. m)
  BY FS_Interval
<1>3. IsFiniteSet(F) /\ IsFiniteSet(G)
  <2>1. first1 \in Surjection(1 .. m, F) /\ second1 \in Surjection(1 .. m, G)
    BY DEF Surjection
  <2> HIDE DEF F, G, first1, second1
  <2> QED
    BY <1>2, <2>1, FS_Surjection DEF ExistsSurjection
<1>4. Fb!Items(fitted) \subseteq F \cup G
  BY <1>1 DEF Fb!Items, Fb!Range
<1> HIDE DEF F, G
<1>5. IsFiniteSet(F \cup G)
  BY <1>3, FS_Union
<1> QED
  BY <1>4, <1>5, FS_Subset

LEMMA PreferencesAre ==
    ASSUME FbInv, \A b \in Body : BodyOK(b), NEW models
    PROVE  Fb!PreferencesCount(models)
<1>1. ASSUME NEW i \in DOMAIN table
      PROVE  /\ Fb!Times(known, table[i]) <= Fb!Rows(table[i]) /\ Fb!Rows(table[i]) <= Fb!Times(sent, table[i])
             /\ table[i].kind = "preference" /\ table[i].chosen = table[i].rejected => Fb!TwoTypes(table[i])
  <2>1. table[i] \in BodyRow
    BY DEF FbInv
  <2>2. PICK j \in DOMAIN sent : Fb!IsOf(sent[j], table[i])
    BY DEF FbInv
  <2>3. BodyOK(sent[j])
    BY DEF FbInv
  <2>4. ASSUME table[i].kind = "preference", table[i].chosen = table[i].rejected
        PROVE  sent[j].chosen.type # sent[j].rejected.type
    BY <2>2, <2>3, <2>4, PreferenceIs DEF BodyOK
  <2> QED
    BY <2>1, <2>2, <2>4 DEF FbInv, Fb!TwoTypes
<1>2. \A i \in DOMAIN known : \E j \in DOMAIN table : Fb!IsOf(known[i], table[j])
  BY DEF FbInv
<1>3. ASSUME NEW m \in models
      PROVE  LET records == Fb!ExportDpoRecords(m)
                 pairs == Fb!PreferencePairs(m)
             IN  /\ Len(records) = Len(pairs)
                 /\ \A i \in DOMAIN pairs :
                      /\ <<records[i].chosen_id, records[i].rejected_id>> = pairs[i]
                      /\ records[i].chosen \in {pairs[i][1], "better"}
                      /\ records[i].rejected \in {pairs[i][2], "worse"}
  <2> DEFINE listed == Fb!ListPreferences(m)
             records == Fb!ExportDpoRecords(m)
             pairs == Fb!PreferencePairs(m)
  <2>1. PICK n \in Nat :
          /\ DOMAIN listed = 1 .. n
          /\ \A i \in 1 .. n : \E j \in DOMAIN table : listed[i] = table[j] /\ table[j].kind = "preference"
    <3>1. table \in Seq(BodyRow)
      BY DEF FbInv
    <3> QED
      BY <3>1, ListedAre
  <2>2. /\ DOMAIN pairs = 1 .. n /\ DOMAIN records = 1 .. n /\ Len(pairs) = n /\ Len(records) = n
        /\ \A i \in 1 .. n :
             /\ pairs[i] = <<listed[i].chosen, listed[i].rejected>>
             /\ records[i].chosen_id = listed[i].chosen /\ records[i].rejected_id = listed[i].rejected
             /\ records[i].chosen =
                  Fb!TextOr(listed[i].payload, "chosen_text", Fb!TextOr(listed[i].payload, "chosen", listed[i].chosen))
             /\ records[i].rejected =
                  Fb!TextOr(listed[i].payload, "rejected_text", Fb!TextOr(listed[i].payload, "rejected", listed[i].rejected))
    <3> DEFINE P(i) == Fb!TextOr(listed[i].payload, "prompt", "")
               C(i) == Fb!TextOr(listed[i].payload, "chosen_text", Fb!TextOr(listed[i].payload, "chosen", listed[i].chosen))
               R(i) == Fb!TextOr(listed[i].payload, "rejected_text",
                                 Fb!TextOr(listed[i].payload, "rejected", listed[i].rejected))
    <3>1. pairs = [i \in 1 .. n |-> <<listed[i].chosen, listed[i].rejected>>]
      BY <2>1 DEF Fb!PreferencePairs
    <3>2. records = [i \in 1 .. n |->
                       [prompt |-> P(i), chosen |-> C(i), rejected |-> R(i),
                        chosen_id |-> listed[i].chosen, rejected_id |-> listed[i].rejected, model |-> listed[i].model]]
      BY <2>1 DEF Fb!ExportDpoRecords
    <3> HIDE DEF listed, records, pairs, C, R, P
    <3>3. DOMAIN pairs = 1 .. n /\ Len(pairs) = n /\ \A i \in 1 .. n : pairs[i] = <<listed[i].chosen, listed[i].rejected>>
      BY <3>1
    <3>4. DOMAIN records = 1 .. n /\ Len(records) = n
      BY <3>2
    <3>5. ASSUME NEW i \in 1 .. n
          PROVE  /\ records[i].chosen_id = listed[i].chosen /\ records[i].rejected_id = listed[i].rejected
                 /\ records[i].chosen = C(i) /\ records[i].rejected = R(i)
      BY <3>2
    <3> QED
      BY <3>3, <3>4, <3>5 DEF C, R
  <2> HIDE DEF listed, records, pairs
  <2>3. ASSUME NEW i \in 1 .. n
        PROVE  /\ Fb!TextOr(listed[i].payload, "chosen_text", Fb!TextOr(listed[i].payload, "chosen", listed[i].chosen))
                    \in {listed[i].chosen, "better"}
               /\ Fb!TextOr(listed[i].payload, "rejected_text", Fb!TextOr(listed[i].payload, "rejected", listed[i].rejected))
                    \in {listed[i].rejected, "worse"}
    <3>1. PICK j \in DOMAIN table : listed[i] = table[j] /\ table[j].kind = "preference"
      BY <2>1
    <3>2. PICK k \in DOMAIN sent : Fb!IsOf(sent[k], listed[i])
      BY <3>1 DEF FbInv
    <3>3. BodyOK(sent[k])
      BY DEF FbInv
    <3> QED
      BY <3>1, <3>2, <3>3, PreferenceIs DEF BodyOK
  <2>4. \A i \in 1 .. n :
          /\ <<records[i].chosen_id, records[i].rejected_id>> = pairs[i]
          /\ records[i].chosen \in {pairs[i][1], "better"}
          /\ records[i].rejected \in {pairs[i][2], "worse"}
    BY <2>2, <2>3
  <2> QED
    BY <2>2, <2>4 DEF records, pairs
<1>4. ASSUME verdict.promote, Fb!Cardinality(Fb!Items(fitted)) = 2, \A p \in Fb!Range(fitted) : p[1] # p[2]
      PROVE  LET rest == CHOOSE x \in Fb!Items(fitted) : x # verdict.champion
             IN  Fb!Wins(fitted, rest, verdict.champion) <= Fb!Wins(fitted, verdict.champion, rest)
  <2>1. PICK l \in Fb!Leaders(fitted) : l[1] = verdict.champion
    BY <1>4 DEF FbInv, VerdictOK
  <2>2. /\ l[1] \in Fb!Items(fitted) /\ l[2] \in Fb!Items(fitted) /\ l[1] # l[2]
        /\ Fb!Wins(fitted, l[2], l[1]) <= Fb!Wins(fitted, l[1], l[2])
    BY <1>4 DEF Fb!Leaders
  <2>3. \A x \in Fb!Items(fitted) : x \in {l[1], l[2]}
    <3> DEFINE T == Fb!Items(fitted)
    <3>1. Cardinality(T) = 2 /\ IsFiniteSet(T)
      <4>1. Cardinality(T) = 2
        BY <1>4 DEF Fb!Cardinality, Fb!IsFiniteSet, Cardinality, IsFiniteSet
      <4> QED
        BY <4>1, ItemsAreFinite DEF FbInv
    <3>2. Cardinality({l[1], l[2]}) = 2 /\ {l[1], l[2]} \subseteq T
      BY <2>2, TwoOf
    <3> QED
      BY <3>1, <3>2, FS_Subset
  <2>4. (CHOOSE x \in Fb!Items(fitted) : x # verdict.champion) = l[2]
    BY <2>1, <2>2, <2>3
  <2> QED
    BY <2>1, <2>2, <2>4
<1> QED
  BY <1>1, <1>2, <1>3, <1>4 DEF Fb!PreferencesCount

\* The bodies a user may send are such ones.
LEMMA BodiesAre == \A b \in Body : BodyOK(b)
<1>1. ASSUME NEW a, NEW b, NEW m, NEW t, t \in {NoTexts, BothTexts},
             a.type = b.type /\ a.text = b.text => a = b
      PROVE  BodyOK(Prefers(a, b, m, t))
  <2> DEFINE body == Prefers(a, b, m, t)
  <2>1. body.chosen = a /\ body.rejected = b /\ body.payload = t
    BY DEF Prefers
  <2> SUFFICES BodyOK(body)
    OBVIOUS
  <2>2. CASE t = NoTexts
    <3>1. \A k : k \notin DOMAIN t
      BY <2>2 DEF NoTexts
    <3> HIDE DEF body
    <3> QED
      BY <1>1, <2>1, <3>1 DEF BodyOK, Fb!TextOr
  <2>3. CASE t = BothTexts
    <3>1. /\ "chosen_text" \in DOMAIN t /\ t["chosen_text"] = "better"
          /\ "rejected_text" \notin DOMAIN t
          /\ "rejected" \in DOMAIN t /\ t["rejected"] = "worse"
      BY <2>3 DEF BothTexts
    <3> HIDE DEF body
    <3> QED
      BY <1>1, <2>1, <3>1 DEF BodyOK, Fb!TextOr
  <2> QED
    BY <1>1, <2>2, <2>3
<1>2. ASSUME NEW a, NEW m, NEW t
      PROVE  BodyOK(Prefers(a, NoItem, m, t))
  <2>1. Prefers(a, NoItem, m, t).rejected = NoItem
    BY DEF Prefers
  <2> QED
    BY <2>1 DEF BodyOK
<1>3. /\ first.type = "text" /\ first.text = "a" /\ second.type = "text" /\ second.text = "b"
      /\ third.type = "text" /\ third.text = "1" /\ Item("number", "1").type = "number"
  BY DEF first, second, third, Item
<1> HIDE DEF first, second, third, NoTexts, BothTexts
<1>4. /\ BodyOK(Prefers(first, second, "m", NoTexts)) /\ BodyOK(Prefers(second, first, "m", BothTexts))
      /\ BodyOK(Prefers(second, third, "n", BothTexts)) /\ BodyOK(Prefers(Item("number", "1"), third, "m", NoTexts))
      /\ BodyOK(Prefers(first, first, "m", NoTexts)) /\ BodyOK(Prefers(first, NoItem, "m", NoTexts))
  <2>1. first.text # second.text /\ second.text # third.text /\ Item("number", "1").type # third.type
    BY <1>3
  <2> QED
    BY <1>1, <1>2, <2>1
<1>5. ASSUME NEW b, b.kind # "preference" PROVE BodyOK(b)
  BY <1>5 DEF BodyOK
<1>6. \A b \in Judgements : BodyOK(b)
  BY <1>4 DEF Judgements
<1>7. ASSUME NEW b \in OtherBodies
      PROVE  BodyOK(b)
  <2>1. \/ b \in {Prefers(first, first, "m", NoTexts), Prefers(first, NoItem, "m", NoTexts)}
        \/ b.kind # "preference"
    BY DEF OtherBodies
  <2> QED
    BY <1>4, <1>5, <2>1
<1> QED
  BY <1>6, <1>7 DEF Body

LEMMA FbInit == ASSUME Fb!Init PROVE FbInv
<1>1. table = <<>> /\ sent = <<>> /\ known = <<>> /\ fitted = <<>> /\ ~verdict.promote
  BY DEF Fb!Init, Fb!NoVerdict
<1>2. \A T : Count(<<>>, T) = 0
  <2>1. \A T : {i \in DOMAIN <<>> : <<>>[i] \in T} = {}
    OBVIOUS
  <2> QED
    BY <2>1, FS_EmptySet DEF Count
<1>3. \A r : Fb!Times(sent, r) = 0 /\ Fb!Times(known, r) = 0 /\ Fb!Rows(r) = 0
  <2>1. sent \in Seq(Body) /\ known \in Seq(Body)
    BY <1>1
  <2> QED
    BY <1>1, <1>2, <2>1, CountsAre
<1>4. DOMAIN fitted = 1 .. 0
  BY <1>1
<1> QED
  BY <1>1, <1>3, <1>4 DEF FbInv, VerdictOK

\* ingest, preference_pairs, export_dpo_records and promote: what is kept counts
\* once, what is exported is what is fitted, and what is promoted leads.
THEOREM PreferencesHold == MCSpec => []PreferencesCount
<1>1. MCInit => FbInv
  BY FbInit DEF MCInit
<1>2. FbInv /\ [MCNext]_allVars => FbInv'
  <2>1. Bodies \in SUBSET Body
    BY DEF Bodies, Body
  <2>2. [MCNext]_allVars => Fb!Next(Bodies, {NoModel, "m"}) \/ UNCHANGED Fb!vars
    BY DEF MCNext, AccountsStep, McpStep, DocumentsStep, ServerStep, PageStep, ModelsStep, SelectionStep,
           DatasetsStep, FeedbackStep, allVars, feedbackVars, Fb!vars
  <2> QED
    BY <2>1, <2>2, FbKeeps
<1>3. FbInv => PreferencesCount
  BY BodiesAre, PreferencesAre DEF PreferencesCount
<1> QED
  BY <1>1, <1>2, <1>3, PTL DEF MCSpec

-----------------------------------------------------------------------------
(* The calls of one MCP client (McpSession).                                 *)

\* Where the request with an id is, and its answer once it has been served.
HasId(s, n) == \E i \in DOMAIN s : s[i].id = n
ToWrite(n) == \E w \in writes : w.message.id = n
Given(n) == \E c \in Call : reply[c].id = n
Sent(n) == ToWrite(n) \/ HasId(toServer, n) \/ HasId(fromServer, n) \/ Given(n)

\* A caller has the lock, is to read, or is in the queue.
Holding == {"sending", "sent", "reading", "read", "notify"}
ToRead == {"sending", "sent", "reading"}
InQueue == Holding \cup {"waiting", "confirm"}
CallPoints == InQueue \cup {"idle", "posting", "answered", "raised", "failed", "cancelled"}

Begun == {c \in Call : callAt[c] # "idle"}
In(p) == {c \in Call : callAt[c] = p}

CallsOK ==
    /\ over \in {"stdio", "http"} /\ callAt \in [Call -> CallPoints]
    /\ id \in [Call -> Nat] /\ nextId \in Nat /\ DOMAIN reply = Call
    /\ \A c \in Call : id[c] <= nextId /\ (id[c] = 0 <=> callAt[c] = "idle")
    /\ \A c, d \in Call : id[c] = id[d] /\ id[c] # 0 => c = d
    /\ IsFiniteSet(Begun)

\* Over HTTP a caller has its own answer or none, and nothing is shared.
PostsOK ==
    /\ queue = <<>> /\ writes = {} /\ readers = {} /\ toServer = <<>> /\ fromServer = <<>>
    /\ \A c \in Call : \/ reply[c] = Mcp!Nothing
                       \/ callAt[c] # "idle" /\ reply[c] = Mcp!Dispatch(Mcp!RequestOf(c))
    /\ \A c \in Call : callAt[c] # "sent"

\* The queue q while callers are at a, with ids n.
QueueIs(q, a, n) ==
    /\ q \in Seq(Call)
    /\ \A i, j \in DOMAIN q : q[i] = q[j] => i = j
    /\ \A c \in Call : a[c] \in InQueue <=> \E i \in DOMAIN q : q[i] = c
    /\ \A c \in Call : a[c] \in Holding => q[1] = c
    /\ \A i, j \in DOMAIN q : i < j /\ a[q[i]] = "waiting" /\ a[q[j]] = "waiting" => n[q[i]] < n[q[j]]

Messages == {Mcp!Initialized} \cup {Mcp!RequestOf(c) : c \in Begun}
Lines == {Mcp!Dispatch(Mcp!RequestOf(c)) : c \in Begun}

MessagesOK ==
    /\ IsFiniteSet(writes) /\ \A w \in writes : w = [by |-> w.by, message |-> w.message] /\ w.by \in Call
    /\ \A w \in writes : \/ w.message = Mcp!Initialized /\ callAt[w.by] \in {"notify", "cancelled"}
                         \/ w.message = Mcp!RequestOf(w.by) /\ callAt[w.by] \in {"sending", "cancelled"}
    /\ toServer \in Seq(Messages) /\ fromServer \in Seq(Lines)
    /\ readers \subseteq Call /\ \A c \in readers : callAt[c] \in {"reading", "cancelled"}
    /\ \A c \in Call : reply[c] = Mcp!Nothing \/ (reply[c] \in Lines /\ reply[c].id <= id[c])
    /\ \A c \in Call : callAt[c] # "posting"

\* What is sent is earlier than what waits, and no later than what the lock is
\* held for.
OrderOK ==
    \A n \in Nat \ {0}, c \in Call :
        Sent(n) => /\ callAt[c] = "waiting" => n < id[c]
                   /\ callAt[c] \in ToRead => n <= id[c]

\* A request or its answer is in one place.
Once(s) == \A i, j \in DOMAIN s : s[i].id = s[j].id /\ s[i].id # 0 => i = j
OnceOK ==
    /\ Once(toServer) /\ Once(fromServer)
    /\ \A c, d \in Call : reply[c].id = reply[d].id /\ reply[c].id # 0 => c = d
    /\ \A n \in Nat \ {0} : /\ ToWrite(n) => ~HasId(toServer, n) /\ ~HasId(fromServer, n) /\ ~Given(n)
                            /\ HasId(toServer, n) => ~HasId(fromServer, n) /\ ~Given(n)
                            /\ HasId(fromServer, n) => ~Given(n)

\* While nobody was cancelled what is under way is what the lock is held for.
NobodyGone == \A c \in Call : callAt[c] # "cancelled"
Reads(n) == \E c \in Call : callAt[c] \in {"sent", "reading"} /\ id[c] = n
OwnOK ==
    NobodyGone => /\ \A n \in Nat \ {0} : ((open /\ HasId(toServer, n)) \/ HasId(fromServer, n)) => Reads(n)
                  /\ \A c \in Call : reply[c] # Mcp!Nothing => reply[c].id = id[c]

\* The writes of cancelled callers, and how many answers are still to be read.
Stray == {w \in writes : callAt[w.by] = "cancelled" /\ w.message.id # 0}
Asked == {m \in Messages : m.id # 0}
Unread == Len(fromServer) + Count(toServer, Asked)
UnreadOK ==
    open => /\ Unread + Cardinality(Stray) <= Cardinality(readers) + Cardinality(In("sent")) + Cardinality(In("cancelled"))
            /\ Cardinality(readers) + Cardinality(In("sent")) <= Unread

McpInv ==
    /\ CallsOK
    /\ over = "http" => PostsOK
    /\ over = "stdio" => /\ QueueIs(queue, callAt, id) /\ MessagesOK /\ OrderOK /\ OnceOK /\ OwnOK /\ UnreadOK

LEMMA AnswerIs ==
    /\ \A m : Mcp!Dispatch(m).id = m.id
    /\ \A c : Mcp!RequestOf(c).id = id[c] /\ Mcp!Dispatch(Mcp!RequestOf(c)).id = id[c]
    /\ Mcp!Initialized.id = 0 /\ Mcp!Nothing.id = 0
<1>1. \A m : Mcp!Dispatch(m).id = m.id
  <2>1. \A m, x : Mcp!Result(m, x).id = m.id /\ Mcp!Error(m, x).id = m.id
    BY DEF Mcp!Result, Mcp!Error
  <2>2. \A m : Mcp!CallTool(m).id = m.id
    BY Zenon, <2>1 DEF Mcp!CallTool
  <2>3. \A m : \/ Mcp!Dispatch(m) = Mcp!CallTool(m)
               \/ \E x : Mcp!Dispatch(m) = Mcp!Result(m, x) \/ Mcp!Dispatch(m) = Mcp!Error(m, x)
    BY Zenon DEF Mcp!Dispatch
  <2> QED
    BY <2>1, <2>2, <2>3
<1>2. \A c : Mcp!RequestOf(c).id = id[c]
  BY DEF Mcp!RequestOf
<1>3. Mcp!Initialized.id = 0 /\ Mcp!Nothing.id = 0
  BY DEF Mcp!Initialized, Mcp!Nothing
<1> QED
  BY <1>1, <1>2, <1>3

LEMMA AppendIds ==
    ASSUME NEW S, NEW s \in Seq(S), NEW x \in S
    PROVE  /\ Append(s, x) \in Seq(S)
           /\ \A n : HasId(Append(s, x), n) <=> HasId(s, n) \/ x.id = n
           /\ Once(s) /\ (x.id # 0 => ~HasId(s, x.id)) => Once(Append(s, x))
<1>1. /\ Append(s, x) \in Seq(S) /\ DOMAIN s = 1 .. Len(s) /\ Len(s) \in Nat
      /\ DOMAIN Append(s, x) = 1 .. Len(s) + 1 /\ Append(s, x)[Len(s) + 1] = x
      /\ \A i \in 1 .. Len(s) : Append(s, x)[i] = s[i]
  BY AppendProperties
<1>2. \A i \in 1 .. Len(s) + 1 : i \in 1 .. Len(s) \/ i = Len(s) + 1
  BY <1>1
<1>3. \A n : HasId(Append(s, x), n) <=> HasId(s, n) \/ x.id = n
  BY <1>1, <1>2 DEF HasId
<1>4. Once(s) /\ (x.id # 0 => ~HasId(s, x.id)) => Once(Append(s, x))
  BY <1>1, <1>2 DEF HasId, Once
<1> QED
  BY <1>1, <1>3, <1>4

LEMMA TailIds ==
    ASSUME NEW S, NEW s \in Seq(S), s # <<>>
    PROVE  /\ Tail(s) \in Seq(S) /\ Head(s) \in S /\ HasId(s, Head(s).id)
           /\ \A n : HasId(Tail(s), n) => HasId(s, n)
           /\ Once(s) => Once(Tail(s)) /\ \A n : n # 0 /\ HasId(Tail(s), n) => n # Head(s).id
<1>1. /\ Tail(s) \in Seq(S) /\ DOMAIN s = 1 .. Len(s) /\ Len(s) \in Nat \ {0} /\ Head(s) = s[1]
      /\ DOMAIN Tail(s) = 1 .. Len(s) - 1
      /\ \A i \in 1 .. Len(s) - 1 : Tail(s)[i] = s[i + 1] /\ i + 1 \in 1 .. Len(s)
  OBVIOUS
<1>2. Head(s) \in S /\ 1 \in DOMAIN s
  BY <1>1
<1>3. \A i \in DOMAIN Tail(s) : i + 1 \in DOMAIN s /\ Tail(s)[i] = s[i + 1] /\ i + 1 # 1
  BY <1>1
<1>4. \A n : HasId(Tail(s), n) => HasId(s, n)
  BY <1>3 DEF HasId
<1>5. ASSUME Once(s)
      PROVE  Once(Tail(s)) /\ \A n : n # 0 /\ HasId(Tail(s), n) => n # Head(s).id
  <2>1. \A i, j \in DOMAIN Tail(s) : i + 1 = j + 1 => i = j
    BY <1>1
  <2>2. Once(Tail(s))
    BY <1>3, <1>5, <2>1 DEF Once
  <2>3. ASSUME NEW i \in DOMAIN Tail(s), Tail(s)[i].id = Head(s).id, Head(s).id # 0
        PROVE  FALSE
    BY <1>1, <1>2, <1>3, <1>5, <2>3 DEF Once
  <2> QED
    BY <2>2, <2>3 DEF HasId
<1> QED
  BY <1>1, <1>2, <1>4, <1>5 DEF HasId

\* Without its first element a sequence has one less of what that is.
LEMMA TailCounts ==
    ASSUME NEW S, NEW s \in Seq(S), s # <<>>, NEW T
    PROVE  /\ Count(s, T) \in Nat /\ Count(Tail(s), T) \in Nat
           /\ Count(s, T) = Count(Tail(s), T) + IF Head(s) \in T THEN 1 ELSE 0
<1> DEFINE all == {i \in DOMAIN s : s[i] \in T}
           rest == {i \in DOMAIN Tail(s) : Tail(s)[i] \in T}
           moved == {i \in all : i # 1}
           f == [i \in rest |-> i + 1]
<1>1. /\ DOMAIN s = 1 .. Len(s) /\ Len(s) \in Nat \ {0} /\ Head(s) = s[1]
      /\ DOMAIN Tail(s) = 1 .. Len(s) - 1 /\ \A i \in 1 .. Len(s) - 1 : Tail(s)[i] = s[i + 1]
  OBVIOUS
<1>2. IsFiniteSet(all) /\ IsFiniteSet(rest)
  <2>1. IsFiniteSet(1 .. Len(s)) /\ IsFiniteSet(1 .. Len(s) - 1)
    BY <1>1, FS_Interval
  <2>2. all \subseteq 1 .. Len(s) /\ rest \subseteq 1 .. Len(s) - 1
    BY <1>1
  <2> QED
    BY <2>1, <2>2, FS_Subset
<1>3. Cardinality(moved) = Cardinality(rest) /\ IsFiniteSet(moved)
  <2>1. f \in Bijection(rest, moved)
    <3>1. \A i \in rest : i + 1 \in moved
      BY <1>1
    <3>2. \A j \in moved : j - 1 \in rest /\ (j - 1) + 1 = j
      BY <1>1
    <3>3. \A i, j \in rest : i + 1 = j + 1 => i = j
      BY <1>1
    <3> HIDE DEF rest, moved
    <3>4. f \in [rest -> moved] /\ \A i \in rest : f[i] = i + 1
      BY <3>1
    <3> HIDE DEF f
    <3>5. f \in Injection(rest, moved)
      BY <3>3, <3>4 DEF Injection, IsInjective
    <3>6. f \in Surjection(rest, moved)
      BY <3>2, <3>4 DEF Surjection
    <3> QED
      BY <3>5, <3>6 DEF Bijection
  <2>2. ExistsBijection(rest, moved)
    BY <2>1 DEF ExistsBijection
  <2> HIDE DEF rest, moved, f
  <2> QED
    BY <1>2, <2>2, FS_Bijection
<1>4. Cardinality(all) = Cardinality(rest) + IF Head(s) \in T THEN 1 ELSE 0
  <2>1. CASE Head(s) \in T
    <3>1. all = moved \cup {1} /\ 1 \notin moved
      BY <1>1, <2>1
    <3>2. Cardinality(moved \cup {1}) = IF 1 \in moved THEN Cardinality(moved) ELSE Cardinality(moved) + 1
      BY ONLY <1>3, FS_AddElement
    <3> HIDE DEF all, rest, moved
    <3> QED
      BY <1>3, <2>1, <3>1, <3>2
  <2>2. CASE Head(s) \notin T
    <3>1. all = moved
      BY <1>1, <2>2
    <3>2. Cardinality(rest) \in Nat
      BY <1>2, FS_CardinalityType
    <3> HIDE DEF all, rest, moved
    <3> QED
      BY <1>3, <2>2, <3>1, <3>2
  <2> QED
    BY <2>1, <2>2
<1>5. Cardinality(all) \in Nat /\ Cardinality(rest) \in Nat
  BY <1>2, FS_CardinalityType
<1> HIDE DEF all, rest
<1>6. Count(s, T) = Cardinality(all) /\ Count(Tail(s), T) = Cardinality(rest)
  BY DEF Count, all, rest
<1> QED
  BY <1>4, <1>5, <1>6

-----------------------------------------------------------------------------
LEMMA LessGrows ==
    ASSUME NEW S \in SUBSET Int, IsFiniteSet(S), NEW i \in S
    PROVE  /\ Cardinality(LessThan(i, S)) \in 0 .. Cardinality(S) - 1
           /\ \A k \in S : i < k => Cardinality(LessThan(i, S)) < Cardinality(LessThan(k, S))
<1>1. ASSUME NEW A, NEW B, IsFiniteSet(B), A \subseteq B, NEW x \in B, x \notin A
      PROVE  Cardinality(A) \in Nat /\ Cardinality(B) \in Nat /\ Cardinality(A) < Cardinality(B)
  <2>1. IsFiniteSet(A) /\ Cardinality(A) <= Cardinality(B) /\ (Cardinality(A) = Cardinality(B) => A = B)
    BY <1>1, FS_Subset
  <2>2. Cardinality(A) \in Nat /\ Cardinality(B) \in Nat /\ A # B
    BY <1>1, <2>1, FS_CardinalityType
  <2> QED
    BY <2>1, <2>2
<1>2. LessThan(i, S) \subseteq S /\ i \notin LessThan(i, S)
  BY DEF LessThan
<1>3. Cardinality(LessThan(i, S)) \in 0 .. Cardinality(S) - 1
  <2>1. /\ Cardinality(LessThan(i, S)) \in Nat /\ Cardinality(S) \in Nat
        /\ Cardinality(LessThan(i, S)) < Cardinality(S)
    BY <1>1, <1>2
  <2> QED
    BY <2>1
<1>4. ASSUME NEW k \in S, i < k
      PROVE  Cardinality(LessThan(i, S)) < Cardinality(LessThan(k, S))
  <2>1. LessThan(i, S) \subseteq LessThan(k, S) /\ i \in LessThan(k, S)
    <3>1. \A j \in S : j \in Int /\ i \in Int /\ k \in Int
      OBVIOUS
    <3>2. \A j \in S : j < i => j < k
      BY <1>4, <3>1
    <3> QED
      BY <1>4, <3>2 DEF LessThan
  <2>2. IsFiniteSet(LessThan(k, S))
    <3>1. LessThan(k, S) \subseteq S
      BY DEF LessThan
    <3> QED
      BY <3>1, FS_Subset
  <2> QED
    BY <1>1, <1>2, <2>1, <2>2
<1> QED
  BY <1>3, <1>4

\* The n-th of a set grows with n, and is each of its elements.
LEMMA NthInOrder ==
    ASSUME NEW S \in SUBSET Int, IsFiniteSet(S)
    PROVE  /\ \A n \in 1 .. Cardinality(S) : Data!Nth(n, S) \in S
           /\ \A m, n \in 1 .. Cardinality(S) : m < n => Data!Nth(m, S) < Data!Nth(n, S)
           /\ \A i \in S : \E n \in 1 .. Cardinality(S) : Data!Nth(n, S) = i
<1>1. \A n \in 1 .. Cardinality(S) : Data!Nth(n, S) \in S /\ Cardinality(LessThan(Data!Nth(n, S), S)) = n - 1
  BY NthIs
<1>2. Cardinality(S) \in Nat
  BY FS_CardinalityType
<1>3. \A i \in S : Cardinality(LessThan(i, S)) \in 0 .. Cardinality(S) - 1
  BY LessGrows
<1>4. \A i, k \in S : i < k => Cardinality(LessThan(i, S)) < Cardinality(LessThan(k, S))
  BY LessGrows
<1>5. \A i, k \in S : i \in Int /\ k \in Int /\ (i < k \/ k < i \/ i = k)
  OBVIOUS
<1>6. ASSUME NEW m \in 1 .. Cardinality(S), NEW n \in 1 .. Cardinality(S), m < n
      PROVE  Data!Nth(m, S) < Data!Nth(n, S)
  <2>1. Cardinality(LessThan(Data!Nth(m, S), S)) = m - 1 /\ Cardinality(LessThan(Data!Nth(n, S), S)) = n - 1
    BY <1>1
  <2>2. ~(n - 1 < m - 1) /\ n - 1 # m - 1
    BY <1>6
  <2> QED
    BY <1>1, <1>4, <1>5, <2>1, <2>2
<1>7. ASSUME NEW i \in S
      PROVE  \E n \in 1 .. Cardinality(S) : Data!Nth(n, S) = i
  <2> DEFINE n == Cardinality(LessThan(i, S)) + 1
  <2>1. n \in 1 .. Cardinality(S) /\ n - 1 = Cardinality(LessThan(i, S)) /\ Cardinality(LessThan(i, S)) \in Nat
    BY <1>2, <1>3
  <2>2. Data!Nth(n, S) \in S /\ Cardinality(LessThan(Data!Nth(n, S), S)) = Cardinality(LessThan(i, S))
    BY <1>1, <2>1
  <2> HIDE DEF n
  <2>3. Data!Nth(n, S) = i
    <3> DEFINE k == Data!Nth(n, S)
    <3>1. k \in S /\ Cardinality(LessThan(k, S)) = Cardinality(LessThan(i, S))
      BY <2>2
    <3> HIDE DEF k
    <3>2. ~(i < k) /\ ~(k < i)
      BY <1>3, <1>4, <3>1
    <3>3. k = i
      BY <1>5, <3>1, <3>2
    <3> QED
      BY <3>3 DEF k
  <2> QED
    BY <2>1, <2>3
<1> QED
  BY <1>1, <1>6, <1>7

-----------------------------------------------------------------------------
\* r is what is left of q once c is out of it.
Leaves(r, q, c) ==
    /\ r \in Seq(Call) /\ \A i \in DOMAIN r : r[i] # c
    /\ \A d \in Call : d # c /\ (\E i \in DOMAIN q : q[i] = d) => \E i \in DOMAIN r : r[i] = d
    /\ \A i \in DOMAIN r : \E k \in DOMAIN q : q[k] = r[i]
    /\ q # <<>> /\ q[1] # c => r[1] = q[1]
    /\ \A i, j \in DOMAIN r : i < j => \E k, l \in DOMAIN q : k < l /\ q[k] = r[i] /\ q[l] = r[j]

LEMMA ReleasedLeaves ==
    ASSUME queue \in Seq(Call), NEW c
    PROVE  Leaves(Mcp!Released(c), queue, c)
<1> DEFINE S == {i \in DOMAIN queue : queue[i] # c}
           m == Cardinality(S)
           r == [k \in 1 .. m |-> queue[Data!Nth(k, S)]]
<1>1. DOMAIN queue = 1 .. Len(queue) /\ Len(queue) \in Nat /\ \A i \in DOMAIN queue : queue[i] \in Call
  OBVIOUS
<1>2. S \subseteq Int /\ IsFiniteSet(S) /\ m \in Nat
  <2>1. IsFiniteSet(1 .. Len(queue)) /\ S \subseteq 1 .. Len(queue)
    BY <1>1, FS_Interval
  <2> QED
    BY <1>1, <2>1, FS_Subset, FS_CardinalityType
<1>3. Mcp!Released(c) = r
  <2>1. \A i : Mcp!Nth(i, S) = Data!Nth(i, S)
    BY DEF Mcp!Nth, Data!Nth, Mcp!Cardinality, Mcp!IsFiniteSet, Data!Cardinality, Data!IsFiniteSet
  <2>2. Mcp!Cardinality(S) = m
    BY DEF Mcp!Cardinality, Mcp!IsFiniteSet, Cardinality, IsFiniteSet
  <2> QED
    BY <2>1, <2>2 DEF Mcp!Released, Mcp!AtPositions
<1>4. \A i : i \in S <=> i \in DOMAIN queue /\ queue[i] # c
  OBVIOUS
<1> HIDE DEF S
<1>5. /\ \A k \in 1 .. m : Data!Nth(k, S) \in S
      /\ \A k, l \in 1 .. m : k < l => Data!Nth(k, S) < Data!Nth(l, S)
      /\ \A i \in S : \E k \in 1 .. m : Data!Nth(k, S) = i
  BY <1>2, NthInOrder
<1> HIDE DEF m
<1>6. DOMAIN r = 1 .. m /\ \A k \in 1 .. m : r[k] = queue[Data!Nth(k, S)]
  OBVIOUS
<1>7. r \in Seq(Call)
  <2>1. r \in [1 .. m -> Call]
    BY <1>1, <1>4, <1>5
  <2> HIDE DEF r
  <2> QED
    BY <1>2, <2>1
<1> HIDE DEF r
<1>8. \A i \in DOMAIN r : r[i] # c /\ \E k \in DOMAIN queue : queue[k] = r[i]
  BY <1>4, <1>5, <1>6
<1>9. \A d \in Call : d # c /\ (\E i \in DOMAIN queue : queue[i] = d) => \E i \in DOMAIN r : r[i] = d
  BY <1>4, <1>5, <1>6
<1>10. ASSUME queue # <<>>, queue[1] # c
       PROVE  r[1] = queue[1]
  <2>1. 1 \in S
    BY <1>1, <1>4, <1>10
  <2>2. PICK k \in 1 .. m : Data!Nth(k, S) = 1
    BY <1>5, <2>1
  <2>3. k = 1
    <3>1. CASE k > 1
      <4>1. 1 \in 1 .. m /\ Data!Nth(1, S) < 1
        BY <1>2, <1>5, <2>2, <3>1
      <4>2. Data!Nth(1, S) \in DOMAIN queue
        BY <1>4, <1>5, <4>1
      <4> QED
        BY <1>1, <4>1, <4>2
    <3> QED
      BY <2>2, <3>1
  <2> QED
    BY <1>6, <2>2, <2>3
<1>11. ASSUME NEW i \in DOMAIN r, NEW j \in DOMAIN r, i < j
       PROVE  \E k, l \in DOMAIN queue : k < l /\ queue[k] = r[i] /\ queue[l] = r[j]
  BY <1>4, <1>5, <1>6, <1>11
<1> QED
  BY <1>3, <1>7, <1>8, <1>9, <1>10, <1>11 DEF Leaves

LEMMA TailLeaves ==
    ASSUME QueueIs(queue, callAt, id), queue # <<>>
    PROVE  Leaves(Tail(queue), queue, queue[1])
<1>1. /\ queue \in Seq(Call) /\ DOMAIN queue = 1 .. Len(queue) /\ Len(queue) \in Nat \ {0}
      /\ Tail(queue) \in Seq(Call) /\ DOMAIN Tail(queue) = 1 .. Len(queue) - 1
      /\ \A i \in 1 .. Len(queue) - 1 : Tail(queue)[i] = queue[i + 1]
  BY DEF QueueIs
<1>2. \A i, j \in DOMAIN queue : queue[i] = queue[j] => i = j
  BY DEF QueueIs
<1>3. \A i \in DOMAIN Tail(queue) : i + 1 \in DOMAIN queue /\ i + 1 # 1 /\ Tail(queue)[i] = queue[i + 1]
  BY <1>1
<1>4. 1 \in DOMAIN queue /\ \A k \in DOMAIN queue : k = 1 \/ (k - 1 \in DOMAIN Tail(queue) /\ Tail(queue)[k - 1] = queue[k])
  BY <1>1
<1>5. \A i \in DOMAIN Tail(queue) : Tail(queue)[i] # queue[1]
  BY <1>2, <1>3, <1>4
<1>6. \A i, j \in DOMAIN Tail(queue) : i < j => i + 1 < j + 1
  BY <1>1
<1> QED
  BY <1>1, <1>3, <1>4, <1>5, <1>6 DEF Leaves

\* A caller leaves the queue, is put at its end, or stays where it is.
LEMMA QueueLeft ==
    ASSUME QueueIs(queue, callAt, id), callAt \in [Call -> CallPoints], NEW c \in Call, NEW p, p \notin InQueue,
           NEW r, Leaves(r, queue, c)
    PROVE  QueueIs(r, [callAt EXCEPT ![c] = p], id)
<1> DEFINE a == [callAt EXCEPT ![c] = p]
<1>1. a[c] = p /\ \A d \in Call : d # c => a[d] = callAt[d]
  OBVIOUS
<1> HIDE DEF a
<1>2. r \in Seq(Call) /\ DOMAIN r \subseteq Int /\ \A i \in DOMAIN r : r[i] \in Call /\ r[i] # c
  BY DEF Leaves
<1>3. \A i, j \in DOMAIN r : r[i] = r[j] => i = j
  <2>1. \A k, l \in DOMAIN queue : k < l => queue[k] # queue[l]
    BY DEF QueueIs
  <2>2. \A i, j \in DOMAIN r : i < j => r[i] # r[j]
    BY <2>1 DEF Leaves
  <2>3. \A i, j \in DOMAIN r : i < j \/ j < i \/ i = j
    BY <1>2
  <2> QED
    BY <2>2, <2>3
<1>4. \A d \in Call : a[d] \in InQueue <=> \E i \in DOMAIN r : r[i] = d
  <2>1. \A d \in Call : callAt[d] \in InQueue <=> \E i \in DOMAIN queue : queue[i] = d
    BY DEF QueueIs
  <2>2. ASSUME NEW d \in Call, d # c
        PROVE  (\E i \in DOMAIN queue : queue[i] = d) <=> \E i \in DOMAIN r : r[i] = d
    BY <2>2 DEF Leaves
  <2> QED
    BY <1>1, <1>2, <2>1, <2>2
<1>5. ASSUME NEW d \in Call, a[d] \in Holding
      PROVE  r[1] = d
  <2>1. d # c /\ callAt[d] \in Holding
    BY <1>1, <1>5 DEF InQueue
  <2>2. queue[1] = d /\ queue # <<>>
    BY <2>1 DEF QueueIs, InQueue
  <2> QED
    BY <2>1, <2>2 DEF Leaves
<1>6. ASSUME NEW i \in DOMAIN r, NEW j \in DOMAIN r, i < j, a[r[i]] = "waiting", a[r[j]] = "waiting"
      PROVE  id[r[i]] < id[r[j]]
  <2>1. PICK k \in DOMAIN queue, l \in DOMAIN queue : k < l /\ queue[k] = r[i] /\ queue[l] = r[j]
    BY <1>6 DEF Leaves
  <2>2. callAt[queue[k]] = "waiting" /\ callAt[queue[l]] = "waiting"
    BY <1>1, <1>2, <1>6, <2>1
  <2>3. id[queue[k]] < id[queue[l]]
    BY <2>1, <2>2 DEF QueueIs
  <2> QED
    BY <2>1, <2>3
<1>7. QueueIs(r, a, id)
  BY <1>2, <1>3, <1>4, <1>5, <1>6 DEF QueueIs
<1> QED
  BY <1>7 DEF a

LEMMA QueueJoined ==
    ASSUME NEW q, NEW a, QueueIs(q, a, id), a \in [Call -> CallPoints], NEW c \in Call, a[c] \notin InQueue,
           NEW p \in {"waiting", "confirm"}, \A d \in Call : d # c => id'[d] = id[d],
           p = "waiting" => \A d \in Call : a[d] = "waiting" => id[d] < id'[c]
    PROVE  QueueIs(Append(q, c), [a EXCEPT ![c] = p], id')
<1> DEFINE b == [a EXCEPT ![c] = p]
           r == Append(q, c)
<1>1. b[c] = p /\ \A d \in Call : d # c => b[d] = a[d]
  OBVIOUS
<1> HIDE DEF b
<1>2. /\ q \in Seq(Call) /\ Len(q) \in Nat /\ DOMAIN q = 1 .. Len(q) /\ r \in Seq(Call)
      /\ DOMAIN r = 1 .. Len(q) + 1 /\ r[Len(q) + 1] = c /\ \A i \in 1 .. Len(q) : r[i] = q[i]
  <2>1. q \in Seq(Call)
    BY DEF QueueIs
  <2> QED
    BY <2>1, AppendProperties
<1> HIDE DEF r
<1>3. \A i \in DOMAIN r : i \in DOMAIN q \/ i = Len(q) + 1
  BY <1>2
<1>4. \A i \in DOMAIN q : q[i] # c /\ q[i] \in Call /\ i \in DOMAIN r /\ r[i] = q[i] /\ i < Len(q) + 1
  <2>1. \A i \in DOMAIN q : q[i] # c
    BY DEF QueueIs
  <2> QED
    BY <1>2, <2>1
<1>5. \A i, j \in DOMAIN r : r[i] = r[j] => i = j
  <2>1. \A i, j \in DOMAIN q : q[i] = q[j] => i = j
    BY DEF QueueIs
  <2> QED
    BY <1>2, <1>3, <1>4, <2>1
<1>6. \A d \in Call : b[d] \in InQueue <=> \E i \in DOMAIN r : r[i] = d
  <2>1. \A d \in Call : a[d] \in InQueue <=> \E i \in DOMAIN q : q[i] = d
    BY DEF QueueIs
  <2>2. b[c] \in InQueue /\ Len(q) + 1 \in DOMAIN r
    BY <1>1, <1>2 DEF InQueue
  <2> QED
    BY <1>1, <1>2, <1>3, <1>4, <2>1, <2>2
<1>7. ASSUME NEW d \in Call, b[d] \in Holding
      PROVE  r[1] = d
  <2>1. d # c /\ a[d] \in Holding
    BY <1>1, <1>7 DEF Holding
  <2>2. q[1] = d /\ \E i \in DOMAIN q : q[i] = d
    BY <2>1 DEF QueueIs, InQueue
  <2>3. 1 \in DOMAIN q
    BY <1>2, <2>2
  <2> QED
    BY <1>4, <2>2, <2>3
<1>8. ASSUME NEW i \in DOMAIN r, NEW j \in DOMAIN r, i < j, b[r[i]] = "waiting", b[r[j]] = "waiting"
      PROVE  id'[r[i]] < id'[r[j]]
  <2>1. i \in DOMAIN q
    BY <1>2, <1>8
  <2>2. a[q[i]] = "waiting" /\ id'[r[i]] = id[q[i]] /\ r[i] = q[i]
    BY <1>1, <1>4, <1>8, <2>1
  <2>3. CASE j \in DOMAIN q
    <3>1. a[q[j]] = "waiting" /\ id'[r[j]] = id[q[j]]
      BY <1>1, <1>4, <1>8, <2>3
    <3> QED
      BY <1>8, <2>1, <2>2, <2>3, <3>1 DEF QueueIs
  <2>4. CASE j = Len(q) + 1
    <3>1. r[j] = c /\ p = "waiting"
      BY <1>1, <1>2, <1>8, <2>4
    <3> QED
      BY <1>4, <2>1, <2>2, <3>1
  <2> QED
    BY <1>3, <2>3, <2>4
<1>9. QueueIs(r, b, id')
  BY <1>2, <1>5, <1>6, <1>7, <1>8 DEF QueueIs
<1> QED
  BY <1>9 DEF b, r

LEMMA QueueStays ==
    ASSUME QueueIs(queue, callAt, id), callAt \in [Call -> CallPoints], NEW c \in Call, queue # <<>>, queue[1] = c,
           NEW p \in Holding
    PROVE  QueueIs(queue, [callAt EXCEPT ![c] = p], id)
<1> DEFINE a == [callAt EXCEPT ![c] = p]
<1>1. a[c] = p /\ \A d \in Call : d # c => a[d] = callAt[d]
  OBVIOUS
<1> HIDE DEF a
<1>2. queue \in Seq(Call) /\ 1 \in DOMAIN queue /\ \A i \in DOMAIN queue : queue[i] \in Call
  <2>1. queue \in Seq(Call)
    BY DEF QueueIs
  <2> QED
    BY <2>1
<1>3. \A d \in Call : a[d] \in InQueue <=> \E i \in DOMAIN queue : queue[i] = d
  <2>1. p \in InQueue
    BY DEF InQueue
  <2> QED
    BY <1>1, <1>2, <2>1 DEF QueueIs
<1>4. \A d \in Call : a[d] \in Holding => queue[1] = d
  BY <1>1 DEF QueueIs
<1>5. p # "waiting"
  BY DEF Holding
<1>6. \A i, j \in DOMAIN queue : i < j /\ a[queue[i]] = "waiting" /\ a[queue[j]] = "waiting" => id[queue[i]] < id[queue[j]]
  BY <1>1, <1>2, <1>5 DEF QueueIs
<1>7. QueueIs(queue, a, id)
  BY <1>2, <1>3, <1>4, <1>6 DEF QueueIs
<1> QED
  BY <1>7 DEF a

-----------------------------------------------------------------------------
\* What holds over stdio.
StdioInv == /\ CallsOK /\ over = "stdio" /\ QueueIs(queue, callAt, id)
            /\ MessagesOK /\ OrderOK /\ OnceOK /\ OwnOK /\ UnreadOK

\* A caller that goes on keeps its id, and so what it asked for.
LEMMA Walk ==
    ASSUME CallsOK, NEW c \in Call, NEW p \in CallPoints \ {"idle"}, callAt[c] # "idle",
           callAt' = [callAt EXCEPT ![c] = p], UNCHANGED <<over, id, nextId, wants>>, DOMAIN reply' = Call
    PROVE  /\ CallsOK' /\ Begun' = Begun /\ Messages' = Messages /\ Lines' = Lines /\ Asked' = Asked
           /\ \A d : Mcp!RequestOf(d)' = Mcp!RequestOf(d)
           /\ callAt'[c] = p /\ \A d \in Call : d # c => callAt'[d] = callAt[d]
<1>1. callAt' \in [Call -> CallPoints] /\ callAt'[c] = p /\ \A d \in Call : d # c => callAt'[d] = callAt[d]
  BY DEF CallsOK
<1>2. \A d \in Call : callAt'[d] = "idle" <=> callAt[d] = "idle"
  BY <1>1
<1>3. Begun' = Begun
  BY <1>2 DEF Begun
<1>4. CallsOK'
  BY <1>1, <1>2, <1>3 DEF CallsOK
<1>5. \A d : Mcp!RequestOf(d)' = Mcp!RequestOf(d)
  BY DEF Mcp!RequestOf
<1>6. Messages' = Messages /\ Lines' = Lines
  BY <1>3, <1>5 DEF Messages, Lines
<1> QED
  BY <1>1, <1>3, <1>4, <1>5, <1>6 DEF Asked

LEMMA WalkCounts ==
    ASSUME CallsOK, NEW c \in Call, NEW p \in CallPoints \ {"idle"}, callAt[c] # "idle",
           callAt' = [callAt EXCEPT ![c] = p], NEW q \in CallPoints \ {"idle"}
    PROVE  /\ Cardinality(In(q)) \in Nat /\ Cardinality(In(q)') \in Nat
           /\ p = q /\ callAt[c] # q => Cardinality(In(q)') = Cardinality(In(q)) + 1
           /\ p # q /\ callAt[c] = q => Cardinality(In(q)') = Cardinality(In(q)) - 1
           /\ (p = q <=> callAt[c] = q) => In(q)' = In(q)
<1>1. callAt'[c] = p /\ \A d \in Call : d # c => callAt'[d] = callAt[d]
  BY DEF CallsOK
<1>2. IsFiniteSet(In(q))
  <2>1. In(q) \subseteq Begun /\ IsFiniteSet(Begun)
    BY DEF In, Begun, CallsOK
  <2> QED
    BY <2>1, FS_Subset
<1>3. /\ p = q /\ callAt[c] # q => In(q)' = In(q) \cup {c} /\ c \notin In(q)
      /\ p # q /\ callAt[c] = q => In(q)' = In(q) \ {c} /\ c \in In(q)
      /\ (p = q <=> callAt[c] = q) => In(q)' = In(q)
  BY <1>1 DEF In
<1>4. /\ c \notin In(q) => Cardinality(In(q) \cup {c}) = Cardinality(In(q)) + 1
      /\ c \in In(q) => Cardinality(In(q) \ {c}) = Cardinality(In(q)) - 1
      /\ IsFiniteSet(In(q) \cup {c}) /\ IsFiniteSet(In(q) \ {c})
  BY <1>2, FS_AddElement, FS_RemoveElement
<1>5. IsFiniteSet(In(q)')
  BY <1>2, <1>3, <1>4
<1>6. Cardinality(In(q)) \in Nat /\ Cardinality(In(q)') \in Nat
  BY <1>2, <1>5, FS_CardinalityType
<1> QED
  BY <1>3, <1>4, <1>6

LEMMA CountsAreNat ==
    ASSUME CallsOK, MessagesOK
    PROVE  /\ Unread \in Nat /\ Len(fromServer) \in Nat /\ Count(toServer, Asked) \in Nat
           /\ IsFiniteSet(readers) /\ Cardinality(readers) \in Nat
           /\ IsFiniteSet(Stray) /\ Cardinality(Stray) \in Nat
           /\ Cardinality(In("sent")) \in Nat /\ Cardinality(In("cancelled")) \in Nat
<1>1. /\ In("sent") \subseteq Begun /\ In("cancelled") \subseteq Begun /\ readers \subseteq Begun /\ IsFiniteSet(Begun)
      /\ Stray \subseteq writes /\ IsFiniteSet(writes)
  BY DEF In, Begun, CallsOK, MessagesOK, Stray
<1>2. /\ IsFiniteSet(In("sent")) /\ IsFiniteSet(In("cancelled")) /\ IsFiniteSet(readers) /\ IsFiniteSet(Stray)
  BY <1>1, FS_Subset
<1>3. Len(fromServer) \in Nat /\ Count(toServer, Asked) \in Nat
  <2>1. toServer \in Seq(Messages) /\ fromServer \in Seq(Lines) /\ Mcp!Initialized \in Messages
    BY DEF MessagesOK, Messages
  <2> QED
    BY <2>1, OneCounts
<1> QED
  BY <1>2, <1>3, FS_CardinalityType DEF Unread

LEMMA HolderIs ==
    ASSUME QueueIs(queue, callAt, id)
    PROVE  /\ \A c, d \in Call : callAt[c] \in Holding /\ callAt[d] \in Holding => c = d
           /\ \A c \in Call : callAt[c] \in InQueue => queue # <<>>
           /\ \A c \in Call : callAt[c] \in Holding => queue[1] = c /\ callAt[c] \in InQueue
BY DEF QueueIs, InQueue

\* What is on its way is the request of somebody.
LEMMA SentIs ==
    ASSUME MessagesOK, NEW n \in Nat \ {0}, Sent(n)
    PROVE  \E d \in Begun : id[d] = n
<1>1. ASSUME NEW m, m \in Messages, m.id = n PROVE \E d \in Begun : id[d] = n
  BY <1>1, AnswerIs DEF Messages
<1>2. ASSUME NEW m, m \in Lines, m.id = n PROVE \E d \in Begun : id[d] = n
  BY <1>2, AnswerIs DEF Lines
<1>3. CASE ToWrite(n)
  <2>1. PICK w \in writes : w.message.id = n
    BY <1>3 DEF ToWrite
  <2>2. w.message = Mcp!RequestOf(w.by) /\ w.by \in Call /\ callAt[w.by] # "idle"
    BY <2>1, AnswerIs DEF MessagesOK
  <2> QED
    BY <2>1, <2>2, AnswerIs DEF Begun
<1>4. CASE HasId(toServer, n)
  <2>1. PICK i \in DOMAIN toServer : toServer[i].id = n
    BY <1>4 DEF HasId
  <2>2. toServer[i] \in Messages
    BY DEF MessagesOK
  <2> QED
    BY <1>1, <2>1, <2>2
<1>5. CASE HasId(fromServer, n)
  <2>1. PICK i \in DOMAIN fromServer : fromServer[i].id = n
    BY <1>5 DEF HasId
  <2>2. fromServer[i] \in Lines
    BY DEF MessagesOK
  <2> QED
    BY <1>2, <2>1, <2>2
<1>6. CASE Given(n)
  <2>1. PICK c \in Call : reply[c].id = n
    BY <1>6 DEF Given
  <2>2. reply[c] \in Lines
    BY <2>1, AnswerIs DEF MessagesOK
  <2> QED
    BY <1>2, <2>1, <2>2
<1> QED
  BY <1>3, <1>4, <1>5, <1>6 DEF Sent

\* The messages when one caller goes on.
LEMMA MessagesWalk ==
    ASSUME CallsOK, MessagesOK, NEW c \in Call, NEW p \in CallPoints \ {"idle", "posting"}, callAt[c] # "idle",
           callAt' = [callAt EXCEPT ![c] = p], UNCHANGED <<over, id, nextId, wants>>, DOMAIN reply' = Call,
           IsFiniteSet(writes'),
           \A w \in writes' : \/ w \in writes /\ w.by # c
                              \/ /\ w = [by |-> w.by, message |-> w.message] /\ w.by = c
                                 /\ \/ w.message = Mcp!Initialized /\ p \in {"notify", "cancelled"}
                                    \/ w.message = Mcp!RequestOf(c) /\ p \in {"sending", "cancelled"},
           toServer' \in Seq(Messages), fromServer' \in Seq(Lines),
           readers' \subseteq Call, \A d \in readers' : d \in readers \/ d = c,
           c \in readers' => p \in {"reading", "cancelled"},
           \A d \in Call : reply'[d] = reply[d] \/ (reply'[d] \in Lines /\ reply'[d].id <= id[d])
    PROVE  MessagesOK'
<1>1. /\ Messages' = Messages /\ Lines' = Lines
      /\ \A d : Mcp!RequestOf(d)' = Mcp!RequestOf(d)
      /\ callAt'[c] = p /\ \A d \in Call : d # c => callAt'[d] = callAt[d]
  BY Walk
<1>2. \A w \in writes' : w = [by |-> w.by, message |-> w.message] /\ w.by \in Call
  BY DEF MessagesOK
<1>3. \A w \in writes' : \/ w.message = Mcp!Initialized /\ callAt'[w.by] \in {"notify", "cancelled"}
                         \/ w.message = Mcp!RequestOf(w.by) /\ callAt'[w.by] \in {"sending", "cancelled"}
  BY <1>1 DEF MessagesOK
<1>4. \A d \in readers' : callAt'[d] \in {"reading", "cancelled"}
  BY <1>1 DEF MessagesOK
<1>5. \A d \in Call : reply'[d] = Mcp!Nothing \/ (reply'[d] \in Lines /\ reply'[d].id <= id[d])
  BY DEF MessagesOK
<1>6. \A d \in Call : callAt'[d] # "posting"
  BY <1>1 DEF MessagesOK
<1>7. Mcp!Initialized' = Mcp!Initialized /\ Mcp!Nothing' = Mcp!Nothing
  BY DEF Mcp!Initialized, Mcp!Nothing
<1> QED
  BY <1>1, <1>2, <1>3, <1>4, <1>5, <1>6, <1>7 DEF MessagesOK

LEMMA OrderKeeps ==
    ASSUME OrderOK, UNCHANGED id, \A n \in Nat \ {0} : Sent(n)' => Sent(n),
           \A d \in Call : /\ callAt'[d] = "waiting" => callAt[d] = "waiting"
                           /\ callAt'[d] \in ToRead => callAt[d] \in ToRead
    PROVE  OrderOK'
BY DEF OrderOK

\* What a caller does that leaves the pipes and the answers as they are.
LEMMA PipesStay ==
    ASSUME OnceOK, UNCHANGED <<toServer, fromServer, reply, id>>, writes' \subseteq writes
    PROVE  /\ OnceOK' /\ \A n : Sent(n)' => Sent(n)
           /\ \A n : HasId(toServer', n) = HasId(toServer, n) /\ HasId(fromServer', n) = HasId(fromServer, n)
<1>1. \A n : (ToWrite(n)' => ToWrite(n)) /\ (Given(n)' <=> Given(n))
  BY DEF ToWrite, Given
<1>2. \A n : (HasId(toServer, n)' <=> HasId(toServer, n)) /\ (HasId(fromServer, n)' <=> HasId(fromServer, n))
  BY DEF HasId
<1>3. Once(toServer)' = Once(toServer) /\ Once(fromServer)' = Once(fromServer)
  BY DEF Once
<1> QED
  BY <1>1, <1>2, <1>3 DEF OnceOK, Sent

\* The stray writes when one caller goes on.
LEMMA StrayStays ==
    ASSUME CallsOK, MessagesOK, NEW c \in Call, NEW p, callAt' = [callAt EXCEPT ![c] = p],
           p = "cancelled" <=> callAt[c] = "cancelled"
    PROVE  \A w \in writes : callAt'[w.by] = "cancelled" <=> callAt[w.by] = "cancelled"
BY DEF CallsOK, MessagesOK

-----------------------------------------------------------------------------
LEMMA AnsweredKeeps ==
    ASSUME StdioInv, NEW c \in Call, Mcp!Answered(c)
    PROVE  StdioInv'
<1> USE DEF StdioInv
<1>1. PICK p \in {"confirm", "raised", "answered"} :
        /\ callAt[c] = "read" /\ callAt' = [callAt EXCEPT ![c] = p]
        /\ queue' = IF p = "confirm" THEN Append(Mcp!Released(c), c) ELSE Mcp!Released(c)
        /\ UNCHANGED <<over, wants, id, nextId, writes, readers, toServer, fromServer, open, reply>>
  BY DEF Mcp!Answered, Mcp!Goto
<1>2. p \in CallPoints \ {"idle", "posting", "cancelled", "waiting", "sent"} /\ DOMAIN reply' = Call /\ p \notin Holding
  BY <1>1 DEF CallPoints, InQueue, Holding, CallsOK
<1>3. /\ CallsOK' /\ Messages' = Messages /\ Lines' = Lines /\ Asked' = Asked
      /\ callAt'[c] = p /\ \A d \in Call : d # c => callAt'[d] = callAt[d]
  BY <1>1, <1>2, Walk
<1>4. QueueIs(queue', callAt', id')
  <2>1. queue \in Seq(Call) /\ callAt \in [Call -> CallPoints]
    BY DEF QueueIs, CallsOK
  <2>2. Leaves(Mcp!Released(c), queue, c)
    BY <2>1, ReleasedLeaves
  <2>3. CASE p # "confirm"
    <3>1. p \notin InQueue
      BY <1>1, <2>3 DEF InQueue, Holding
    <3> QED
      BY <1>1, <2>1, <2>2, <2>3, <3>1, QueueLeft
  <2>4. CASE p = "confirm"
    <3> DEFINE a == [callAt EXCEPT ![c] = "answered"]
    <3>1. "answered" \notin InQueue /\ "answered" \in CallPoints
      BY DEF InQueue, Holding, CallPoints
    <3>2. QueueIs(Mcp!Released(c), a, id)
      BY <2>1, <2>2, <3>1, QueueLeft
    <3>3. a \in [Call -> CallPoints] /\ a[c] = "answered" /\ [a EXCEPT ![c] = p] = [callAt EXCEPT ![c] = p]
      BY <2>1, <3>1
    <3>4. \A d \in Call : d # c => id'[d] = id[d]
      BY <1>1
    <3> HIDE DEF a
    <3>5. QueueIs(Append(Mcp!Released(c), c), [a EXCEPT ![c] = p], id')
      BY <2>4, <3>1, <3>2, <3>3, <3>4, QueueJoined
    <3> QED
      BY <1>1, <2>4, <3>3, <3>5
  <2> QED
    BY <2>3, <2>4
<1>5. MessagesOK'
  <2>1. \A w \in writes : w.by # c
    BY <1>1 DEF MessagesOK
  <2>2. c \notin readers
    BY <1>1 DEF MessagesOK
  <2>3. /\ IsFiniteSet(writes') /\ toServer' \in Seq(Messages) /\ fromServer' \in Seq(Lines) /\ readers' \subseteq Call
    BY <1>1 DEF MessagesOK
  <2> QED
    BY <1>1, <1>2, <2>1, <2>2, <2>3, MessagesWalk
<1>6. /\ OnceOK' /\ \A n : Sent(n)' => Sent(n)
      /\ \A n : HasId(toServer', n) = HasId(toServer, n) /\ HasId(fromServer', n) = HasId(fromServer, n)
  BY <1>1, PipesStay
<1>7. OrderOK'
  <2>1. p \notin ToRead
    BY <1>1 DEF ToRead
  <2> QED
    BY <1>1, <1>2, <1>3, <1>6, <2>1, OrderKeeps
<1>8. OwnOK'
  <2>1. \A n : Reads(n) => Reads(n)'
    BY <1>1, <1>3 DEF Reads
  <2>2. NobodyGone' => NobodyGone
    BY <1>1, <1>3 DEF NobodyGone
  <2>3. Mcp!Nothing' = Mcp!Nothing
    BY DEF Mcp!Nothing
  <2> QED
    BY <1>1, <1>6, <2>1, <2>2, <2>3 DEF OwnOK
<1>9. UnreadOK'
  <2>1. Stray' = Stray
    BY <1>1, <1>2, StrayStays DEF Stray
  <2>2. In("sent")' = In("sent") /\ In("cancelled")' = In("cancelled")
    BY <1>1, <1>3 DEF In
  <2>3. Unread' = Unread
    BY <1>1, <1>3 DEF Unread, Count
  <2> QED
    BY <1>1, <2>1, <2>2, <2>3 DEF UnreadOK
<1> QED
  BY <1>1, <1>3, <1>4, <1>5, <1>6, <1>7, <1>8, <1>9

LEMMA StartReadingKeeps ==
    ASSUME StdioInv, NEW c \in Call, Mcp!StartReading(c)
    PROVE  StdioInv'
<1> USE DEF StdioInv
<1> DEFINE p == "reading"
<1>1. /\ callAt[c] = "sent" /\ callAt' = [callAt EXCEPT ![c] = p] /\ readers' = readers \cup {c}
      /\ UNCHANGED <<over, wants, id, nextId, queue, writes, toServer, fromServer, open, reply>>
  BY DEF Mcp!StartReading, Mcp!Goto, Mcp!Lock
<1>2. p \in CallPoints \ {"idle", "posting", "cancelled", "waiting", "sent"} /\ DOMAIN reply' = Call /\ p \in Holding
  BY <1>1 DEF CallPoints, InQueue, Holding, CallsOK
<1>3. /\ CallsOK' /\ Messages' = Messages /\ Lines' = Lines /\ Asked' = Asked
      /\ callAt'[c] = p /\ \A d \in Call : d # c => callAt'[d] = callAt[d]
  BY <1>1, <1>2, Walk
<1>4. QueueIs(queue', callAt', id')
  <2>1. callAt \in [Call -> CallPoints] /\ callAt[c] \in Holding
    BY <1>1 DEF CallsOK, Holding
  <2>2. queue # <<>> /\ queue[1] = c
    BY <2>1, HolderIs
  <2> QED
    BY <1>1, <1>2, <2>1, <2>2, QueueStays
<1>5. c \notin readers
  BY <1>1 DEF MessagesOK
<1>6. MessagesOK'
  <2>1. \A w \in writes : w.by # c
    BY <1>1 DEF MessagesOK
  <2>2. /\ IsFiniteSet(writes') /\ toServer' \in Seq(Messages) /\ fromServer' \in Seq(Lines) /\ readers' \subseteq Call
    BY <1>1 DEF MessagesOK
  <2> QED
    BY <1>1, <1>2, <2>1, <2>2, MessagesWalk
<1>7. /\ OnceOK' /\ \A n : Sent(n)' => Sent(n)
      /\ \A n : HasId(toServer', n) = HasId(toServer, n) /\ HasId(fromServer', n) = HasId(fromServer, n)
  BY <1>1, PipesStay
<1>8. OrderOK'
  <2>1. callAt[c] \in ToRead
    BY <1>1 DEF ToRead
  <2> QED
    BY <1>1, <1>2, <1>3, <1>7, <2>1, OrderKeeps
<1>9. OwnOK'
  <2>1. \A n : Reads(n) => Reads(n)'
    BY <1>1, <1>3 DEF Reads
  <2>2. NobodyGone' => NobodyGone
    BY <1>1, <1>3 DEF NobodyGone
  <2>3. Mcp!Nothing' = Mcp!Nothing
    BY DEF Mcp!Nothing
  <2> QED
    BY <1>1, <1>7, <2>1, <2>2, <2>3 DEF OwnOK
<1>10. UnreadOK'
  <2>1. Stray' = Stray
    BY <1>1, <1>2, StrayStays DEF Stray
  <2>2. /\ Cardinality(In("sent")') = Cardinality(In("sent")) - 1 /\ In("cancelled")' = In("cancelled")
    <3>1. "sent" \in CallPoints \ {"idle"} /\ "cancelled" \in CallPoints \ {"idle"}
      BY DEF CallPoints, InQueue, Holding
    <3> QED
      BY <1>1, <1>2, <3>1, WalkCounts
  <2>3. Unread' = Unread
    BY <1>1, <1>3 DEF Unread, Count
  <2>4. Cardinality(readers') = Cardinality(readers) + 1
    BY <1>1, <1>5, CountsAreNat, FS_AddElement
  <2> QED
    BY <1>1, <2>1, <2>2, <2>3, <2>4, CountsAreNat DEF UnreadOK
<1> QED
  BY <1>1, <1>3, <1>4, <1>6, <1>7, <1>8, <1>9, <1>10

LEMMA EndOfFileKeeps ==
    ASSUME StdioInv, NEW c \in Call, Mcp!EndOfFile(c)
    PROVE  StdioInv'
<1> USE DEF StdioInv
<1>1. PICK p \in {"failed", "cancelled"} :
        /\ c \in readers /\ fromServer = <<>> /\ ~open /\ callAt' = [callAt EXCEPT ![c] = p] /\ readers' = readers \ {c}
        /\ callAt[c] \in {"reading", "cancelled"} /\ (p = "cancelled" <=> callAt[c] = "cancelled")
        /\ queue' = IF p = "failed" THEN Mcp!Released(c) ELSE queue
        /\ UNCHANGED <<over, wants, id, nextId, writes, toServer, fromServer, open, reply>>
  <2>1. c \in readers /\ callAt[c] \in {"reading", "cancelled"} /\ callAt \in [Call -> CallPoints]
    BY DEF Mcp!EndOfFile, MessagesOK, CallsOK
  <2>2. CASE callAt[c] = "reading"
    BY <2>1, <2>2 DEF Mcp!EndOfFile, Mcp!Goto
  <2>3. CASE callAt[c] = "cancelled"
    <3>1. callAt' = callAt /\ [callAt EXCEPT ![c] = "cancelled"] = callAt
      BY <2>1, <2>3 DEF Mcp!EndOfFile
    <3> QED
      BY <2>1, <2>3, <3>1 DEF Mcp!EndOfFile
  <2> QED
    BY <2>1, <2>2, <2>3
<1>2. p \in CallPoints \ {"idle", "posting", "waiting", "sent"} /\ DOMAIN reply' = Call /\ p \notin InQueue
  BY <1>1 DEF CallPoints, InQueue, Holding, CallsOK
<1>3. /\ CallsOK' /\ Messages' = Messages /\ Lines' = Lines /\ Asked' = Asked
      /\ callAt'[c] = p /\ \A d \in Call : d # c => callAt'[d] = callAt[d]
  BY <1>1, <1>2, Walk
<1>4. QueueIs(queue', callAt', id')
  <2>1. queue \in Seq(Call) /\ callAt \in [Call -> CallPoints]
    BY DEF QueueIs, CallsOK
  <2>2. CASE p = "failed"
    <3>1. Leaves(Mcp!Released(c), queue, c)
      BY <2>1, ReleasedLeaves
    <3> QED
      BY <1>1, <1>2, <2>1, <2>2, <3>1, QueueLeft
  <2>3. CASE p = "cancelled"
    <3>1. callAt' = callAt
      BY <1>1, <2>1, <2>3
    <3> QED
      BY <1>1, <2>3, <3>1
  <2> QED
    BY <1>1, <2>2, <2>3
<1>5. MessagesOK'
  <2>1. \A w \in writes' : \/ w \in writes /\ w.by # c
                           \/ /\ w = [by |-> w.by, message |-> w.message] /\ w.by = c
                              /\ \/ w.message = Mcp!Initialized /\ p \in {"notify", "cancelled"}
                                 \/ w.message = Mcp!RequestOf(c) /\ p \in {"sending", "cancelled"}
    BY <1>1 DEF MessagesOK
  <2>2. /\ IsFiniteSet(writes') /\ toServer' \in Seq(Messages) /\ fromServer' \in Seq(Lines)
        /\ readers' \subseteq Call /\ c \notin readers' /\ \A d \in readers' : d \in readers \/ d = c
    BY <1>1 DEF MessagesOK
  <2>3. callAt[c] # "idle" /\ \A d \in Call : reply'[d] = reply[d]
    BY <1>1
  <2> QED
    BY <1>1, <1>2, <2>1, <2>2, <2>3, MessagesWalk
<1>6. /\ OnceOK' /\ \A n : Sent(n)' => Sent(n)
      /\ \A n : HasId(toServer', n) = HasId(toServer, n) /\ HasId(fromServer', n) = HasId(fromServer, n)
  BY <1>1, PipesStay
<1>7. OrderOK'
  <2>1. p \notin ToRead
    BY <1>1 DEF ToRead
  <2> QED
    BY <1>1, <1>2, <1>3, <1>6, <2>1, OrderKeeps
<1>8. OwnOK'
  <2>1. \A n : ~HasId(fromServer', n)
    BY <1>1 DEF HasId
  <2>2. NobodyGone' => NobodyGone
    BY <1>1, <1>3 DEF NobodyGone
  <2>3. Mcp!Nothing' = Mcp!Nothing
    BY DEF Mcp!Nothing
  <2> QED
    BY <1>1, <2>1, <2>2, <2>3 DEF OwnOK
<1>9. UnreadOK'
  BY <1>1 DEF UnreadOK
<1> QED
  BY <1>1, <1>3, <1>4, <1>5, <1>6, <1>7, <1>8, <1>9

LEMMA CancelKeeps ==
    ASSUME StdioInv, NEW c \in Call, Mcp!Cancel(c)
    PROVE  StdioInv'
<1> USE DEF StdioInv
<1> DEFINE p == "cancelled"
<1>1. /\ callAt[c] \notin {"idle", "cancelled"} /\ callAt' = [callAt EXCEPT ![c] = p] /\ queue' = Mcp!Released(c)
      /\ writes' \subseteq writes
      /\ UNCHANGED <<over, wants, id, nextId, readers, toServer, fromServer, open, reply>>
  BY DEF Mcp!Cancel, Mcp!Goto, Mcp!InCall
<1>2. p \in CallPoints \ {"idle", "posting", "waiting", "sent"} /\ DOMAIN reply' = Call /\ p \notin InQueue
  BY <1>1 DEF CallPoints, InQueue, Holding, CallsOK
<1>3. /\ CallsOK' /\ Messages' = Messages /\ Lines' = Lines /\ Asked' = Asked
      /\ callAt'[c] = p /\ \A d \in Call : d # c => callAt'[d] = callAt[d]
  BY <1>1, <1>2, Walk
<1>4. QueueIs(queue', callAt', id')
  <2>1. queue \in Seq(Call) /\ callAt \in [Call -> CallPoints]
    BY DEF QueueIs, CallsOK
  <2>2. Leaves(Mcp!Released(c), queue, c)
    BY <2>1, ReleasedLeaves
  <2> QED
    BY <1>1, <1>2, <2>1, <2>2, QueueLeft
<1>5. IsFiniteSet(writes')
  BY <1>1, FS_Subset DEF MessagesOK
<1>6. MessagesOK'
  <2>1. \A w \in writes' : /\ w \in writes
                           /\ w.by = c => /\ w = [by |-> w.by, message |-> w.message]
                                          /\ w.message = Mcp!Initialized \/ w.message = Mcp!RequestOf(c)
    BY <1>1 DEF MessagesOK
  <2>2. /\ toServer' \in Seq(Messages) /\ fromServer' \in Seq(Lines) /\ readers' \subseteq Call
    BY <1>1 DEF MessagesOK
  <2> QED
    BY <1>1, <1>2, <1>5, <2>1, <2>2, MessagesWalk
<1>7. /\ OnceOK' /\ \A n : Sent(n)' => Sent(n)
      /\ \A n : HasId(toServer', n) = HasId(toServer, n) /\ HasId(fromServer', n) = HasId(fromServer, n)
  BY <1>1, PipesStay
<1>8. OrderOK'
  <2>1. p \notin ToRead
    BY DEF ToRead
  <2> QED
    BY <1>1, <1>2, <1>3, <1>7, <2>1, OrderKeeps
<1>9. OwnOK'
  BY <1>3 DEF OwnOK, NobodyGone
<1>10. UnreadOK'
  <2>1. Cardinality(Stray') \in Nat /\ Cardinality(Stray') <= Cardinality(Stray) + 1
    <3> DEFINE own == [by |-> c, message |-> Mcp!RequestOf(c)]
    <3>1. Stray' \subseteq Stray \cup {own}
      <4>1. ASSUME NEW w \in writes, w.message.id # 0, callAt'[w.by] = "cancelled"
            PROVE  w \in Stray \/ w = own
        <5>1. w.by \in Call /\ w = [by |-> w.by, message |-> w.message] /\ w.message = Mcp!RequestOf(w.by)
          BY <4>1, AnswerIs DEF MessagesOK
        <5>2. CASE w.by = c
          BY <5>1, <5>2
        <5>3. CASE w.by # c
          BY <1>3, <4>1, <5>1, <5>3 DEF Stray
        <5> QED
          BY <5>2, <5>3
      <4> QED
        BY <1>1, <4>1 DEF Stray
    <3> HIDE DEF own
    <3>2. /\ IsFiniteSet(Stray \cup {own}) /\ Cardinality(Stray \cup {own}) <= Cardinality(Stray) + 1
      <4>1. IsFiniteSet(Stray) /\ Cardinality(Stray) \in Nat
        BY CountsAreNat
      <4>2. /\ IsFiniteSet(Stray \cup {own})
            /\ Cardinality(Stray \cup {own}) = IF own \in Stray THEN Cardinality(Stray) ELSE Cardinality(Stray) + 1
        BY ONLY <4>1, FS_AddElement
      <4> QED
        BY <4>1, <4>2
    <3>3. Cardinality(Stray') <= Cardinality(Stray \cup {own}) /\ IsFiniteSet(Stray')
      BY <3>1, <3>2, FS_Subset
    <3>4. Cardinality(Stray') \in Nat /\ Cardinality(Stray \cup {own}) \in Nat /\ Cardinality(Stray) \in Nat
      BY <3>2, <3>3, FS_CardinalityType, CountsAreNat
    <3> QED
      BY <3>2, <3>3, <3>4
  <2>2. callAt[c] = "sent" => Cardinality(Stray') <= Cardinality(Stray)
    <3>1. callAt[c] = "sent" => Stray' \subseteq Stray
      BY <1>1, <1>3 DEF Stray, MessagesOK
    <3> QED
      BY <3>1, CountsAreNat, FS_Subset
  <2>3. /\ Cardinality(In("cancelled")') = Cardinality(In("cancelled")) + 1
        /\ Cardinality(In("sent")') \in Nat
        /\ callAt[c] # "sent" => Cardinality(In("sent")') = Cardinality(In("sent"))
        /\ callAt[c] = "sent" => Cardinality(In("sent")') = Cardinality(In("sent")) - 1
    <3>1. "sent" \in CallPoints \ {"idle"} /\ "cancelled" \in CallPoints \ {"idle"}
      BY DEF CallPoints, InQueue, Holding
    <3> QED
      BY <1>1, <1>2, <3>1, WalkCounts
  <2>4. Unread' = Unread
    BY <1>1, <1>3 DEF Unread, Count
  <2>5. /\ Unread \in Nat /\ Cardinality(readers) \in Nat /\ Cardinality(Stray) \in Nat
        /\ Cardinality(In("sent")) \in Nat /\ Cardinality(In("cancelled")) \in Nat
        /\ readers' = readers /\ open' = open
    BY <1>1, CountsAreNat
  <2>6. CASE callAt[c] = "sent"
    BY <2>1, <2>2, <2>3, <2>4, <2>5, <2>6 DEF UnreadOK
  <2>7. CASE callAt[c] # "sent"
    BY <2>1, <2>3, <2>4, <2>5, <2>7 DEF UnreadOK
  <2> QED
    BY <2>6, <2>7
<1> QED
  BY <1>1, <1>3, <1>4, <1>6, <1>7, <1>8, <1>9, <1>10

LEMMA ServeKeeps ==
    ASSUME StdioInv, Mcp!Serve
    PROVE  StdioInv'
<1> USE DEF StdioInv
<1> DEFINE m == Head(toServer)
<1>1. /\ open /\ toServer # <<>> /\ toServer' = Tail(toServer)
      /\ fromServer' = IF m.id = 0 THEN fromServer ELSE Append(fromServer, Mcp!Dispatch(m))
      /\ UNCHANGED <<over, wants, callAt, id, nextId, queue, writes, readers, open, reply>>
  BY DEF Mcp!Serve, Mcp!IsNotification
<1>2. /\ CallsOK' /\ Begun' = Begun /\ Messages' = Messages /\ Lines' = Lines /\ Asked' = Asked
      /\ \A d : Mcp!RequestOf(d)' = Mcp!RequestOf(d)
  <2>1. Begun' = Begun /\ \A d : Mcp!RequestOf(d)' = Mcp!RequestOf(d)
    BY <1>1 DEF Begun, Mcp!RequestOf
  <2> QED
    BY <1>1, <2>1 DEF CallsOK, Messages, Lines, Asked
<1>3. toServer \in Seq(Messages) /\ fromServer \in Seq(Lines)
  BY DEF MessagesOK
<1>4. /\ Tail(toServer) \in Seq(Messages) /\ m \in Messages /\ HasId(toServer, m.id)
      /\ \A n : HasId(Tail(toServer), n) => HasId(toServer, n)
      /\ Once(toServer) => Once(Tail(toServer)) /\ \A n : n # 0 /\ HasId(Tail(toServer), n) => n # m.id
  BY <1>1, <1>3, TailIds
<1>5. Mcp!Dispatch(m).id = m.id /\ (m.id # 0 => Mcp!Dispatch(m) \in Lines)
  BY <1>4, AnswerIs DEF Messages, Lines
<1> HIDE DEF m
<1>6. /\ fromServer' \in Seq(Lines)
      /\ \A n : HasId(fromServer', n) <=> HasId(fromServer, n) \/ (m.id # 0 /\ n = m.id)
      /\ Once(fromServer) /\ (m.id # 0 => ~HasId(fromServer, m.id)) => Once(fromServer')
  <2>1. CASE m.id = 0
    BY <1>1, <1>3, <2>1
  <2>2. CASE m.id # 0
    <3>1. /\ Append(fromServer, Mcp!Dispatch(m)) \in Seq(Lines)
          /\ \A n : HasId(Append(fromServer, Mcp!Dispatch(m)), n) <=> HasId(fromServer, n) \/ m.id = n
          /\ Once(fromServer) /\ ~HasId(fromServer, m.id) => Once(Append(fromServer, Mcp!Dispatch(m)))
      BY <1>3, <1>5, <2>2, AppendIds
    <3> QED
      BY <1>1, <2>2, <3>1
  <2> QED
    BY <2>1, <2>2
<1>7. MessagesOK'
  <2>1. Mcp!Initialized' = Mcp!Initialized /\ Mcp!Nothing' = Mcp!Nothing
    BY DEF Mcp!Initialized, Mcp!Nothing
  <2> QED
    BY <1>1, <1>2, <1>4, <1>6, <2>1 DEF MessagesOK
<1>8. m.id \in Nat
  BY <1>4, AnswerIs DEF Messages, Begun, CallsOK
<1>9. /\ \A n : ToWrite(n)' <=> ToWrite(n)
      /\ \A n : Given(n)' <=> Given(n)
      /\ \A n : HasId(toServer, n)' <=> HasId(toServer', n)
      /\ \A n : HasId(fromServer, n)' <=> HasId(fromServer', n)
  BY <1>1 DEF ToWrite, Given, HasId
<1>10. OrderOK'
  <2>1. \A n \in Nat \ {0} : Sent(n)' => Sent(n)
    BY <1>1, <1>4, <1>6, <1>9 DEF Sent
  <2> QED
    BY <1>1, <2>1, OrderKeeps
<1>11. OnceOK'
  <2>1. m.id # 0 => ~HasId(fromServer, m.id) /\ ~Given(m.id) /\ ~ToWrite(m.id)
    BY <1>4, <1>8 DEF OnceOK
  <2>2. Once(toServer)' /\ Once(fromServer)'
    <3>1. Once(toServer') /\ Once(fromServer')
      BY <1>1, <1>4, <1>6, <2>1 DEF OnceOK
    <3> QED
      BY <3>1 DEF Once
  <2>3. \A n \in Nat \ {0} : /\ ToWrite(n)' => ~HasId(toServer', n) /\ ~HasId(fromServer', n) /\ ~Given(n)'
                             /\ HasId(toServer', n) => ~HasId(fromServer', n) /\ ~Given(n)'
                             /\ HasId(fromServer', n) => ~Given(n)'
    BY <1>1, <1>4, <1>6, <1>9, <2>1 DEF OnceOK
  <2> QED
    BY <1>1, <1>9, <2>2, <2>3 DEF OnceOK
<1>12. OwnOK'
  <2>1. \A n \in Nat \ {0} : (HasId(toServer', n) \/ HasId(fromServer', n)) => (HasId(toServer, n) \/ HasId(fromServer, n))
    BY <1>1, <1>4, <1>6
  <2>2. \A n : Reads(n)' <=> Reads(n)
    BY <1>1 DEF Reads
  <2>3. Mcp!Nothing' = Mcp!Nothing /\ (NobodyGone' <=> NobodyGone)
    BY <1>1 DEF Mcp!Nothing, NobodyGone
  <2> QED
    BY <1>1, <1>9, <2>1, <2>2, <2>3 DEF OwnOK
<1>13. UnreadOK'
  <2>1. /\ Count(toServer, Asked) \in Nat /\ Count(toServer', Asked) \in Nat
        /\ Count(toServer, Asked) = Count(toServer', Asked) + IF m.id # 0 THEN 1 ELSE 0
    <3>1. m \in Asked <=> m.id # 0
      BY <1>4 DEF Asked
    <3>2. /\ Count(toServer, Asked) \in Nat /\ Count(Tail(toServer), Asked) \in Nat
          /\ Count(toServer, Asked) = Count(Tail(toServer), Asked) + IF m \in Asked THEN 1 ELSE 0
      BY <1>1, <1>3, TailCounts DEF m
    <3> QED
      BY <1>1, <3>1, <3>2
  <2>2. Len(fromServer') = Len(fromServer) + (IF m.id # 0 THEN 1 ELSE 0) /\ Len(fromServer) \in Nat
    BY <1>1, <1>3
  <2>3. Unread' = Unread
    <3>1. Unread' = Len(fromServer') + Count(toServer', Asked)
      BY <1>2 DEF Unread, Count
    <3> QED
      BY <2>1, <2>2, <3>1 DEF Unread
  <2>4. Stray' = Stray /\ In("sent")' = In("sent") /\ In("cancelled")' = In("cancelled")
    BY <1>1 DEF Stray, In
  <2> QED
    BY <1>1, <2>3, <2>4 DEF UnreadOK
<1> QED
  BY <1>1, <1>2, <1>7, <1>10, <1>11, <1>12, <1>13

LEMMA ServerEndsKeeps ==
    ASSUME StdioInv, Mcp!ServerEnds
    PROVE  StdioInv'
<1> USE DEF StdioInv
<1>1. /\ ~open'
      /\ UNCHANGED <<over, wants, callAt, id, nextId, queue, writes, readers, toServer, fromServer, reply>>
  BY DEF Mcp!ServerEnds
<1>2. /\ CallsOK' /\ Messages' = Messages /\ Lines' = Lines
      /\ \A d : Mcp!RequestOf(d)' = Mcp!RequestOf(d)
      /\ Mcp!Initialized' = Mcp!Initialized /\ Mcp!Nothing' = Mcp!Nothing
  <2>1. Begun' = Begun /\ \A d : Mcp!RequestOf(d)' = Mcp!RequestOf(d)
    BY <1>1 DEF Begun, Mcp!RequestOf
  <2> QED
    BY <1>1, <2>1 DEF CallsOK, Messages, Lines, Mcp!Initialized, Mcp!Nothing
<1>3. MessagesOK'
  BY <1>1, <1>2 DEF MessagesOK
<1>4. /\ OnceOK' /\ \A n : Sent(n)' => Sent(n)
      /\ \A n : HasId(toServer', n) = HasId(toServer, n) /\ HasId(fromServer', n) = HasId(fromServer, n)
  BY <1>1, PipesStay
<1>5. OrderOK'
  BY <1>1, <1>4, OrderKeeps
<1>6. OwnOK'
  <2>1. (\A n : Reads(n)' <=> Reads(n)) /\ (NobodyGone' <=> NobodyGone)
    BY <1>1 DEF Reads, NobodyGone
  <2> QED
    BY <1>1, <1>2, <1>4, <2>1 DEF OwnOK
<1> QED
  BY <1>1, <1>2, <1>3, <1>4, <1>5, <1>6 DEF UnreadOK

LEMMA ReadLineKeeps ==
    ASSUME StdioInv, NEW c \in Call, Mcp!ReadLine(c)
    PROVE  StdioInv'
<1> USE DEF StdioInv
<1> DEFINE line == Head(fromServer)
<1>1. PICK p \in {"read", "cancelled"} :
        /\ c \in readers /\ fromServer # <<>> /\ callAt' = [callAt EXCEPT ![c] = p]
        /\ readers' = readers \ {c} /\ fromServer' = Tail(fromServer)
        /\ callAt[c] \in {"reading", "cancelled"} /\ (p = "cancelled" <=> callAt[c] = "cancelled")
        /\ reply' = IF p = "read" THEN [reply EXCEPT ![c] = line] ELSE reply
        /\ UNCHANGED <<over, wants, id, nextId, queue, writes, toServer, open>>
  <2>1. c \in readers /\ callAt[c] \in {"reading", "cancelled"} /\ callAt \in [Call -> CallPoints]
    BY DEF Mcp!ReadLine, MessagesOK, CallsOK
  <2>2. CASE callAt[c] = "reading"
    BY <2>1, <2>2 DEF Mcp!ReadLine, Mcp!Goto
  <2>3. CASE callAt[c] = "cancelled"
    <3>1. callAt' = callAt /\ [callAt EXCEPT ![c] = "cancelled"] = callAt
      BY <2>1, <2>3 DEF Mcp!ReadLine
    <3> QED
      BY <2>1, <2>3, <3>1 DEF Mcp!ReadLine
  <2> QED
    BY <2>1, <2>2, <2>3
<1>2. p \in CallPoints \ {"idle", "posting", "waiting", "sent"} /\ DOMAIN reply' = Call
  BY <1>1 DEF CallPoints, InQueue, Holding, CallsOK
<1>3. /\ CallsOK' /\ Messages' = Messages /\ Lines' = Lines /\ Asked' = Asked
      /\ callAt'[c] = p /\ \A d \in Call : d # c => callAt'[d] = callAt[d]
  BY <1>1, <1>2, Walk
<1>4. QueueIs(queue', callAt', id')
  <2>1. callAt \in [Call -> CallPoints]
    BY DEF CallsOK
  <2>2. CASE p = "read"
    <3>1. callAt[c] \in Holding /\ p \in Holding
      BY <1>1, <2>2 DEF Holding
    <3>2. queue # <<>> /\ queue[1] = c
      BY <3>1, HolderIs
    <3> QED
      BY <1>1, <2>1, <3>1, <3>2, QueueStays
  <2>3. CASE p = "cancelled"
    <3>1. callAt' = callAt
      BY <1>1, <2>1, <2>3
    <3> QED
      BY <1>1, <3>1
  <2> QED
    BY <1>1, <2>2, <2>3
<1>5. fromServer \in Seq(Lines) /\ toServer \in Seq(Messages)
  BY DEF MessagesOK
<1>6. /\ Tail(fromServer) \in Seq(Lines) /\ line \in Lines /\ HasId(fromServer, line.id)
      /\ \A n : HasId(Tail(fromServer), n) => HasId(fromServer, n)
      /\ Once(fromServer) => Once(Tail(fromServer)) /\ \A n : n # 0 /\ HasId(Tail(fromServer), n) => n # line.id
  BY <1>1, <1>5, TailIds
<1>7. line.id \in Nat \ {0}
  BY <1>6, AnswerIs DEF Lines, Begun, CallsOK
<1> HIDE DEF line
<1>8. callAt[c] = "reading" => line.id <= id[c]
  BY <1>6, <1>7 DEF OrderOK, Sent, ToRead
<1>9. \A d \in Call : reply'[d] = reply[d] \/ (d = c /\ p = "read" /\ reply'[d] = line)
  BY <1>1 DEF CallsOK
<1>10. MessagesOK'
  <2>1. \A w \in writes' : \/ w \in writes /\ w.by # c
                           \/ /\ w = [by |-> w.by, message |-> w.message] /\ w.by = c
                              /\ \/ w.message = Mcp!Initialized /\ p \in {"notify", "cancelled"}
                                 \/ w.message = Mcp!RequestOf(c) /\ p \in {"sending", "cancelled"}
    BY <1>1 DEF MessagesOK
  <2>2. /\ IsFiniteSet(writes') /\ toServer' \in Seq(Messages) /\ fromServer' \in Seq(Lines)
        /\ readers' \subseteq Call /\ c \notin readers' /\ \A d \in readers' : d \in readers \/ d = c
    BY <1>1, <1>6 DEF MessagesOK
  <2>3. \A d \in Call : reply'[d] = reply[d] \/ (reply'[d] \in Lines /\ reply'[d].id <= id[d])
    BY <1>1, <1>6, <1>8, <1>9
  <2>4. callAt[c] # "idle"
    BY <1>1
  <2> QED
    BY <1>1, <1>2, <2>1, <2>2, <2>3, <2>4, MessagesWalk
<1>11. /\ \A n : ToWrite(n)' <=> ToWrite(n)
       /\ \A n : Given(n)' => Given(n) \/ (p = "read" /\ n = line.id)
       /\ \A n : HasId(toServer, n)' <=> HasId(toServer, n)
       /\ \A n : HasId(fromServer, n)' <=> HasId(fromServer', n)
  BY <1>1, <1>9 DEF ToWrite, Given, HasId
<1>12. OrderOK'
  <2>1. \A n \in Nat \ {0} : Sent(n)' => Sent(n)
    BY <1>1, <1>6, <1>11 DEF Sent
  <2>2. p \notin ToRead
    BY <1>1 DEF ToRead
  <2> QED
    BY <1>1, <1>2, <1>3, <2>1, <2>2, OrderKeeps
<1>13. /\ ~ToWrite(line.id) /\ ~HasId(toServer, line.id) /\ ~Given(line.id)
       /\ Once(fromServer') /\ \A n : n # 0 /\ HasId(fromServer', n) => n # line.id /\ HasId(fromServer, n)
  BY <1>1, <1>6, <1>7 DEF OnceOK
<1>14. OnceOK'
  <2>1. Once(toServer)' /\ Once(fromServer)'
    BY <1>1, <1>13 DEF OnceOK, Once
  <2>2. ASSUME NEW d \in Call, NEW e \in Call, reply'[d].id = reply'[e].id, reply'[d].id # 0
        PROVE  d = e
    <3>1. ~(\E x \in Call : reply[x].id = line.id)
      BY <1>13 DEF Given
    <3> QED
      BY <1>9, <2>2, <3>1 DEF OnceOK
  <2>3. \A n \in Nat \ {0} : /\ ToWrite(n)' => ~HasId(toServer, n)' /\ ~HasId(fromServer, n)' /\ ~Given(n)'
                             /\ HasId(toServer, n)' => ~HasId(fromServer, n)' /\ ~Given(n)'
                             /\ HasId(fromServer, n)' => ~Given(n)'
    BY <1>11, <1>13 DEF OnceOK
  <2> QED
    BY <2>1, <2>2, <2>3 DEF OnceOK
<1>15. OwnOK'
  <2> SUFFICES ASSUME NobodyGone'
               PROVE  /\ \A n \in Nat \ {0} : ((open /\ HasId(toServer, n)') \/ HasId(fromServer, n)') => Reads(n)'
                      /\ \A d \in Call : reply'[d] # Mcp!Nothing => reply'[d].id = id[d]
    BY <1>1 DEF OwnOK, Mcp!Nothing
  <2>1. callAt[c] = "reading" /\ p = "read" /\ NobodyGone
    BY <1>1, <1>3 DEF NobodyGone
  <2>2. \A n : Reads(n) => n = id[c]
    <3>1. \A d \in Call : callAt[d] \in {"sent", "reading"} => callAt[d] \in Holding
      BY DEF Holding
    <3> QED
      BY <2>1, <3>1, HolderIs DEF Reads
  <2>3. line.id = id[c]
    BY <1>6, <1>7, <2>1, <2>2 DEF OwnOK
  <2>4. \A n \in Nat \ {0} : ((open /\ HasId(toServer, n)) \/ HasId(fromServer, n)) => n = line.id
    BY <2>1, <2>2, <2>3 DEF OwnOK
  <2>5. \A n \in Nat \ {0} : ~((open /\ HasId(toServer, n)') \/ HasId(fromServer, n)')
    BY <1>11, <1>13, <2>4
  <2> QED
    BY <1>9, <2>1, <2>3, <2>5 DEF OwnOK
<1>16. UnreadOK'
  <2>1. Stray' = Stray
    BY <1>1, <1>2, StrayStays DEF Stray
  <2>2. In("sent")' = In("sent") /\ In("cancelled")' = In("cancelled")
    BY <1>1, <1>3 DEF In
  <2>3. Unread' = Unread - 1 /\ Unread \in Nat
    <3>1. Len(fromServer') = Len(fromServer) - 1
      BY <1>1, <1>5
    <3>2. Unread' = Len(fromServer') + Count(toServer, Asked)
      BY <1>1, <1>3 DEF Unread, Count
    <3> QED
      BY <3>1, <3>2, CountsAreNat DEF Unread
  <2>4. Cardinality(readers') = Cardinality(readers) - 1
    BY <1>1, CountsAreNat, FS_RemoveElement
  <2> QED
    BY <1>1, <2>1, <2>2, <2>3, <2>4, CountsAreNat DEF UnreadOK
<1> QED
  BY <1>1, <1>3, <1>4, <1>10, <1>12, <1>14, <1>15, <1>16

LEMMA WriteKeeps ==
    ASSUME StdioInv, NEW w \in writes, Mcp!Write(w)
    PROVE  StdioInv'
<1> USE DEF StdioInv
<1> DEFINE c == w.by
           m == w.message
<1>1. /\ c \in Call /\ w = [by |-> c, message |-> m]
      /\ \/ m = Mcp!Initialized /\ m.id = 0 /\ callAt[c] \in {"notify", "cancelled"}
         \/ m = Mcp!RequestOf(c) /\ m.id = id[c] /\ m.id # 0 /\ callAt[c] \in {"sending", "cancelled"}
      /\ callAt \in [Call -> CallPoints] /\ m.id \in Nat
  BY AnswerIs DEF MessagesOK, CallsOK
<1>2. PICK p \in {"sent", "answered", "failed", "cancelled"} :
        /\ callAt' = [callAt EXCEPT ![c] = p] /\ writes' = writes \ {w}
        /\ toServer' = IF open THEN Append(toServer, m) ELSE toServer
        /\ p = "sent" <=> callAt[c] = "sending" /\ open
        /\ p = "cancelled" <=> callAt[c] = "cancelled"
        /\ queue' = IF p \in {"sent", "cancelled"} THEN queue ELSE Tail(queue)
        /\ UNCHANGED <<over, wants, id, nextId, readers, fromServer, open, reply>>
  <2>1. CASE callAt[c] = "cancelled"
    <3>1. [callAt EXCEPT ![c] = "cancelled"] = callAt
      BY <1>1, <2>1
    <3> QED
      BY <2>1, <3>1 DEF Mcp!Write
  <2>2. CASE callAt[c] = "sending" /\ open
    BY <2>2 DEF Mcp!Write, Mcp!Goto
  <2>3. CASE callAt[c] = "notify" /\ open
    BY <2>3 DEF Mcp!Write, Mcp!Goto
  <2>4. CASE callAt[c] \in {"sending", "notify"} /\ ~open
    BY <2>4 DEF Mcp!Write, Mcp!Goto
  <2> QED
    BY <1>1, <2>1, <2>2, <2>3, <2>4
<1>3. /\ p \in CallPoints \ {"idle", "posting", "waiting", "sending", "reading"} /\ DOMAIN reply' = Call
      /\ callAt[c] # "idle"
  BY <1>1, <1>2 DEF CallPoints, InQueue, Holding, CallsOK
<1> HIDE DEF c, m
<1>4. /\ CallsOK' /\ Messages' = Messages /\ Lines' = Lines /\ Asked' = Asked
      /\ callAt'[c] = p /\ \A d \in Call : d # c => callAt'[d] = callAt[d]
  BY <1>1, <1>2, <1>3, Walk
<1>5. QueueIs(queue', callAt', id')
  <2>1. CASE p = "cancelled"
    <3>1. callAt' = callAt
      BY <1>1, <1>2, <2>1
    <3> QED
      BY <1>2, <2>1, <3>1
  <2>2. CASE p # "cancelled"
    <3>1. callAt[c] \in Holding
      BY <1>1, <1>2, <2>2 DEF Holding
    <3>2. queue # <<>> /\ queue[1] = c
      BY <1>1, <3>1, HolderIs
    <3>3. CASE p = "sent"
      <4>1. p \in Holding
        BY <3>3 DEF Holding
      <4> QED
        BY <1>1, <1>2, <3>2, <3>3, <4>1, QueueStays
    <3>4. CASE p # "sent"
      <4>1. Leaves(Tail(queue), queue, c)
        BY <3>2, TailLeaves
      <4>2. p \notin InQueue
        BY <1>2, <2>2, <3>4 DEF InQueue, Holding
      <4> QED
        BY <1>1, <1>2, <2>2, <3>4, <4>1, <4>2, QueueLeft
    <3> QED
      BY <3>3, <3>4
  <2> QED
    BY <2>1, <2>2
<1>6. toServer \in Seq(Messages) /\ m \in Messages
  BY <1>1, <1>3 DEF MessagesOK, Messages, Begun
<1>7. /\ toServer' \in Seq(Messages)
      /\ \A n : HasId(toServer', n) <=> HasId(toServer, n) \/ (open /\ n = m.id)
      /\ Once(toServer) /\ (m.id # 0 => ~HasId(toServer, m.id)) => Once(toServer')
  <2>1. /\ Append(toServer, m) \in Seq(Messages)
        /\ \A n : HasId(Append(toServer, m), n) <=> HasId(toServer, n) \/ m.id = n
        /\ Once(toServer) /\ (m.id # 0 => ~HasId(toServer, m.id)) => Once(Append(toServer, m))
    BY <1>6, AppendIds
  <2> QED
    BY <1>2, <1>6, <2>1
<1>8. MessagesOK'
  <2>1. IsFiniteSet(writes')
    BY <1>2, FS_Subset DEF MessagesOK
  <2>2. ASSUME NEW v \in writes'
        PROVE  \/ v \in writes /\ v.by # c
               \/ /\ v = [by |-> v.by, message |-> v.message] /\ v.by = c
                  /\ \/ v.message = Mcp!Initialized /\ p \in {"notify", "cancelled"}
                     \/ v.message = Mcp!RequestOf(c) /\ p \in {"sending", "cancelled"}
    <3>1. v \in writes /\ v # w /\ v = [by |-> v.by, message |-> v.message]
      BY <1>2 DEF MessagesOK
    <3>2. CASE v.by = c
      <4>1. v.message # m
        BY <1>1, <3>1, <3>2
      <4>2. callAt[c] = "cancelled" /\ (v.message = Mcp!Initialized \/ v.message = Mcp!RequestOf(c))
        BY <1>1, <3>1, <3>2, <4>1 DEF MessagesOK
      <4> QED
        BY <1>2, <3>1, <3>2, <4>2
    <3> QED
      BY <3>1, <3>2
  <2>3. fromServer' \in Seq(Lines) /\ readers' \subseteq Call /\ \A d \in Call : reply'[d] = reply[d]
    BY <1>2 DEF MessagesOK
  <2>4. /\ c \in readers' => p \in {"reading", "cancelled"}
        /\ \A d \in readers' : d \in readers \/ d = c
    BY <1>1, <1>2 DEF MessagesOK
  <2>5. /\ c \in Call /\ callAt' = [callAt EXCEPT ![c] = p] /\ UNCHANGED <<over, id, nextId, wants>>
        /\ p \in CallPoints \ {"idle", "posting"}
    BY <1>1, <1>2, <1>3
  <2> QED
    BY <1>3, <1>7, <2>1, <2>2, <2>3, <2>4, <2>5, MessagesWalk
<1>9. /\ \A n : ToWrite(n)' => ToWrite(n) /\ (n # 0 => n # m.id)
      /\ \A n : Given(n)' <=> Given(n)
      /\ \A n : HasId(toServer, n)' <=> HasId(toServer', n)
      /\ \A n : HasId(fromServer, n)' <=> HasId(fromServer, n)
  <2>1. ASSUME NEW v \in writes, v # w, v.message.id = m.id, m.id # 0
        PROVE  FALSE
    <3>1. v = [by |-> v.by, message |-> v.message] /\ v.by \in Call /\ v.message = Mcp!RequestOf(v.by) /\ id[v.by] = m.id
      BY <2>1, AnswerIs DEF MessagesOK
    <3>2. m = Mcp!RequestOf(c) /\ id[c] = m.id
      BY <1>1, <2>1
    <3>3. v.by = c
      BY <1>1, <2>1, <3>1, <3>2 DEF CallsOK
    <3> QED
      BY <1>1, <2>1, <3>1, <3>2, <3>3
  <2>2. \A n : ToWrite(n)' => ToWrite(n) /\ (n # 0 => n # m.id)
    BY <1>2, <2>1 DEF ToWrite
  <2> QED
    BY <1>2, <2>2 DEF Given, HasId
<1>10. ToWrite(m.id)
  BY DEF ToWrite, m
<1>11. OrderOK'
  <2>1. \A n \in Nat \ {0} : Sent(n)' => Sent(n)
    BY <1>7, <1>9, <1>10 DEF Sent
  <2>2. p \in ToRead => callAt[c] \in ToRead
    BY <1>2 DEF ToRead
  <2> QED
    BY <1>1, <1>2, <1>3, <1>4, <2>1, <2>2, OrderKeeps
<1>12. m.id # 0 => ~HasId(toServer, m.id) /\ ~HasId(fromServer, m.id) /\ ~Given(m.id)
  BY <1>1, <1>10 DEF OnceOK
<1>13. OnceOK'
  <2>1. Once(toServer)' /\ Once(fromServer)'
    BY <1>2, <1>7, <1>12 DEF OnceOK, Once
  <2>2. \A n \in Nat \ {0} : /\ ToWrite(n)' => ~HasId(toServer, n)' /\ ~HasId(fromServer, n)' /\ ~Given(n)'
                             /\ HasId(toServer, n)' => ~HasId(fromServer, n)' /\ ~Given(n)'
                             /\ HasId(fromServer, n)' => ~Given(n)'
    BY <1>7, <1>9, <1>12 DEF OnceOK
  <2> QED
    BY <1>2, <2>1, <2>2 DEF OnceOK
<1>14. OwnOK'
  <2>1. \A n : Reads(n) => Reads(n)'
    BY <1>1, <1>2, <1>4 DEF Reads
  <2>2. NobodyGone' => NobodyGone /\ callAt[c] # "cancelled"
    BY <1>1, <1>2, <1>4 DEF NobodyGone
  <2>3. Mcp!Nothing' = Mcp!Nothing
    BY DEF Mcp!Nothing
  <2>4. NobodyGone' /\ open /\ m.id # 0 => Reads(m.id)'
    BY <1>1, <1>2, <1>4, <2>2 DEF Reads
  <2> QED
    BY <1>2, <1>7, <1>9, <2>1, <2>2, <2>3, <2>4 DEF OwnOK
<1>15. UnreadOK'
  <2> SUFFICES ASSUME open
               PROVE  UnreadOK'
    BY <1>2 DEF UnreadOK
  <2>1. \A v \in writes : callAt'[v.by] = "cancelled" <=> callAt[v.by] = "cancelled"
    BY <1>1, <1>2, StrayStays
  <2>2. Stray' = Stray \ {w}
    BY <1>2, <2>1 DEF Stray
  <2>3. w \in Stray <=> callAt[c] = "cancelled" /\ m.id # 0
    BY DEF Stray, c, m
  <2>4. Cardinality(Stray') = Cardinality(Stray) - IF callAt[c] = "cancelled" /\ m.id # 0 THEN 1 ELSE 0
    <3>1. CASE w \in Stray
      BY <2>2, <2>3, <3>1, CountsAreNat, FS_RemoveElement
    <3>2. CASE w \notin Stray
      <4>1. Stray' = Stray
        BY <2>2, <3>2
      <4> QED
        BY <2>3, <3>2, <4>1, CountsAreNat
    <3> QED
      BY <3>1, <3>2
  <2>5. Unread' = Unread + IF m.id # 0 THEN 1 ELSE 0
    <3>1. m \in Asked <=> m.id # 0
      BY <1>6 DEF Asked
    <3>2. Count(toServer', Asked) = Count(toServer, Asked) + IF m.id # 0 THEN 1 ELSE 0
      BY <1>2, <1>6, <3>1, OneCounts
    <3>3. Unread' = Len(fromServer) + Count(toServer', Asked)
      BY <1>2, <1>4 DEF Unread, Count
    <3> QED
      BY <3>2, <3>3, CountsAreNat DEF Unread
  <2>6. /\ In("cancelled")' = In("cancelled")
        /\ p = "sent" => Cardinality(In("sent")') = Cardinality(In("sent")) + 1
        /\ p # "sent" => In("sent")' = In("sent")
    <3>1. "sent" \in CallPoints \ {"idle"} /\ "cancelled" \in CallPoints \ {"idle"}
      BY DEF CallPoints, InQueue, Holding
    <3>2. callAt[c] # "sent"
      BY <1>1
    <3> QED
      BY <1>1, <1>2, <1>3, <3>1, <3>2, WalkCounts
  <2>7. m.id # 0 /\ callAt[c] # "cancelled" <=> p = "sent"
    BY <1>1, <1>2
  <2>8. p = "sent" => callAt[c] # "cancelled" /\ m.id # 0
    BY <2>7
  <2> QED
    BY <1>2, <2>4, <2>5, <2>6, <2>7, CountsAreNat DEF UnreadOK
<1> QED
  BY <1>2, <1>4, <1>5, <1>8, <1>11, <1>13, <1>14, <1>15

LEMMA SendKeeps ==
    ASSUME StdioInv, NEW c \in Call, Mcp!Send(c)
    PROVE  StdioInv'
<1> USE DEF StdioInv
<1> DEFINE m == Mcp!Message(c)
           new == [by |-> c, message |-> m]
<1>1. PICK p \in {"notify", "sending"} :
        /\ callAt[c] = (IF p = "notify" THEN "confirm" ELSE "waiting") /\ queue # <<>> /\ queue[1] = c
        /\ callAt' = [callAt EXCEPT ![c] = p] /\ writes' = writes \cup {new}
        /\ m = IF p = "notify" THEN Mcp!Initialized ELSE Mcp!RequestOf(c)
        /\ UNCHANGED <<over, wants, id, nextId, queue, readers, toServer, fromServer, open, reply>>
  <2>1. queue # <<>> => Head(queue) = queue[1]
    BY DEF QueueIs
  <2>2. CASE callAt[c] = "confirm"
    BY <2>1, <2>2 DEF Mcp!Send, Mcp!Goto, Mcp!Message, Mcp!Confirms
  <2>3. CASE callAt[c] = "waiting"
    BY <2>1, <2>3 DEF Mcp!Send, Mcp!Goto, Mcp!Message, Mcp!Confirms
  <2> QED
    BY <2>2, <2>3 DEF Mcp!Send
<1>2. /\ p \in CallPoints \ {"idle", "posting", "waiting"} /\ DOMAIN reply' = Call /\ p \in Holding
      /\ callAt \in [Call -> CallPoints] /\ callAt[c] # "idle"
  BY <1>1 DEF CallPoints, InQueue, Holding, CallsOK
<1>3. m.id = (IF p = "notify" THEN 0 ELSE id[c]) /\ id[c] \in Nat \ {0}
  BY <1>1, <1>2, AnswerIs DEF CallsOK
<1> HIDE DEF m
<1>4. /\ CallsOK' /\ Messages' = Messages /\ Lines' = Lines /\ Asked' = Asked
      /\ callAt'[c] = p /\ \A d \in Call : d # c => callAt'[d] = callAt[d]
  BY <1>1, <1>2, Walk
<1>5. QueueIs(queue', callAt', id')
  BY <1>1, <1>2, QueueStays
<1>6. \A w \in writes : w.by # c
  BY <1>1 DEF MessagesOK
<1>7. new.by = c /\ new.message = m /\ new = [by |-> new.by, message |-> new.message]
  OBVIOUS
<1> HIDE DEF new
<1>8. MessagesOK'
  <2>1. IsFiniteSet(writes')
    <3>1. IsFiniteSet(writes)
      BY DEF MessagesOK
    <3> QED
      BY <1>1, <3>1, FS_AddElement
  <2>2. ASSUME NEW w \in writes'
        PROVE  \/ w \in writes /\ w.by # c
               \/ /\ w = [by |-> w.by, message |-> w.message] /\ w.by = c
                  /\ \/ w.message = Mcp!Initialized /\ p \in {"notify", "cancelled"}
                     \/ w.message = Mcp!RequestOf(c) /\ p \in {"sending", "cancelled"}
    <3>1. CASE w \in writes
      BY <1>6, <3>1
    <3>2. CASE w = new
      BY <1>1, <1>7, <3>2
    <3> QED
      BY <1>1, <3>1, <3>2
  <2>3. /\ toServer' \in Seq(Messages) /\ fromServer' \in Seq(Lines) /\ readers' \subseteq Call
        /\ \A d \in Call : reply'[d] = reply[d]
    BY <1>1 DEF MessagesOK
  <2>4. c \notin readers
    BY <1>1 DEF MessagesOK
  <2> QED
    BY <1>1, <1>2, <2>1, <2>2, <2>3, <2>4, MessagesWalk
<1>9. /\ \A n : ToWrite(n)' <=> ToWrite(n) \/ n = m.id
      /\ \A n : Given(n)' <=> Given(n)
      /\ \A n : HasId(toServer, n)' <=> HasId(toServer, n)
      /\ \A n : HasId(fromServer, n)' <=> HasId(fromServer, n)
  BY <1>1, <1>7 DEF ToWrite, Given, HasId
<1>10. ASSUME p = "sending", NEW n \in Nat \ {0}, Sent(n)
       PROVE  n < id[c]
  BY <1>1, <1>10 DEF OrderOK
<1>11. OrderOK'
  <2>1. ASSUME NEW n \in Nat \ {0}, Sent(n)', NEW d \in Call
        PROVE  /\ callAt'[d] = "waiting" => n < id[d]
               /\ callAt'[d] \in ToRead => n <= id[d]
    <3>1. Sent(n) \/ (p = "sending" /\ n = id[c])
      BY <1>3, <1>9, <2>1 DEF Sent
    <3>2. id[d] \in Nat /\ id[c] \in Nat
      BY DEF CallsOK
    <3>3. ASSUME callAt'[d] = "waiting"
          PROVE  n < id[d]
      <4>1. d # c /\ callAt[d] = "waiting"
        BY <1>2, <1>4, <3>3
      <4>2. CASE Sent(n)
        BY <2>1, <4>1, <4>2 DEF OrderOK
      <4>3. CASE p = "sending" /\ n = id[c]
        <5>1. PICK j \in DOMAIN queue : queue[j] = d
          BY <4>1 DEF QueueIs, InQueue
        <5>2. 1 \in DOMAIN queue /\ 1 < j
          <6>1. queue \in Seq(Call)
            BY DEF QueueIs
          <6> QED
            BY <1>1, <4>1, <5>1, <6>1
        <5>3. callAt[queue[1]] = "waiting" /\ callAt[queue[j]] = "waiting"
          BY <1>1, <4>1, <4>3, <5>1
        <5>4. id[queue[1]] < id[queue[j]]
          BY <5>1, <5>2, <5>3 DEF QueueIs
        <5> QED
          BY <1>1, <4>3, <5>1, <5>4
      <4> QED
        BY <3>1, <4>2, <4>3
    <3>4. ASSUME callAt'[d] \in ToRead
          PROVE  n <= id[d]
      <4>1. callAt'[d] \in Holding
        BY <3>4 DEF ToRead, Holding
      <4>2. d = c
        <5>1. CASE d # c
          <6>1. callAt[d] \in Holding
            BY <1>4, <4>1, <5>1
          <6> QED
            BY <1>1, <5>1, <6>1, HolderIs
        <5> QED
          BY <5>1
      <4>3. p = "sending"
        BY <1>1, <1>4, <3>4, <4>2 DEF ToRead
      <4> QED
        BY <1>10, <2>1, <3>1, <3>2, <4>2, <4>3
    <3> QED
      BY <3>3, <3>4
  <2> QED
    BY <1>1, <2>1 DEF OrderOK
<1>12. OnceOK'
  <2>1. m.id # 0 => ~Sent(m.id) /\ m.id \in Nat \ {0}
    <3>1. CASE p = "notify"
      BY <1>3, <3>1
    <3>2. CASE p = "sending"
      BY <1>3, <1>10, <3>2
    <3> QED
      BY <1>1, <3>1, <3>2
  <2>2. Once(toServer)' /\ Once(fromServer)'
    BY <1>1 DEF OnceOK, Once
  <2>3. \A n \in Nat \ {0} : /\ ToWrite(n)' => ~HasId(toServer, n)' /\ ~HasId(fromServer, n)' /\ ~Given(n)'
                             /\ HasId(toServer, n)' => ~HasId(fromServer, n)' /\ ~Given(n)'
                             /\ HasId(fromServer, n)' => ~Given(n)'
    BY <1>9, <2>1 DEF OnceOK, Sent
  <2> QED
    BY <1>1, <2>2, <2>3 DEF OnceOK
<1>13. OwnOK'
  <2>1. \A n : Reads(n) => Reads(n)'
    BY <1>1, <1>4 DEF Reads
  <2>2. NobodyGone' => NobodyGone
    BY <1>1, <1>4 DEF NobodyGone
  <2>3. Mcp!Nothing' = Mcp!Nothing
    BY DEF Mcp!Nothing
  <2> QED
    BY <1>1, <1>9, <2>1, <2>2, <2>3 DEF OwnOK
<1>14. UnreadOK'
  <2>1. \A w \in writes : callAt'[w.by] = "cancelled" <=> callAt[w.by] = "cancelled"
    BY <1>1, <1>2, StrayStays
  <2>2. callAt'[new.by] # "cancelled"
    BY <1>1, <1>4, <1>7
  <2>3. Stray' = Stray
    BY <1>1, <2>1, <2>2 DEF Stray
  <2>4. In("sent")' = In("sent") /\ In("cancelled")' = In("cancelled")
    BY <1>1, <1>4 DEF In
  <2>5. Unread' = Unread
    BY <1>1, <1>4 DEF Unread, Count
  <2> QED
    BY <1>1, <2>3, <2>4, <2>5 DEF UnreadOK
<1> QED
  BY <1>1, <1>4, <1>5, <1>8, <1>11, <1>12, <1>13, <1>14

\* A call begins with an id that is later than all others.
LEMMA BeginIs ==
    ASSUME CallsOK, NEW c \in Call, Mcp!Begin(c)
    PROVE  /\ CallsOK' /\ callAt[c] = "idle" /\ c \in Begun' /\ Begun \subseteq Begun'
           /\ callAt'[c] = (IF over = "stdio" THEN "waiting" ELSE "posting") /\ id'[c] = nextId + 1
           /\ \A d \in Call : d # c => callAt'[d] = callAt[d] /\ id'[d] = id[d]
           /\ \A d \in Begun : Mcp!RequestOf(d)' = Mcp!RequestOf(d)
           /\ Messages \subseteq Messages' /\ Lines \subseteq Lines'
<1> DEFINE p == IF over = "stdio" THEN "waiting" ELSE "posting"
<1>1. /\ callAt[c] = "idle" /\ nextId' = nextId + 1 /\ id' = [id EXCEPT ![c] = nextId + 1]
      /\ callAt' = [callAt EXCEPT ![c] = p] /\ UNCHANGED <<over, wants, reply>>
  BY DEF Mcp!Begin, Mcp!Goto
<1>2. /\ callAt \in [Call -> CallPoints] /\ id \in [Call -> Nat] /\ nextId \in Nat
      /\ p \in CallPoints \ {"idle"}
  BY DEF CallsOK, CallPoints, InQueue
<1> HIDE DEF p
<1>3. /\ callAt' \in [Call -> CallPoints] /\ id' \in [Call -> Nat] /\ nextId' \in Nat
      /\ callAt'[c] = p /\ id'[c] = nextId + 1
      /\ \A d \in Call : d # c => callAt'[d] = callAt[d] /\ id'[d] = id[d]
  BY <1>1, <1>2
<1>4. Begun' = Begun \cup {c} /\ c \notin Begun
  BY <1>1, <1>2, <1>3 DEF Begun
<1>5. IsFiniteSet(Begun')
  BY <1>4, FS_AddElement DEF CallsOK
<1>6. \A d \in Call : id'[d] <= nextId' /\ (id'[d] = 0 <=> callAt'[d] = "idle")
  BY <1>1, <1>2, <1>3 DEF CallsOK
<1>7. \A d, e \in Call : id'[d] = id'[e] /\ id'[d] # 0 => d = e
  <2>1. \A d \in Call : id[d] # nextId + 1
    BY <1>2 DEF CallsOK
  <2> QED
    BY <1>3, <2>1 DEF CallsOK
<1>8. CallsOK'
  BY <1>1, <1>3, <1>5, <1>6, <1>7 DEF CallsOK
<1>9. \A d \in Begun : Mcp!RequestOf(d)' = Mcp!RequestOf(d)
  BY <1>1, <1>3, <1>4 DEF Mcp!RequestOf, Begun
<1>10. Messages \subseteq Messages' /\ Lines \subseteq Lines'
  <2>1. Mcp!Initialized' = Mcp!Initialized
    BY DEF Mcp!Initialized
  <2> QED
    BY <1>4, <1>9, <2>1 DEF Messages, Lines
<1> QED
  BY <1>1, <1>3, <1>4, <1>8, <1>9, <1>10 DEF p

LEMMA BeginKeeps ==
    ASSUME StdioInv, NEW c \in Call, Mcp!Begin(c)
    PROVE  StdioInv'
<1> USE DEF StdioInv
<1>1. /\ callAt' = [callAt EXCEPT ![c] = "waiting"] /\ queue' = Append(queue, c)
      /\ UNCHANGED <<over, wants, writes, readers, toServer, fromServer, open, reply>>
  BY DEF Mcp!Begin, Mcp!Goto
<1>2. /\ CallsOK' /\ callAt[c] = "idle" /\ Begun \subseteq Begun'
      /\ callAt'[c] = "waiting" /\ id'[c] = nextId + 1
      /\ \A d \in Call : d # c => callAt'[d] = callAt[d] /\ id'[d] = id[d]
      /\ \A d \in Begun : Mcp!RequestOf(d)' = Mcp!RequestOf(d)
      /\ Messages \subseteq Messages' /\ Lines \subseteq Lines'
  BY BeginIs
<1>3. nextId \in Nat /\ \A d \in Call : id[d] \in Nat /\ id[d] <= nextId
  BY DEF CallsOK
<1>4. QueueIs(queue', callAt', id')
  <2>1. callAt \in [Call -> CallPoints] /\ callAt[c] \notin InQueue
    BY <1>2 DEF CallsOK, InQueue, Holding
  <2>2. \A d \in Call : callAt[d] = "waiting" => id[d] < id'[c]
    BY <1>2, <1>3
  <2> QED
    BY <1>1, <1>2, <2>1, <2>2, QueueJoined
<1>5. MessagesOK'
  <2>1. ASSUME NEW w \in writes
        PROVE  \/ w.message = Mcp!Initialized /\ callAt'[w.by] \in {"notify", "cancelled"}
               \/ w.message = Mcp!RequestOf(w.by)' /\ callAt'[w.by] \in {"sending", "cancelled"}
    <3>1. w.by \in Call /\ callAt[w.by] \in {"notify", "sending", "cancelled"}
      BY DEF MessagesOK
    <3>2. w.by # c /\ w.by \in Begun
      BY <1>2, <3>1 DEF Begun
    <3> QED
      BY <1>2, <3>1, <3>2 DEF MessagesOK
  <2>2. \A d \in readers : callAt'[d] \in {"reading", "cancelled"}
    BY <1>2 DEF MessagesOK
  <2>3. ASSUME NEW d \in Call
        PROVE  /\ reply[d] = Mcp!Nothing \/ (reply[d] \in Lines' /\ reply[d].id <= id'[d])
               /\ callAt'[d] # "posting"
    <3>1. id'[d] \in Nat /\ id[d] \in Nat /\ id[d] <= id'[d]
      BY <1>2, <1>3
    <3>2. reply[d] \in Lines => reply[d].id \in Nat
      BY AnswerIs, <1>3 DEF Lines, Begun
    <3> QED
      BY <1>2, <3>1, <3>2 DEF MessagesOK
  <2>4. toServer \in Seq(Messages') /\ fromServer \in Seq(Lines')
    <3>1. toServer \in Seq(Messages) /\ fromServer \in Seq(Lines)
      BY DEF MessagesOK
    <3> QED
      BY <1>2, <3>1
  <2>5. Mcp!Initialized' = Mcp!Initialized /\ Mcp!Nothing' = Mcp!Nothing
    BY DEF Mcp!Initialized, Mcp!Nothing
  <2> QED
    BY <1>1, <2>1, <2>2, <2>3, <2>4, <2>5 DEF MessagesOK
<1>6. \A n : ToWrite(n)' = ToWrite(n) /\ Given(n)' = Given(n) /\ HasId(toServer, n)' = HasId(toServer, n)
             /\ HasId(fromServer, n)' = HasId(fromServer, n)
  BY <1>1 DEF ToWrite, Given, HasId
<1>7. OrderOK'
  <2>1. ASSUME NEW n \in Nat \ {0}, Sent(n), NEW d \in Call
        PROVE  /\ callAt'[d] = "waiting" => n < id'[d]
               /\ callAt'[d] \in ToRead => n <= id'[d]
    <3>1. CASE d = c
      <4>1. PICK e \in Begun : id[e] = n
        BY <2>1, SentIs
      <4>2. n < id'[c]
        BY <1>2, <1>3, <4>1 DEF Begun
      <4> QED
        BY <1>2, <3>1, <4>2 DEF ToRead
    <3>2. CASE d # c
      BY <1>2, <2>1, <3>2 DEF OrderOK
    <3> QED
      BY <3>1, <3>2
  <2> QED
    BY <1>6, <2>1 DEF OrderOK, Sent
<1>8. OnceOK'
  BY <1>1, <1>6 DEF OnceOK, Once
<1>9. OwnOK'
  <2>1. \A n : Reads(n) => Reads(n)'
    BY <1>2 DEF Reads
  <2>2. NobodyGone' => NobodyGone
    BY <1>2 DEF NobodyGone
  <2>3. ASSUME NobodyGone, NEW d \in Call, reply[d] # Mcp!Nothing
        PROVE  reply[d].id = id'[d]
    <3>1. reply[d].id = id[d]
      BY <2>3 DEF OwnOK
    <3>2. d # c
      <4>1. id[c] = 0 /\ reply[d] \in Lines
        BY <1>2, <2>3 DEF CallsOK, MessagesOK
      <4>2. reply[d].id # 0
        BY <4>1, AnswerIs DEF Lines, Begun, CallsOK
      <4> QED
        BY <3>1, <4>1, <4>2
    <3> QED
      BY <1>2, <3>1, <3>2
  <2>4. Mcp!Nothing' = Mcp!Nothing
    BY DEF Mcp!Nothing
  <2> QED
    BY <1>1, <1>6, <2>1, <2>2, <2>3, <2>4 DEF OwnOK
<1>10. UnreadOK'
  <2>1. Stray' = Stray
    BY <1>1, <1>2 DEF Stray, MessagesOK
  <2>2. In("sent")' = In("sent") /\ In("cancelled")' = In("cancelled")
    BY <1>2 DEF In
  <2>3. Unread' = Unread
    <3>1. \A i \in DOMAIN toServer : toServer[i] \in Messages /\ toServer[i] \in Messages'
      <4>1. toServer \in Seq(Messages)
        BY DEF MessagesOK
      <4> QED
        BY <1>2, <4>1
    <3>2. {i \in DOMAIN toServer : toServer[i] \in Asked} = {i \in DOMAIN toServer : toServer[i] \in Asked'}
      BY <3>1 DEF Asked
    <3> QED
      BY <1>1, <3>2 DEF Unread, Count
  <2> QED
    BY <1>1, <2>1, <2>2, <2>3 DEF UnreadOK
<1> QED
  BY <1>1, <1>2, <1>4, <1>5, <1>7, <1>8, <1>9, <1>10

LEMMA StdioKeeps ==
    ASSUME StdioInv, Mcp!Next
    PROVE  StdioInv'
<1>1. CASE Mcp!Serve
  BY <1>1, ServeKeeps
<1>2. CASE Mcp!ServerEnds
  BY <1>2, ServerEndsKeeps
<1>3. ASSUME NEW c \in Call,
             \/ Mcp!Begin(c) \/ Mcp!Send(c) \/ Mcp!StartReading(c) \/ Mcp!ReadLine(c) \/ Mcp!EndOfFile(c)
             \/ Mcp!Answered(c) \/ Mcp!Post(c) \/ Mcp!Cancel(c)
      PROVE  StdioInv'
  <2>1. ~Mcp!Post(c)
    BY DEF Mcp!Post, StdioInv
  <2> QED
    BY <1>3, <2>1, BeginKeeps, SendKeeps, StartReadingKeeps, ReadLineKeeps, EndOfFileKeeps, AnsweredKeeps, CancelKeeps
<1>4. CASE \E w \in writes : Mcp!Write(w)
  BY <1>4, WriteKeeps
<1> QED
  BY <1>1, <1>2, <1>3, <1>4 DEF Mcp!Next

-----------------------------------------------------------------------------
\* Over HTTP.
LEMMA PostsKeep ==
    ASSUME CallsOK, over = "http", PostsOK, Mcp!Next
    PROVE  CallsOK' /\ over' = "http" /\ PostsOK'
<1> USE DEF PostsOK
<1>1. ASSUME NEW c \in Call
      PROVE  Mcp!Released(c) = <<>>
  <2> DEFINE r == Mcp!Released(c)
  <2>1. Leaves(r, queue, c) /\ DOMAIN queue = {}
    BY ReleasedLeaves
  <2> HIDE DEF r
  <2>2. r \in Seq(Call) /\ \A i \in DOMAIN r : \E k \in DOMAIN queue : TRUE
    BY <2>1 DEF Leaves
  <2>3. \A i : i \notin DOMAIN r
    BY <2>1, <2>2
  <2>4. DOMAIN r = 1 .. Len(r) /\ Len(r) \in Nat
    BY <2>2
  <2>5. Len(r) = 0
    BY <2>3, <2>4
  <2>6. r = <<>>
    BY <2>2, <2>5
  <2> QED
    BY <2>6 DEF r
<1>2. ASSUME NEW c \in Call, Mcp!Begin(c)
      PROVE  CallsOK' /\ over' = "http" /\ PostsOK'
  <2>1. UNCHANGED <<over, queue, writes, readers, toServer, fromServer, reply>>
    BY <1>2 DEF Mcp!Begin
  <2>2. /\ CallsOK' /\ callAt[c] = "idle" /\ callAt'[c] = "posting"
        /\ \A d \in Call : d # c => callAt'[d] = callAt[d]
        /\ \A d \in Begun : Mcp!RequestOf(d)' = Mcp!RequestOf(d)
    BY <1>2, BeginIs
  <2>3. Mcp!Nothing' = Mcp!Nothing
    BY DEF Mcp!Nothing
  <2>4. ASSUME NEW d \in Call
        PROVE  /\ reply[d] = Mcp!Nothing \/ (callAt'[d] # "idle" /\ reply[d] = Mcp!Dispatch(Mcp!RequestOf(d)'))
               /\ callAt'[d] # "sent"
    BY <2>2 DEF Begun
  <2> QED
    BY <2>1, <2>2, <2>3, <2>4
<1>3. ASSUME NEW c \in Call, Mcp!Answered(c) \/ Mcp!Post(c) \/ Mcp!Cancel(c)
      PROVE  CallsOK' /\ over' = "http" /\ PostsOK'
  <2>1. PICK p \in CallPoints \ {"idle", "sent"} :
          /\ callAt[c] # "idle" /\ callAt' = [callAt EXCEPT ![c] = p]
          /\ queue' = <<>> /\ writes' = {}
          /\ UNCHANGED <<over, wants, id, nextId, readers, toServer, fromServer, open>>
          /\ reply' = reply \/ reply' = [reply EXCEPT ![c] = Mcp!Dispatch(Mcp!RequestOf(c))]
    <3>1. CASE Mcp!Answered(c)
      <4>1. {"confirm", "raised", "answered"} \subseteq CallPoints \ {"idle", "sent"}
        BY DEF CallPoints, InQueue, Holding
      <4> QED
        BY <1>1, <3>1, <4>1 DEF Mcp!Answered, Mcp!Goto
    <3>2. CASE Mcp!Post(c)
      <4>1. {"read", "failed", "answered"} \subseteq CallPoints \ {"idle", "sent"}
        BY DEF CallPoints, InQueue, Holding
      <4>2. callAt[c] = "posting" => Mcp!Message(c) = Mcp!RequestOf(c)
        BY DEF Mcp!Message, Mcp!Confirms
      <4> QED
        BY <3>2, <4>1, <4>2 DEF Mcp!Post, Mcp!Goto
    <3>3. CASE Mcp!Cancel(c)
      <4>1. "cancelled" \in CallPoints \ {"idle", "sent"}
        BY DEF CallPoints, InQueue, Holding
      <4>2. callAt[c] # "idle"
        BY <3>3 DEF Mcp!Cancel, Mcp!InCall
      <4> QED
        BY <1>1, <3>3, <4>1, <4>2 DEF Mcp!Cancel, Mcp!Goto
    <3> QED
      BY <1>3, <3>1, <3>2, <3>3
  <2>2. /\ DOMAIN reply' = Call /\ p \in CallPoints \ {"idle"} /\ callAt[c] # "idle"
        /\ callAt' = [callAt EXCEPT ![c] = p] /\ UNCHANGED <<over, id, nextId, wants>>
    BY <2>1 DEF CallsOK
  <2>3. /\ CallsOK' /\ \A d : Mcp!RequestOf(d)' = Mcp!RequestOf(d)
        /\ callAt'[c] = p /\ \A d \in Call : d # c => callAt'[d] = callAt[d]
    BY <2>2, Walk
  <2>4. ASSUME NEW d \in Call
        PROVE  /\ reply'[d] = Mcp!Nothing \/ (callAt'[d] # "idle" /\ reply'[d] = Mcp!Dispatch(Mcp!RequestOf(d)'))
               /\ callAt'[d] # "sent"
    <3>1. reply'[d] = reply[d] \/ (d = c /\ reply'[d] = Mcp!Dispatch(Mcp!RequestOf(d)))
      BY <2>1 DEF CallsOK
    <3> QED
      BY <2>1, <2>3, <3>1
  <2>5. Mcp!Nothing' = Mcp!Nothing
    BY DEF Mcp!Nothing
  <2> QED
    BY <2>1, <2>3, <2>4, <2>5
<1>4. /\ ~Mcp!Serve /\ ~Mcp!ServerEnds
      /\ \A c \in Call : ~Mcp!Send(c) /\ ~Mcp!StartReading(c) /\ ~Mcp!ReadLine(c) /\ ~Mcp!EndOfFile(c)
  BY DEF Mcp!Serve, Mcp!ServerEnds, Mcp!Send, Mcp!StartReading, Mcp!ReadLine, Mcp!EndOfFile
<1> QED
  BY <1>2, <1>3, <1>4 DEF Mcp!Next

LEMMA McpKeeps ==
    ASSUME McpInv, Mcp!Next \/ UNCHANGED Mcp!vars
    PROVE  McpInv'
<1>1. over \in {"stdio", "http"}
  BY DEF McpInv, CallsOK
<1>2. CASE Mcp!Next /\ over = "stdio"
  <2>1. StdioInv'
    BY <1>2, StdioKeeps DEF McpInv, StdioInv
  <2> QED
    BY <2>1 DEF McpInv, StdioInv
<1>3. CASE Mcp!Next /\ over = "http"
  <2>1. CallsOK' /\ over' = "http" /\ PostsOK'
    BY <1>3, PostsKeep DEF McpInv
  <2> QED
    BY <2>1 DEF McpInv
<1>4. CASE UNCHANGED Mcp!vars
  <2>1. UNCHANGED <<over, wants, callAt, id, nextId, queue, writes, readers, toServer, fromServer, open, reply>>
    BY <1>4 DEF Mcp!vars
  <2>2. Begun' = Begun /\ \A d : Mcp!RequestOf(d)' = Mcp!RequestOf(d)
    BY <2>1 DEF Begun, Mcp!RequestOf
  <2>3. /\ Messages' = Messages /\ Lines' = Lines /\ Asked' = Asked
        /\ Mcp!Initialized' = Mcp!Initialized /\ Mcp!Nothing' = Mcp!Nothing
    BY <2>2 DEF Messages, Lines, Asked, Mcp!Initialized, Mcp!Nothing
  <2>4. CallsOK' = CallsOK /\ PostsOK' = PostsOK
    BY <2>1, <2>2, <2>3 DEF CallsOK, PostsOK
  <2>5. QueueIs(queue, callAt, id)' = QueueIs(queue, callAt, id) /\ MessagesOK' = MessagesOK
    BY <2>1, <2>2, <2>3 DEF QueueIs, MessagesOK
  <2>6. \A n : /\ ToWrite(n)' = ToWrite(n) /\ Given(n)' = Given(n) /\ Reads(n)' = Reads(n)
               /\ HasId(toServer, n)' = HasId(toServer, n) /\ HasId(fromServer, n)' = HasId(fromServer, n)
    BY <2>1 DEF ToWrite, Given, HasId, Reads
  <2>7. OrderOK' = OrderOK /\ OnceOK' = OnceOK
    BY <2>1, <2>6 DEF OrderOK, Sent, OnceOK, Once
  <2>8. OwnOK' = OwnOK /\ NobodyGone' = NobodyGone
    BY <2>1, <2>3, <2>6 DEF OwnOK, NobodyGone
  <2>9. UnreadOK' = UnreadOK
    BY <2>1, <2>3 DEF UnreadOK, Unread, Count, Stray, In
  <2> QED
    BY <2>1, <2>4, <2>5, <2>7, <2>8, <2>9 DEF McpInv
<1> QED
  BY <1>1, <1>2, <1>3, <1>4

LEMMA McpInit ==
    ASSUME NEW transports \in SUBSET {"stdio", "http"}, NEW plans, Mcp!InitIn(transports, plans)
    PROVE  McpInv
<1>1. /\ over \in {"stdio", "http"} /\ callAt = [c \in Call |-> "idle"] /\ id = [c \in Call |-> 0] /\ nextId = 0
      /\ queue = <<>> /\ writes = {} /\ readers = {} /\ toServer = <<>> /\ fromServer = <<>>
      /\ reply = [c \in Call |-> Mcp!Nothing]
  BY DEF Mcp!InitIn
<1>2. Begun = {} /\ In("sent") = {} /\ In("cancelled") = {} /\ Stray = {}
  BY <1>1 DEF Begun, In, Stray
<1>3. CallsOK
  <2>1. callAt \in [Call -> CallPoints] /\ id \in [Call -> Nat]
    BY <1>1 DEF CallPoints
  <2> QED
    BY <1>1, <1>2, <2>1, FS_EmptySet DEF CallsOK
<1>4. PostsOK
  BY <1>1 DEF PostsOK
<1>5. QueueIs(queue, callAt, id)
  BY <1>1 DEF QueueIs, InQueue, Holding
<1>6. MessagesOK
  BY <1>1, FS_EmptySet DEF MessagesOK
<1>7. \A n \in Nat \ {0} : ~Sent(n)
  BY <1>1, AnswerIs DEF Sent, ToWrite, HasId, Given
<1>8. OrderOK /\ OnceOK /\ OwnOK
  <2>1. OrderOK
    BY <1>7 DEF OrderOK
  <2>2. Once(toServer) /\ Once(fromServer)
    BY <1>1 DEF Once
  <2>3. OnceOK
    BY <1>1, <1>7, <2>2, AnswerIs DEF OnceOK, Sent
  <2>4. OwnOK
    BY <1>1, <1>7 DEF OwnOK, Sent
  <2> QED
    BY <2>1, <2>3, <2>4
<1>9. UnreadOK
  <2>1. Unread = 0
    <3>1. {i \in DOMAIN toServer : toServer[i] \in Asked} = {} /\ Len(fromServer) = 0
      BY <1>1
    <3> QED
      BY <3>1, FS_EmptySet DEF Unread, Count
  <2>2. Cardinality(Stray) = 0 /\ Cardinality(readers) = 0 /\ Cardinality(In("sent")) = 0 /\ Cardinality(In("cancelled")) = 0
    BY <1>1, <1>2, FS_EmptySet
  <2> QED
    BY <2>1, <2>2 DEF UnreadOK
<1> QED
  BY <1>3, <1>4, <1>5, <1>6, <1>8, <1>9 DEF McpInv

LEMMA AnswersAreTheirs ==
    ASSUME McpInv
    PROVE  Mcp!AnswersAreOwn
<1>1. CallsOK /\ over \in {"stdio", "http"}
  BY DEF McpInv, CallsOK
<1>2. \A S : Mcp!Cardinality(S) = Cardinality(S)
  BY DEF Mcp!Cardinality, Mcp!IsFiniteSet, Cardinality, IsFiniteSet
<1>3. Mcp!Cancelled = In("cancelled") /\ {c \in Call : callAt[c] = "sent"} = In("sent")
  BY DEF Mcp!Cancelled, In
<1>4. CASE over = "http"
  <2>1. ASSUME NEW c \in Call, reply[c] # Mcp!Nothing
        PROVE  reply[c] = Mcp!Dispatch(Mcp!RequestOf(c)) /\ reply[c].id = id[c] /\ id[c] # 0
    BY <1>4, <2>1, AnswerIs DEF McpInv, PostsOK, CallsOK
  <2>2. \A c, d \in Call : id[c] = id[d] /\ id[c] # 0 => c = d
    BY DEF McpInv, CallsOK
  <2>3. readers = {} /\ Mcp!Unread = 0
    <3>1. readers = {} /\ toServer = <<>> /\ fromServer = <<>>
      BY <1>4 DEF McpInv, PostsOK
    <3>2. Mcp!Requests(toServer) = {}
      BY <3>1 DEF Mcp!Requests
    <3> QED
      BY <1>2, <3>1, <3>2, FS_EmptySet DEF Mcp!Unread
  <2>4. Cardinality({}) = 0 /\ Cardinality(In("sent")) \in Nat /\ Cardinality(In("cancelled")) \in Nat
    <3>1. In("sent") \subseteq Begun /\ In("cancelled") \subseteq Begun /\ IsFiniteSet(Begun)
      BY <1>1 DEF In, Begun, CallsOK
    <3> QED
      BY <3>1, FS_Subset, FS_EmptySet, FS_CardinalityType
  <2>5. \A c \in Call : id[c] \in Nat
    BY <1>1 DEF CallsOK
  <2>6. ASSUME NEW c \in Call, reply[c] # Mcp!Nothing
        PROVE  /\ reply[c].id <= id[c] /\ reply[c].id = id[c] /\ reply[c] = Mcp!Dispatch(Mcp!RequestOf(c))
               /\ \A d \in Call \ {c} : reply[d] # Mcp!Nothing => reply[d].id # reply[c].id
    BY <2>1, <2>2, <2>5, <2>6
  <2>7. /\ Mcp!Unread <= Cardinality(readers) + Cardinality(In("sent")) + Cardinality(In("cancelled"))
        /\ Cardinality(readers) <= Mcp!Unread
    BY <2>3, <2>4
  <2> QED
    BY <1>2, <1>3, <2>6, <2>7 DEF Mcp!AnswersAreOwn
<1>5. CASE over = "stdio"
  <2>1. MessagesOK /\ OnceOK /\ OwnOK /\ UnreadOK
    BY <1>5 DEF McpInv
  <2>2. ASSUME NEW c \in Call, reply[c] # Mcp!Nothing
        PROVE  /\ reply[c].id <= id[c] /\ reply[c].id # 0
               /\ Mcp!Cancelled = {} => reply[c].id = id[c]
               /\ reply[c].id = id[c] => reply[c] = Mcp!Dispatch(Mcp!RequestOf(c))
    <3>1. reply[c] \in Lines /\ reply[c].id <= id[c]
      BY <2>1, <2>2 DEF MessagesOK
    <3>2. PICK d \in Begun : reply[c] = Mcp!Dispatch(Mcp!RequestOf(d)) /\ reply[c].id = id[d]
      BY <3>1, AnswerIs DEF Lines
    <3>3. id[d] # 0 /\ d \in Call
      BY <1>1, <3>2 DEF Begun, CallsOK
    <3>4. Mcp!Cancelled = {} => NobodyGone
      BY <1>3 DEF NobodyGone, In
    <3>5. reply[c].id = id[c] => d = c
      BY <1>1, <3>2, <3>3 DEF CallsOK
    <3> QED
      BY <2>1, <2>2, <3>1, <3>2, <3>3, <3>4, <3>5 DEF OwnOK
  <2>3. \A c, d \in Call : reply[c].id = reply[d].id /\ reply[c].id # 0 => c = d
    BY <2>1 DEF OnceOK
  <2>4. Mcp!Unread = Unread
    <3>1. \A i \in DOMAIN toServer : toServer[i] \in Messages
      BY <2>1 DEF MessagesOK
    <3>2. Mcp!Requests(toServer) = {i \in DOMAIN toServer : toServer[i] \in Asked}
      BY <3>1 DEF Mcp!Requests, Mcp!IsNotification, Asked
    <3> QED
      BY <1>2, <3>2 DEF Mcp!Unread, Unread, Count
  <2>5. open => /\ Unread <= Cardinality(readers) + Cardinality(In("sent")) + Cardinality(In("cancelled"))
                /\ Cardinality(readers) <= Unread
    BY <1>1, <2>1, CountsAreNat DEF UnreadOK
  <2> QED
    BY <1>2, <1>3, <2>2, <2>3, <2>4, <2>5 DEF Mcp!AnswersAreOwn
<1> QED
  BY <1>1, <1>4, <1>5

\* StdioTransport.request and HTTPTransport.request: whose answer a caller is
\* given, and that one is on its way for each that reads.
THEOREM OwnAnswersHold == MCSpec => []AnswersAreOwn
<1>1. MCInit => McpInv
  <2>1. Of("mcp", {"stdio", "http"}) \subseteq {"stdio", "http"}
    BY OfIsIn
  <2> QED
    BY <2>1, McpInit DEF MCInit
<1>2. McpInv /\ [MCNext]_allVars => McpInv'
  <2>1. [MCNext]_allVars => Mcp!Next \/ UNCHANGED Mcp!vars
    BY DEF MCNext, AccountsStep, McpStep, DocumentsStep, ServerStep, PageStep, ModelsStep, SelectionStep,
           DatasetsStep, FeedbackStep, allVars, mcpVars, Mcp!vars
  <2> QED
    BY <2>1, McpKeeps
<1>3. McpInv => AnswersAreOwn
  BY AnswersAreTheirs DEF AnswersAreOwn
<1> QED
  BY <1>1, <1>2, <1>3, PTL DEF MCSpec


-----------------------------------------------------------------------------
(* The chunks of a document (Documents).                                     *)

\* A set of numbers in a range has its largest and its least.
LEMMA LargestIs ==
    ASSUME NEW a \in Int, NEW b \in Int, NEW S \in SUBSET (a .. b), S # {}
    PROVE  Doc!Largest(S) \in S /\ \A y \in S : y <= Doc!Largest(S)
<1>1. IsFiniteSet(S)
  BY FS_Interval, FS_Subset
<1> DEFINE g == [s \in S |-> 0 - s]
<1>2. g \in [S -> Int]
  OBVIOUS
<1>3. PICK s \in S : \A t \in S : g[s] <= g[t]
  <2> HIDE DEF g
  <2> QED
    BY <1>1, <1>2, SomeLeast
<1>4. \A t \in S : t <= s
  BY <1>3
<1> QED
  BY <1>4 DEF Doc!Largest

LEMMA LeastIs ==
    ASSUME NEW a \in Int, NEW b \in Int, NEW S \in SUBSET (a .. b), S # {}
    PROVE  Doc!Least(S) \in S /\ \A y \in S : Doc!Least(S) <= y
<1>1. IsFiniteSet(S)
  BY FS_Interval, FS_Subset
<1> DEFINE g == [s \in S |-> s]
<1>2. g \in [S -> Int]
  OBVIOUS
<1>3. PICK s \in S : \A t \in S : g[s] <= g[t]
  <2> HIDE DEF g
  <2> QED
    BY <1>1, <1>2, SomeLeast
<1>4. \A t \in S : s <= t
  BY <1>3
<1> QED
  BY <1>4 DEF Doc!Least

\* The end of the window that starts at a character, and what chunk_text has
\* from there, when it has rest(k) from any later k.
EndOf(text, start, size) ==
    Doc!CutAtBlank(text, start, Doc!Least({start + size, Len(text)}), size)
WindowAt(text, start, size) ==
    IF Doc!AllBlank(text, start, EndOf(text, start, size)) THEN {}
    ELSE {[from |-> start, to |-> EndOf(text, start, size)]}
ChunksFrom(text, size, lap, rest, start) ==
    CASE start >= Len(text) -> {}
      [] start < Len(text) /\ EndOf(text, start, size) >= Len(text) -> WindowAt(text, start, size)
      [] OTHER -> WindowAt(text, start, size)
                    \cup rest[Doc!NextStart(start, EndOf(text, start, size), lap)]

LEMMA ChunksIs ==
    ASSUME NEW text, NEW size, NEW lap
    PROVE  Doc!Chunks(text, size, lap)
             = (CHOOSE F : F = [start \in 0 .. Len(text) |-> ChunksFrom(text, size, lap, F, start)])[0]
BY DEF Doc!Chunks, ChunksFrom, WindowAt, EndOf

\* A window is not empty and, unless it ends the text, is lap half full.
LEMMA EndIs ==
    ASSUME NEW text, Len(text) \in Nat, NEW start \in 0 .. Len(text) - 1, NEW size \in Nat \ {0}
    PROVE  /\ EndOf(text, start, size) \in start + 1 .. Len(text)
           /\ EndOf(text, start, size) < Len(text) => EndOf(text, start, size) >= start + size \div 2 + 1
<1> DEFINE to == Doc!Least({start + size, Len(text)})
           blanks == {i \in 0 .. to - start - 1 : text[start + i + 1] = Doc!Blank}
<1>1. to \in start + 1 .. Len(text) /\ (to < Len(text) => to = start + size)
  <2>1. to \in {start + size, Len(text)} /\ \A y \in {start + size, Len(text)} : to <= y
    <3>1. start + size <= Len(text) \/ Len(text) <= start + size
      OBVIOUS
    <3>2. \E x \in {start + size, Len(text)} : \A y \in {start + size, Len(text)} : x <= y
      BY <3>1
    <3> QED
      BY <3>2 DEF Doc!Least
  <2> HIDE DEF to
  <2> QED
    BY <2>1
<1>2. EndOf(text, start, size)
        = IF to < Len(text) /\ blanks # {} /\ Doc!Largest(blanks) > size \div 2
          THEN start + Doc!Largest(blanks) ELSE to
  BY DEF EndOf, Doc!CutAtBlank
<1>3. ASSUME blanks # {} PROVE Doc!Largest(blanks) \in 0 .. to - start - 1
  <2> DEFINE last == to - start - 1
  <2>1. blanks \in SUBSET (0 .. last)
    OBVIOUS
  <2>2. last \in Int /\ 0 \in Int
    BY <1>1
  <2>3. Doc!Largest(blanks) \in blanks
    <3> HIDE DEF blanks, last
    <3> QED
      BY <1>3, <2>1, <2>2, LargestIs
  <2> QED
    BY <2>1, <2>3
<1>4. size \div 2 \in 0 .. size - 1
  OBVIOUS
<1> HIDE DEF blanks, to
<1> QED
  BY <1>1, <1>2, <1>3, <1>4

LEMMA NextStartIs ==
    ASSUME NEW from \in Nat, NEW to \in Int, NEW lap \in Nat
    PROVE  /\ Doc!NextStart(from, to, lap) \in {to - lap, from + 1}
           /\ Doc!NextStart(from, to, lap) >= from + 1
<1>1. \E x \in {to - lap, from + 1} : \A y \in {to - lap, from + 1} : y <= x
  <2>1. to - lap <= from + 1 \/ from + 1 <= to - lap
    OBVIOUS
  <2> QED
    BY <2>1
<1>2. LET m == Doc!NextStart(from, to, lap) IN m \in {to - lap, from + 1} /\ \A y \in {to - lap, from + 1} : y <= m
  BY <1>1 DEF Doc!NextStart, Doc!Largest
<1> QED
  BY <1>2

\* The windows after a start do not need those before it.
Slides(text, size, lap, k, F) == F = [start \in k .. Len(text) |-> ChunksFrom(text, size, lap, F, start)]

LEMMA OneMoreSlides ==
    ASSUME NEW text, Len(text) \in Nat, NEW size \in Nat \ {0}, NEW lap \in Nat,
           NEW k \in 0 .. Len(text) - 1, NEW F, Slides(text, size, lap, k + 1, F)
    PROVE  \E G : Slides(text, size, lap, k, G)
<1> DEFINE n == Len(text)
           G == [start \in k .. n |-> IF start = k THEN ChunksFrom(text, size, lap, F, k) ELSE F[start]]
<1>1. ASSUME NEW start \in k .. n
      PROVE  ChunksFrom(text, size, lap, G, start) = ChunksFrom(text, size, lap, F, start)
  <2>1. CASE start < n /\ EndOf(text, start, size) < n
    <3>1. EndOf(text, start, size) \in start + 1 .. n
      BY <2>1, EndIs
    <3>2. Doc!NextStart(start, EndOf(text, start, size), lap) \in k + 1 .. n
      <4>1. start \in Nat /\ start >= k
        OBVIOUS
      <4>3. EndOf(text, start, size) \in Int
        BY <3>1, <4>1
      <4>2. Doc!NextStart(start, EndOf(text, start, size), lap) \in {EndOf(text, start, size) - lap, start + 1}
            /\ Doc!NextStart(start, EndOf(text, start, size), lap) >= start + 1
        BY <4>3, <4>1, NextStartIs
      <4> QED
        BY <2>1, <3>1, <4>1, <4>2
    <3>3. G[Doc!NextStart(start, EndOf(text, start, size), lap)] = F[Doc!NextStart(start, EndOf(text, start, size), lap)]
      BY <3>2
    <3> HIDE DEF G
    <3> QED
      BY <3>3 DEF ChunksFrom
  <2>2. CASE start >= n
    BY <2>2 DEF ChunksFrom
  <2>3. CASE start < n /\ EndOf(text, start, size) >= n
    BY <2>3 DEF ChunksFrom
  <2> QED
    <3>1. start < n => EndOf(text, start, size) \in start + 1 .. n
      BY EndIs
    <3> QED
      BY <2>1, <2>2, <2>3, <3>1
<1>2. \A start \in k + 1 .. n : F[start] = ChunksFrom(text, size, lap, F, start)
  <2>1. F = [start \in k + 1 .. n |-> ChunksFrom(text, size, lap, F, start)]
    BY DEF Slides
  <2> QED
    BY ONLY <2>1
<1>3. \A start \in k .. n : G[start] = ChunksFrom(text, size, lap, F, start)
  BY <1>2
<1>4. G = [start \in k .. n |-> ChunksFrom(text, size, lap, G, start)]
  <2>1. G = [start \in k .. n |-> G[start]]
    OBVIOUS
  <2>2. \A start \in k .. n : G[start] = ChunksFrom(text, size, lap, G, start)
    <3> HIDE DEF G
    <3> QED
      BY <1>1, <1>3
  <2> HIDE DEF G
  <2> QED
    BY ONLY <2>1, <2>2
<1> QED
  BY <1>4 DEF Slides

LEMMA ChunksSlide ==
    ASSUME NEW text, Len(text) \in Nat, NEW size \in Nat \ {0}, NEW lap \in Nat
    PROVE  \E F : Slides(text, size, lap, 0, F) /\ Doc!Chunks(text, size, lap) = F[0]
<1> DEFINE n == Len(text)
           Bad == {k \in 0 .. n : \A F : ~Slides(text, size, lap, k, F)}
<1>1. Bad = {}
  <2>1. SUFFICES ASSUME Bad # {} PROVE FALSE
    OBVIOUS
  <2>2. Doc!Largest(Bad) \in Bad /\ \A y \in Bad : y <= Doc!Largest(Bad)
    <3>1. Bad \in SUBSET (0 .. n)
      OBVIOUS
    <3>2. n \in Int /\ 0 \in Int
      OBVIOUS
    <3> HIDE DEF Bad, n
    <3> QED
      BY <2>1, <3>1, <3>2, LargestIs
  <2> DEFINE k == Doc!Largest(Bad)
  <2>3. k \in 0 .. n /\ \A F : ~Slides(text, size, lap, k, F)
    BY <2>2
  <2> HIDE DEF k
  <2>4. CASE k = n
    <3> DEFINE F == [start \in n .. n |-> {}]
    <3>1. \A start \in n .. n : ChunksFrom(text, size, lap, F, start) = {}
      BY DEF ChunksFrom
    <3>2. F = [start \in n .. n |-> ChunksFrom(text, size, lap, F, start)]
      <4> HIDE DEF n
      <4> QED
        BY <3>1
    <3>3. Slides(text, size, lap, n, F)
      <4> HIDE DEF F
      <4> QED
        BY <3>2 DEF Slides
    <3> QED
      BY <2>3, <2>4, <3>3
  <2>5. CASE k < n
    <3>1. k + 1 \in 0 .. n /\ ~(k + 1 <= k)
      BY <2>3, <2>5
    <3>2. k + 1 \notin Bad
      BY <2>2, <3>1 DEF k
    <3>3. PICK F : Slides(text, size, lap, k + 1, F)
      BY <3>1, <3>2
    <3>4. k \in 0 .. Len(text) - 1
      BY <2>3, <2>5
    <3> QED
      BY <2>3, <3>3, <3>4, OneMoreSlides
  <2> QED
    BY <2>3, <2>4, <2>5
<1>2. PICK F : Slides(text, size, lap, 0, F)
  BY <1>1
<1> DEFINE C == CHOOSE H : H = [start \in 0 .. Len(text) |-> ChunksFrom(text, size, lap, H, start)]
<1>3. C = [start \in 0 .. Len(text) |-> ChunksFrom(text, size, lap, C, start)]
  BY <1>2 DEF Slides
<1>4. Doc!Chunks(text, size, lap) = C[0]
  BY ChunksIs
<1> HIDE DEF C
<1> QED
  BY <1>3, <1>4 DEF Slides

\* chunk_text, for any text, size and overlap: a passage that is no more than a
\* character longer than the overlap, or than half a chunk, is whole in a chunk.
\* A window that ends inside of it is followed by one that starts no later.
THEOREM ChunkHolds ==
    ASSUME NEW text, Len(text) \in Nat, NEW size \in Nat \ {0}, NEW lap \in Nat,
           NEW a \in 0 .. Len(text) - 1, NEW b \in 1 .. Len(text), a < b,
           b - a <= lap + 1, b - a <= size \div 2 + 1, text[a + 1] # Doc!Blank
    PROVE  \E c \in Doc!Chunks(text, size, lap) : c.from <= a /\ b <= c.to
<1>1. PICK F : Slides(text, size, lap, 0, F) /\ Doc!Chunks(text, size, lap) = F[0]
  BY ChunksSlide
<1>2. ASSUME NEW start \in 0 .. Len(text)
      PROVE  F[start] = ChunksFrom(text, size, lap, F, start)
  <2>1. F = [s \in 0 .. Len(text) |-> ChunksFrom(text, size, lap, F, s)]
    BY <1>1 DEF Slides
  <2> QED
    BY ONLY <1>2, <2>1
<1> DEFINE InOne(s) == \E c \in F[s] : c.from <= a /\ b <= c.to
           Bad == {s \in 0 .. a : ~InOne(s)}
<1>3. ASSUME NEW start \in 0 .. a, \A s \in start + 1 .. a : InOne(s)
      PROVE  InOne(start)
  <2> DEFINE to == EndOf(text, start, size)
             next == Doc!NextStart(start, to, lap)
  <2>1. start \in Nat /\ start \in 0 .. Len(text) /\ start \in 0 .. Len(text) - 1 /\ start < Len(text)
    OBVIOUS
  <2>2. to \in start + 1 .. Len(text) /\ (to < Len(text) => to >= start + size \div 2 + 1)
    BY <2>1, EndIs
  <2>3. to \in Int /\ next \in {to - lap, start + 1} /\ next >= start + 1
    <3>1. to \in Int
      BY <2>1, <2>2
    <3> HIDE DEF to
    <3> QED
      BY <2>1, <3>1, NextStartIs
  <2>4. a + 1 \in start + 1 .. to => WindowAt(text, start, size) = {[from |-> start, to |-> to]}
    BY DEF WindowAt, Doc!AllBlank
  <2>5. F[start] = ChunksFrom(text, size, lap, F, start)
    BY <1>2, <2>1
  <2>6. WindowAt(text, start, size) \subseteq F[start] /\ (to < Len(text) => F[next] \subseteq F[start])
    <3>1. CASE to >= Len(text)
      <4>1. ~(to < Len(text))
        BY <2>1, <2>2, <3>1
      <4>2. F[start] = WindowAt(text, start, size)
        BY <2>1, <2>5, <3>1 DEF ChunksFrom
      <4> QED
        BY <4>1, <4>2
    <3>2. CASE ~(to >= Len(text))
      <4>1. ~(start >= Len(text))
        BY <2>1
      <4>2. F[start] = WindowAt(text, start, size) \cup F[next]
        BY <4>1, <2>5, <3>2 DEF ChunksFrom
      <4> QED
        BY <4>2
    <3> QED
      BY <3>1, <3>2
  <2>7. size \div 2 \in Nat
    OBVIOUS
  <2>8. CASE b <= to
    <3>1. a + 1 \in start + 1 .. to
      BY <2>1, <2>2, <2>8
    <3>2. [from |-> start, to |-> to] \in F[start]
      BY <2>4, <2>6, <3>1
    <3> QED
      BY <2>1, <2>8, <3>2
  <2>9. CASE ~(b <= to)
    <3> HIDE DEF to, next
    <3>1. to < Len(text) /\ to < b
      BY <2>1, <2>2, <2>9
    <3>2. next \in start + 1 .. a
      BY <2>1, <2>2, <2>3, <2>7, <3>1
    <3> QED
      BY <1>3, <2>6, <3>1, <3>2
  <2> QED
    BY <2>8, <2>9
<1>4. Bad = {}
  <2>1. SUFFICES ASSUME Bad # {} PROVE FALSE
    OBVIOUS
  <2>2. Bad \in SUBSET (0 .. a) /\ 0 \in Int /\ a \in Int
    OBVIOUS
  <2>3. Doc!Largest(Bad) \in Bad /\ \A y \in Bad : y <= Doc!Largest(Bad)
    <3> HIDE DEF Bad
    <3> QED
      BY <2>1, <2>2, LargestIs
  <2> DEFINE k == Doc!Largest(Bad)
  <2>4. k \in 0 .. a /\ ~InOne(k)
    BY <2>3
  <2>5. \A s \in k + 1 .. a : InOne(s)
    <3>1. \A s \in k + 1 .. a : s \in 0 .. a /\ ~(s <= k)
      BY <2>4
    <3> QED
      BY <2>3, <3>1
  <2> HIDE DEF k, InOne
  <2> QED
    BY <1>3, <2>4, <2>5
<1>5. InOne(0)
  <2>1. 0 \in 0 .. a
    OBVIOUS
  <2> HIDE DEF InOne
  <2> QED
    BY <1>4, <2>1
<1> QED
  BY <1>1, <1>5

\* Nothing is cut from a text of no length.
LEMMA NoChunks ==
    ASSUME NEW text, Len(text) = 0, NEW size \in Nat \ {0}, NEW lap \in Nat
    PROVE  Doc!Chunks(text, size, lap) = {}
<1>1. PICK F : Slides(text, size, lap, 0, F) /\ Doc!Chunks(text, size, lap) = F[0]
  BY ChunksSlide
<1>2. F = [s \in 0 .. Len(text) |-> ChunksFrom(text, size, lap, F, s)]
  BY <1>1 DEF Slides
<1>3. F[0] = ChunksFrom(text, size, lap, F, 0)
  BY ONLY <1>2, Len(text) = 0
<1>4. 0 >= Len(text)
  OBVIOUS
<1> QED
  BY <1>1, <1>3, <1>4 DEF ChunksFrom

\* A sequence of characters of any kind.
IsText(text) == text \in Seq({text[i] : i \in DOMAIN text})

LEMMA TextIs ==
    ASSUME NEW characters, NEW text \in Seq(characters)
    PROVE  IsText(text)
<1>1. text \in [1 .. Len(text) -> characters] /\ Len(text) \in Nat
  BY LenProperties
<1> DEFINE S == {text[i] : i \in DOMAIN text}
<1>2. text \in [1 .. Len(text) -> S]
  BY <1>1
<1>3. text \in Seq(S)
  <2> HIDE DEF S
  <2> QED
    BY <1>1, <1>2
<1> QED
  BY <1>3 DEF IsText

\* A plan's text is of characters, and its sizes are numbers; the source of an
\* upload is another's only when both of them are blank.
PlansAreUploads ==
    /\ \A j \in DocJob : Doc!Uploads(j) =>
         /\ IsText(plan[j].text)
         /\ plan[j].tokens \in Int /\ plan[j].overlap \in Int
    /\ \A i, j \in DocJob : Doc!Uploads(j) /\ Doc!Same(i, j) /\ i # j =>
         Doc!Uploads(i) /\ plan[i].text = <<>>

\* The sizes are clamped, and what is left of a text has a length.
LEMMA SizesAre ==
    ASSUME NEW p, IsText(p.text), p.tokens \in Int, p.overlap \in Int
    PROVE  /\ Doc!SizeOf(p) \in Nat \ {0} /\ Doc!OverOf(p) \in Nat
           /\ Len(Doc!Strip(p.text)) \in Nat
           /\ p.text = <<>> => Doc!ChunksOf(p) = {}
<1>1. \A x, y \in Int : /\ Doc!Largest({x, y}) \in {x, y} /\ x <= Doc!Largest({x, y})
                        /\ Doc!Least({x, y}) \in {x, y}
  <2> TAKE x, y \in Int
  <2>1. x <= y \/ y <= x
    OBVIOUS
  <2>2. /\ \E z \in {x, y} : \A w \in {x, y} : w <= z
        /\ \E z \in {x, y} : \A w \in {x, y} : z <= w
    BY <2>1
  <2>3. /\ Doc!Largest({x, y}) \in {x, y} /\ \A w \in {x, y} : w <= Doc!Largest({x, y})
        /\ Doc!Least({x, y}) \in {x, y} /\ \A w \in {x, y} : Doc!Least({x, y}) <= w
    BY <2>2 DEF Doc!Largest, Doc!Least
  <2> QED
    BY <2>3
<1>2. p.tokens * CharsPerToken \in Int /\ p.overlap * CharsPerToken \in Int
  BY CharsAssumption
<1>3. Doc!SizeOf(p) \in Int /\ 1 <= Doc!SizeOf(p)
  <2> DEFINE t == p.tokens * CharsPerToken
  <2>1. t \in Int /\ Doc!SizeOf(p) = Doc!Largest({1, t})
    BY <1>2 DEF Doc!SizeOf
  <2> HIDE DEF t
  <2> QED
    BY <1>1, <2>1
<1>4. Doc!OverOf(p) \in Nat
  <2> DEFINE t == p.overlap * CharsPerToken
             u == Doc!Largest({0, t})
             v == Doc!SizeOf(p) - 1
  <2>1. t \in Int /\ v \in Nat /\ Doc!OverOf(p) = Doc!Least({u, v})
    BY <1>2, <1>3 DEF Doc!OverOf
  <2>2. u \in Nat
    <3> HIDE DEF t
    <3>1. Doc!Largest({0, t}) \in {0, t} /\ 0 <= Doc!Largest({0, t})
      BY <1>1, <2>1
    <3> QED
      BY <2>1, <3>1
  <2> HIDE DEF t, u, v
  <2>3. Doc!Least({u, v}) \in {u, v}
    <3>1. u \in Int /\ v \in Int
      BY <2>1, <2>2
    <3> QED
      BY ONLY <1>1, <3>1
  <2> QED
    BY <2>1, <2>2, <2>3
<1>5. Len(Doc!Strip(p.text)) \in Nat
  <2> DEFINE S == {p.text[i] : i \in DOMAIN p.text}
  <2>0. p.text \in Seq(S)
    BY DEF IsText
  <2> HIDE DEF S
  <2> DEFINE inked == {i \in 1 .. Len(p.text) : p.text[i] # Doc!Blank}
  <2>1. CASE inked = {}
    BY <2>1 DEF Doc!Strip
  <2>2. CASE inked # {}
    <3>1. Len(p.text) \in Nat
      BY <2>0, LenProperties
    <3>2. Doc!Least(inked) \in inked /\ Doc!Largest(inked) \in inked
      <4>1. inked \in SUBSET (1 .. Len(p.text)) /\ Len(p.text) \in Int /\ 1 \in Int
        BY <3>1
      <4> DEFINE n == Len(p.text)
      <4> HIDE DEF inked, n
      <4> QED
        BY <2>2, <4>1, LargestIs, LeastIs DEF n
    <3>3. Doc!Strip(p.text) = SubSeq(p.text, Doc!Least(inked), Doc!Largest(inked))
      BY <2>2 DEF Doc!Strip
    <3>4. Doc!Strip(p.text) \in Seq(S)
      <4>1. Doc!Least(inked) \in 1 .. Len(p.text) /\ Doc!Largest(inked) \in 1 .. Len(p.text)
        BY <3>2
      <4> HIDE DEF inked
      <4> QED
        BY <2>0, <3>3, <4>1
    <3> QED
      BY <3>4, LenProperties
  <2> QED
    BY <2>1, <2>2
<1>6. ASSUME p.text = <<>> PROVE Doc!ChunksOf(p) = {}
  <2>1. Doc!Strip(p.text) = <<>>
    BY <1>6 DEF Doc!Strip
  <2>2. Len(Doc!Strip(p.text)) = 0
    BY <2>1
  <2>3. Doc!SizeOf(p) \in Nat \ {0}
    BY <1>3
  <2> QED
    BY <1>4, <2>2, <2>3, NoChunks DEF Doc!ChunksOf
<1> QED
  BY <1>3, <1>4, <1>5, <1>6

LEMMA PlansUpload ==
    ASSUME plan \in Plans
    PROVE  PlansAreUploads
<1>1. (\A text \in Texts : IsText(text)) /\ IsText(Long(5)) /\ IsText(<<>>)
  <2>1. ASSUME NEW n \in Nat, NEW text \in [1 .. n -> {"x", Doc!Blank}]
        PROVE  IsText(text)
    <3>1. text \in Seq({"x", Doc!Blank})
      OBVIOUS
    <3> QED
      BY <3>1, TextIs
  <2>2. \A text \in Texts : IsText(text)
    <3>1. \A n \in 0 .. 7 : n \in Nat
      OBVIOUS
    <3> QED
      BY <2>1, <3>1 DEF Texts
  <2>3. IsText(Long(5))
    <3>1. Long(5) \in [1 .. 5 -> {"x", Doc!Blank}]
      BY DEF Long
    <3> QED
      BY <2>1, <3>1
  <2>4. IsText(<<>>)
    <3>1. <<>> \in Seq({"x"})
      OBVIOUS
    <3> QED
      BY <3>1, TextIs
  <2> QED
    BY <2>2, <2>3, <2>4
<1>2. \A t, n, o : /\ Upload(t, n, o).kind = "document" /\ Upload(t, n, o).source = "d"
                   /\ Upload(t, n, o).text = t /\ Upload(t, n, o).tokens = n /\ Upload(t, n, o).overlap = o
  BY DEF Upload
<1>3. \A t : ReIndex(t).kind = "conversation" /\ ReIndex(t).source = "c"
  BY DEF ReIndex
<1>4. /\ Blanks.kind = "document" /\ Blanks.source = "e" /\ Blanks.text = <<>>
      /\ Blanks.tokens = 1 /\ Blanks.overlap = 0
  BY DEF Blanks, Upload
<1>5. CASE \E t \in Texts, c \in {0, 1, 2}, o \in {-1, 0, 1, 2} : plan = <<Upload(t, c, o), Blanks, Blanks>>
  <2>1. PICK t \in Texts, c \in {0, 1, 2}, o \in {-1, 0, 1, 2} : plan = <<Upload(t, c, o), Blanks, Blanks>>
    BY <1>5
  <2>2. plan[1] = Upload(t, c, o) /\ plan[2] = Blanks /\ plan[3] = Blanks
    BY <2>1
  <2>3. /\ IsText(plan[1].text) /\ plan[1].tokens \in Int /\ plan[1].overlap \in Int
        /\ plan[1].source = "d"
    BY <1>1, <1>2, <2>2
  <2>4. /\ plan[2].text = <<>> /\ plan[2].tokens = 1 /\ plan[2].overlap = 0
        /\ plan[3].text = <<>> /\ plan[3].tokens = 1 /\ plan[3].overlap = 0
        /\ plan[2].source = "e" /\ plan[3].source = "e"
        /\ plan[2].kind = "document" /\ plan[3].kind = "document"
    BY <1>4, <2>2
  <2>5. \A j \in DocJob : j = 1 \/ j = 2 \/ j = 3
    BY DEF DocJob
  <2>6. \A j \in DocJob : /\ IsText(plan[j].text)
                          /\ plan[j].tokens \in Int /\ plan[j].overlap \in Int
    <3> TAKE j \in DocJob
    <3>1. CASE j = 1
      BY <2>3, <3>1
    <3>2. CASE j = 2 \/ j = 3
      <4>1. plan[j].text = <<>> /\ plan[j].tokens = 1 /\ plan[j].overlap = 0
        BY <2>4, <3>2
      <4> QED
        BY <1>1, <4>1
    <3> QED
      BY <2>5, <3>1, <3>2
  <2>7. \A i, j \in DocJob : Doc!Same(i, j) /\ i # j => Doc!Uploads(i) /\ plan[i].text = <<>>
    BY <2>3, <2>4, <2>5 DEF Doc!Uploads, Doc!Same
  <2> QED
    BY <2>6, <2>7 DEF PlansAreUploads
<1>6. CASE \E x, y, z : plan = <<ReIndex(x), ReIndex(y), ReIndex(z)>>
  <2>1. \A j \in DocJob : ~Doc!Uploads(j)
    BY <1>3, <1>6 DEF DocJob, Doc!Uploads
  <2> QED
    BY <2>1 DEF PlansAreUploads
<1>7. CASE plan = <<ReIndex(Long(3)), ReIndex(Long(6)), Upload(Long(5), 1, 0)>>
  <2>1. plan[1].source = "c" /\ plan[2].source = "c" /\ plan[3] = Upload(Long(5), 1, 0)
        /\ plan[1].kind = "conversation" /\ plan[2].kind = "conversation"
    BY <1>3, <1>7
  <2>2. /\ plan[3].text = Long(5) /\ plan[3].tokens = 1 /\ plan[3].overlap = 0 /\ plan[3].source = "d"
    BY <1>2, <2>1
  <2>3. \A j \in DocJob : j = 1 \/ j = 2 \/ j = 3
    BY DEF DocJob
  <2>4. \A j \in DocJob : Doc!Uploads(j) => j = 3
    BY <2>1, <2>3 DEF Doc!Uploads
  <2>5. \A i \in DocJob : Doc!Same(i, 3) => i = 3
    BY <2>1, <2>2, <2>3 DEF Doc!Same
  <2>6. IsText(plan[3].text) /\ plan[3].tokens \in Int /\ plan[3].overlap \in Int
    BY <1>1, <2>2
  <2> QED
    BY <2>4, <2>5, <2>6 DEF PlansAreUploads
<1> QED
  BY <1>5, <1>6, <1>7 DEF Plans

Kept(j) == Doc!RowsOf(j) \subseteq rows
HasChunks(j) == Doc!ChunksOf(plan[j]) # {}
Listed == {"select", "delete", "embed", "add", "done"}

\* How far a job has come says what it has left.
Stage(j) ==
    /\ jobAt[j] \in {"bin", "meta", "row", "select"} => Doc!Uploads(j)
    /\ jobAt[j] = "meta" => bin[j] = "whole"
    /\ jobAt[j] = "row" => Doc!Readable(j)
    /\ j \in docs => Doc!Uploads(j) /\ Doc!Readable(j) /\ jobAt[j] \in Listed \cup {"failed"}
    /\ Doc!Uploads(j) /\ jobAt[j] \in Listed => j \in docs
    /\ Doc!Uploads(j) /\ jobAt[j] \notin {"begin", "refused"} => HasChunks(j)
    /\ jobAt[j] = "failed" => j \in failed
    /\ Doc!Uploads(j) /\ jobAt[j] = "done" => Kept(j)

Staged ==
    /\ bin \in [DocJob -> {"none", "partial", "whole"}]
    /\ meta \in [DocJob -> {"none", "partial", "whole"}]
    /\ docs \subseteq DocJob
    /\ \A j \in DocJob : Stage(j)

KeptInv == DocInv /\ PlansAreUploads /\ Staged

LEMMA KeptInitHolds ==
    ASSUME NEW plans, Doc!InitIn(plans), SourcesAreApart, PlansAreUploads
    PROVE  KeptInv
<1>1. DocInv
  BY DocInitHolds
<1>2. /\ jobAt = [j \in DocJob |-> "begin"] /\ rows = {} /\ docs = {}
      /\ bin = [j \in DocJob |-> "none"] /\ meta = [j \in DocJob |-> "none"]
  BY DEF Doc!InitIn, DocJob
<1>3. \A j \in DocJob : Stage(j)
  BY <1>2 DEF Stage, Listed
<1> QED
  BY <1>1, <1>2, <1>3 DEF KeptInv, Staged

\* A passage of an upload whose rows are there is whole in one of them.
LEMMA PassageIsHeld ==
    ASSUME PlansAreUploads, NEW j \in DocJob, Doc!Uploads(j), Kept(j),
           NEW passage \in Doc!Passages(j)
    PROVE  \E r \in Doc!Ranked(plan[j].user, dim[j]) : r.source = plan[j].source /\ Doc!Holds(r, passage)
<1> DEFINE text == Doc!Strip(plan[j].text)
           size == Doc!SizeOf(plan[j])
           lap == Doc!OverOf(plan[j])
           longest == Doc!Least({lap + 1, size \div 2 + 1})
<1>1. size \in Nat \ {0} /\ lap \in Nat /\ Len(text) \in Nat
  BY SizesAre DEF PlansAreUploads
<1>2. longest <= lap + 1 /\ longest <= size \div 2 + 1 /\ longest \in Int
  <2> HIDE DEF size, lap
  <2> DEFINE u == lap + 1
             v == size \div 2 + 1
  <2>1. u \in 1 .. u + v /\ v \in 1 .. u + v /\ u + v \in Int /\ 1 \in Int
    BY <1>1
  <2> HIDE DEF u, v
  <2>2. Doc!Least({u, v}) \in {u, v} /\ \A y \in {u, v} : Doc!Least({u, v}) <= y
    <3> DEFINE b == u + v
               S == {u, v}
    <3>1. S \in SUBSET (1 .. b) /\ S # {} /\ b \in Int /\ 1 \in Int
      BY <2>1
    <3> HIDE DEF b, S
    <3>2. Doc!Least(S) \in S /\ \A y \in S : Doc!Least(S) <= y
      BY <3>1, LeastIs
    <3> QED
      BY <3>2 DEF S
  <2>3. longest = Doc!Least({u, v})
    BY DEF u, v
  <2>4. u \in Int /\ v \in Int /\ u = lap + 1 /\ v = size \div 2 + 1
    BY <2>1 DEF u, v
  <2> HIDE DEF longest
  <2> QED
    BY <2>2, <2>3, <2>4
<1>3. /\ passage.from \in 0 .. Len(text) - 1 /\ passage.to \in 1 .. Len(text)
      /\ passage.to - passage.from \in 1 .. longest /\ text[passage.from + 1] # Doc!Blank
  BY DEF Doc!Passages
<1>4. \E c \in Doc!Chunks(text, size, lap) : c.from <= passage.from /\ passage.to <= c.to
  <2> HIDE DEF text, size, lap, longest
  <2>1. size \div 2 \in Nat
    BY <1>1
  <2>2. /\ passage.from < passage.to /\ passage.to - passage.from <= lap + 1
        /\ passage.to - passage.from <= size \div 2 + 1
    BY <1>1, <1>2, <1>3, <2>1
  <2> QED
    BY <1>1, <1>3, <2>2, ChunkHolds
<1>5. PICK c \in Doc!ChunksOf(plan[j]) : c.from <= passage.from /\ passage.to <= c.to
  BY <1>4 DEF Doc!ChunksOf
<1> DEFINE r == [user |-> plan[j].user, source |-> plan[j].source, job |-> j, from |-> c.from,
                 to |-> c.to, dim |-> dim[j]]
<1>6. r \in Doc!RowsOf(j)
  BY DEF Doc!RowsOf
<1>7. r \in rows /\ r.user = plan[j].user /\ r.dim = dim[j] /\ r.source = plan[j].source
      /\ r.from = c.from /\ r.to = c.to
  BY <1>6 DEF Kept
<1> HIDE DEF r
<1> QED
  BY <1>5, <1>7 DEF Doc!Ranked, Doc!Holds

\* The other jobs are as they were while the plan is.
LEMMA OthersStay ==
    ASSUME KeptInv, NEW j \in DocJob, plan' = plan,
           \A i \in DocJob \ {j} :
             /\ jobAt'[i] = jobAt[i] /\ bin'[i] = bin[i] /\ meta'[i] = meta[i]
             /\ i \in docs' <=> i \in docs
             /\ i \in failed => i \in failed'
             /\ Doc!Uploads(i) /\ jobAt[i] = "done" /\ Kept(i) => Kept(i)'
    PROVE  \A i \in DocJob \ {j} : Stage(i)'
<1> TAKE i \in DocJob \ {j}
<1>1. Stage(i)
  BY DEF KeptInv, Staged
<1>2. HasChunks(i)' <=> HasChunks(i)
  BY DEF HasChunks, Doc!ChunksOf, Doc!SizeOf, Doc!OverOf
<1>3. Doc!Uploads(i)' <=> Doc!Uploads(i)
  BY PlanStays
<1>4. Doc!Readable(i)' <=> Doc!Readable(i)
  BY DEF Doc!Readable
<1> QED
  BY <1>1, <1>2, <1>3, <1>4 DEF Stage

LEMMA UploadsStay ==
    ASSUME plan' = plan
    PROVE  /\ PlansAreUploads => PlansAreUploads'
           /\ \A j : HasChunks(j)' <=> HasChunks(j)
<1>1. /\ \A i, j : Doc!Same(i, j)' <=> Doc!Same(i, j)
      /\ \A j : Doc!Uploads(j)' <=> Doc!Uploads(j)
  BY PlanStays
<1> QED
  BY <1>1 DEF PlansAreUploads, HasChunks, Doc!ChunksOf, Doc!SizeOf, Doc!OverOf

\* The rows are as they were, and so are the others' files.
LEMMA FilesStepKeeps ==
    ASSUME KeptInv, NEW j \in DocJob,
           Doc!Parse(j) \/ Doc!WriteBin(j) \/ Doc!WriteMeta(j) \/ Doc!AddDocument(j)
    PROVE  Staged'
<1>1. plan' = plan /\ UNCHANGED <<rows, doomed, dim, raced, failed>>
  BY DEF Doc!Parse, Doc!WriteBin, Doc!WriteMeta, Doc!AddDocument
<1>2. PICK place \in {"refused", "bin", "meta", "row", "select"} : DocMoves(j, place)
  <2>1. PICK place \in {"refused", "bin", "meta", "row", "select"} : Doc!Goto(j, place)
    BY DEF Doc!Parse, Doc!WriteBin, Doc!WriteMeta, Doc!AddDocument, Doc!AfterMeta
  <2>2. place \in DocPlaces
    BY <2>1 DEF DocPlaces, Doc!InJob
  <2> QED
    BY <1>1, <2>1, <2>2, DocGotoIs DEF KeptInv, DocInv
<1>3. /\ bin' \in [DocJob -> {"none", "partial", "whole"}] /\ \A i \in DocJob \ {j} : bin'[i] = bin[i]
      /\ meta' \in [DocJob -> {"none", "partial", "whole"}] /\ \A i \in DocJob \ {j} : meta'[i] = meta[i]
      /\ docs' \subseteq DocJob /\ \A i \in DocJob \ {j} : i \in docs' <=> i \in docs
  BY DEF KeptInv, Staged, Doc!Parse, Doc!WriteBin, Doc!WriteMeta, Doc!AddDocument
<1>4. \A i : Kept(i)' <=> Kept(i)
  BY <1>1, PlanStays DEF Kept
<1>5. \A i \in DocJob \ {j} : Stage(i)'
  BY <1>1, <1>2, <1>3, <1>4, OthersStay DEF DocMoves
<1>6. (Doc!Uploads(j)' <=> Doc!Uploads(j)) /\ (HasChunks(j)' <=> HasChunks(j))
  BY <1>1, PlanStays, UploadsStay
<1>7. Stage(j) /\ jobAt[j] \in DocPlaces /\ jobAt'[j] = place
  BY <1>2 DEF KeptInv, Staged, DocInv, DocTypeOK, DocMoves
<1>8. CASE Doc!Parse(j)
  <2>1. jobAt[j] = "begin" /\ Doc!Uploads(j) /\ UNCHANGED <<bin, meta, docs>>
    BY <1>8 DEF Doc!Parse
  <2>2. place = "refused" \/ (place = "bin" /\ HasChunks(j))
    BY <1>8, <1>7 DEF Doc!Parse, Doc!Goto, KeptInv, DocInv, DocTypeOK, HasChunks
  <2>3. Stage(j)'
    BY <1>6, <1>7, <2>1, <2>2 DEF Stage, Listed
  <2> QED
    BY <1>3, <1>5, <2>3 DEF Staged
<1>9. CASE Doc!WriteBin(j)
  <2>1. /\ jobAt[j] = "bin" /\ UNCHANGED <<meta, docs>>
        /\ place = IF bin[j] = "none" THEN "bin" ELSE "meta"
        /\ bin'[j] = IF bin[j] = "none" THEN "partial" ELSE "whole"
    BY <1>9, <1>7 DEF Doc!WriteBin, Doc!Goto, KeptInv, Staged, DocInv, DocTypeOK
  <2>2. Stage(j)'
    BY <1>6, <1>7, <2>1 DEF Stage, Listed
  <2> QED
    BY <1>3, <1>5, <2>2 DEF Staged
<1>10. CASE Doc!WriteMeta(j)
  <2>1. /\ jobAt[j] = "meta" /\ UNCHANGED <<bin, docs>>
        /\ place = IF meta[j] = "none" THEN "meta" ELSE "row"
        /\ meta'[j] = IF meta[j] = "none" THEN "partial" ELSE "whole"
    BY <1>10, <1>7 DEF Doc!WriteMeta, Doc!AfterMeta, Doc!Goto, KeptInv, Staged, DocInv, DocTypeOK
  <2>2. Stage(j)'
    BY <1>6, <1>7, <2>1 DEF Stage, Listed, Doc!Readable
  <2> QED
    BY <1>3, <1>5, <2>2 DEF Staged
<1>11. CASE Doc!AddDocument(j)
  <2>1. jobAt[j] = "row" /\ UNCHANGED <<bin, meta>> /\ place = "select" /\ docs' = docs \cup {j}
    BY <1>11, <1>7 DEF Doc!AddDocument, Doc!Goto, KeptInv, DocInv, DocTypeOK
  <2>2. Stage(j)'
    BY <1>6, <1>7, <2>1 DEF Stage, Listed, Doc!Readable
  <2> QED
    BY <1>3, <1>5, <2>2 DEF Staged
<1> QED
  BY <1>8, <1>9, <1>10, <1>11

LEMMA SelectOrFailKeeps ==
    ASSUME KeptInv, NEW j \in DocJob, Doc!DeleteSelect(j) \/ Doc!Fail(j)
    PROVE  Staged'
<1>1. plan' = plan /\ UNCHANGED <<rows, dim, bin, meta, docs>>
  BY DEF Doc!DeleteSelect, Doc!Fail
<1>2. PICK place \in {"delete", "failed"} :
        /\ DocMoves(j, place)
        /\ place = "delete" => Doc!DeleteSelect(j) /\ failed' = failed
        /\ place = "failed" => Doc!Fail(j) /\ failed' = failed \cup {j}
  <2>1. PICK place \in {"delete", "failed"} :
          /\ Doc!Goto(j, place)
          /\ place = "delete" => Doc!DeleteSelect(j) /\ failed' = failed
          /\ place = "failed" => Doc!Fail(j) /\ failed' = failed \cup {j}
    BY DEF Doc!DeleteSelect, Doc!Fail
  <2>2. place \in DocPlaces
    BY <2>1 DEF DocPlaces, Doc!InJob
  <2> QED
    BY <1>1, <2>1, <2>2, DocGotoIs DEF KeptInv, DocInv
<1>3. \A i : (Kept(i)' <=> Kept(i)) /\ (i \in failed => i \in failed')
  BY <1>1, <1>2, PlanStays DEF Kept
<1>4. \A i \in DocJob \ {j} : Stage(i)'
  BY <1>1, <1>2, <1>3, OthersStay DEF DocMoves
<1>5. (Doc!Uploads(j)' <=> Doc!Uploads(j)) /\ (HasChunks(j)' <=> HasChunks(j))
  BY <1>1, PlanStays, UploadsStay
<1>6. Stage(j) /\ jobAt'[j] = place /\ (Doc!Readable(j)' <=> Doc!Readable(j))
  BY <1>1, <1>2 DEF KeptInv, Staged, DocMoves, Doc!Readable
<1>7. /\ place = "delete" => jobAt[j] = IF Doc!Uploads(j) THEN "select" ELSE "begin"
      /\ place = "failed" => jobAt[j] \in {"bin", "meta", "row", "select", "delete", "embed", "add"}
  BY <1>2 DEF Doc!DeleteSelect, Doc!Fail, Doc!InJob
<1>8. Stage(j)'
  BY <1>1, <1>2, <1>5, <1>6, <1>7 DEF Stage, Listed
<1> QED
  BY <1>1, <1>4, <1>8 DEF KeptInv, Staged

\* Only the upload itself ever drops its rows, and it does so before it has any:
\* whoever else has its source is blank and was refused.
LEMMA DropsAreOwn ==
    ASSUME KeptInv, NEW j \in DocJob, jobAt[j] = "delete", NEW i \in DocJob \ {j},
           Doc!Uploads(i), Kept(i), UNCHANGED <<plan, dim>>, rows' = rows \ doomed[j]
    PROVE  Kept(i)'
<1>1. CASE Doc!Same(j, i)
  <2>1. Doc!Uploads(j) /\ plan[j].text = <<>>
    BY <1>1 DEF KeptInv, PlansAreUploads
  <2>2. ~HasChunks(j)
    BY <2>1, SizesAre DEF KeptInv, PlansAreUploads, HasChunks
  <2> QED
    BY <2>1, <2>2 DEF KeptInv, Staged, Stage
<1>2. CASE ~Doc!Same(j, i)
  <2>1. \A r \in Doc!RowsOf(i) : r.source = plan[i].source /\ r.user = plan[i].user
    BY DEF Doc!RowsOf
  <2>2. \A r \in doomed[j] : r.source = plan[j].source /\ r.user = plan[j].user
    BY DEF KeptInv, DocInv, DoomedAreOwn
  <2>3. Doc!RowsOf(i) \cap doomed[j] = {}
    BY <1>2, <2>1, <2>2 DEF Doc!Same
  <2>4. Doc!RowsOf(i)' = Doc!RowsOf(i)
    BY PlanStays
  <2> QED
    BY <2>3, <2>4 DEF Kept
<1> QED
  BY <1>1, <1>2

LEMMA RowsStepKeeps ==
    ASSUME KeptInv, NEW j \in DocJob, Doc!DeleteCommit(j) \/ Doc!Embed(j) \/ Doc!Add(j)
    PROVE  Staged'
<1>1. plan' = plan /\ UNCHANGED <<bin, meta, docs, failed>>
  BY DEF Doc!DeleteCommit, Doc!Embed, Doc!Add
<1>2. (Doc!Uploads(j)' <=> Doc!Uploads(j)) /\ (HasChunks(j)' <=> HasChunks(j))
  BY <1>1, PlanStays, UploadsStay
<1>3. Stage(j) /\ (Doc!Readable(j)' <=> Doc!Readable(j))
  BY <1>1 DEF KeptInv, Staged, Doc!Readable
<1>4. CASE Doc!DeleteCommit(j)
  <2>1. jobAt[j] = "delete" /\ UNCHANGED <<plan, dim>> /\ rows' = rows \ doomed[j]
    BY <1>4 DEF Doc!DeleteCommit
  <2>2. PICK place \in {"embed", "done"} : DocMoves(j, place) /\ (place = "done" => ~HasChunks(j))
    <3>1. PICK place \in {"embed", "done"} : Doc!Goto(j, place) /\ (place = "done" => ~HasChunks(j))
      BY <1>4 DEF Doc!DeleteCommit, HasChunks
    <3>2. place \in DocPlaces
      BY <3>1 DEF DocPlaces, Doc!InJob
    <3> QED
      BY <2>1, <3>1, <3>2, DocGotoIs DEF KeptInv, DocInv
  <2>3. \A i \in DocJob \ {j} : Doc!Uploads(i) /\ Kept(i) => Kept(i)'
    BY <2>1, DropsAreOwn
  <2>4. \A i \in DocJob \ {j} : Stage(i)'
    BY <1>1, <2>2, <2>3, OthersStay DEF DocMoves
  <2>5. Stage(j)'
    BY <1>1, <1>2, <1>3, <2>1, <2>2 DEF Stage, Listed, DocMoves
  <2> QED
    BY <1>1, <2>4, <2>5 DEF KeptInv, Staged
<1>5. CASE Doc!Embed(j)
  <2>1. jobAt[j] = "embed" /\ rows' = rows /\ \E d \in Dimension : dim' = [dim EXCEPT ![j] = d]
    BY <1>5 DEF Doc!Embed
  <2>2. DocMoves(j, "add")
    BY <1>1, <1>5, DocGotoIs DEF KeptInv, DocInv, Doc!Embed, DocPlaces, Doc!InJob
  <2>3. \A i \in DocJob \ {j} : dim'[i] = dim[i]
    BY <2>1 DEF KeptInv, DocInv, DocTypeOK
  <2>4. \A i \in DocJob \ {j} : Kept(i)' <=> Kept(i)
    BY <1>1, <2>1, <2>3 DEF Kept, Doc!RowsOf, Doc!ChunksOf, Doc!SizeOf, Doc!OverOf
  <2>5. \A i \in DocJob \ {j} : Stage(i)'
    BY <1>1, <2>2, <2>4, OthersStay DEF DocMoves
  <2>6. Stage(j)'
    BY <1>1, <1>2, <1>3, <2>1, <2>2 DEF Stage, Listed, DocMoves
  <2> QED
    BY <1>1, <2>5, <2>6 DEF KeptInv, Staged
<1>6. CASE Doc!Add(j)
  <2>1. jobAt[j] = "add" /\ dim' = dim /\ rows' = rows \cup Doc!RowsOf(j)
    BY <1>6 DEF Doc!Add
  <2>2. DocMoves(j, "done")
    BY <1>1, <1>6, DocGotoIs DEF KeptInv, DocInv, Doc!Add, DocPlaces, Doc!InJob
  <2>3. \A i : Doc!RowsOf(i)' = Doc!RowsOf(i)
    BY <1>1, <2>1, PlanStays
  <2>4. Kept(j)' /\ \A i : Kept(i) => Kept(i)'
    BY <2>1, <2>3 DEF Kept
  <2>5. \A i \in DocJob \ {j} : Stage(i)'
    BY <1>1, <2>2, <2>4, OthersStay DEF DocMoves
  <2>6. Stage(j)'
    BY <1>1, <1>2, <1>3, <2>1, <2>2, <2>4 DEF Stage, Listed, DocMoves
  <2> QED
    BY <1>1, <2>5, <2>6 DEF KeptInv, Staged
<1> QED
  BY <1>4, <1>5, <1>6

LEMMA KeptStepKeeps ==
    ASSUME KeptInv, [Doc!Next]_(Doc!vars)
    PROVE  KeptInv'
<1>1. DocInv'
  BY DocStepKeeps DEF KeptInv
<1>2. plan' = plan
  BY DEF Doc!vars, Doc!Next, Doc!Parse, Doc!WriteBin, Doc!WriteMeta, Doc!AddDocument, Doc!DeleteSelect,
         Doc!DeleteCommit, Doc!Embed, Doc!Add, Doc!Fail
<1>3. PlansAreUploads'
  BY <1>2, UploadsStay DEF KeptInv
<1>4. CASE UNCHANGED Doc!vars
  <2>1. UNCHANGED <<jobAt, bin, meta, docs, rows, dim, failed>>
    BY <1>4 DEF Doc!vars
  <2>2. \A i : Kept(i)' <=> Kept(i)
    BY <1>2, <2>1, PlanStays DEF Kept
  <2>3. \A i : /\ Doc!Uploads(i)' <=> Doc!Uploads(i)
               /\ HasChunks(i)' <=> HasChunks(i)
               /\ Doc!Readable(i)' <=> Doc!Readable(i)
    BY <1>2, <2>1, PlanStays, UploadsStay DEF Doc!Readable
  <2>4. Staged'
    BY <2>1, <2>2, <2>3 DEF KeptInv, Staged, Stage
  <2> QED
    BY <1>1, <1>3, <2>4 DEF KeptInv
<1>5. ASSUME NEW j \in DocJob,
             \/ Doc!Parse(j) \/ Doc!WriteBin(j) \/ Doc!WriteMeta(j) \/ Doc!AddDocument(j) \/ Doc!DeleteSelect(j)
             \/ Doc!DeleteCommit(j) \/ Doc!Embed(j) \/ Doc!Add(j) \/ Doc!Fail(j)
      PROVE  Staged'
  BY <1>5, FilesStepKeeps, SelectOrFailKeeps, RowsStepKeeps
<1> QED
  BY <1>1, <1>3, <1>4, <1>5 DEF KeptInv, Doc!Next, DocJob

LEMMA KeptIsKept ==
    ASSUME KeptInv
    PROVE  Doc!DocumentsAreKept
<1>1. \A j \in DocJob : Stage(j)
  BY DEF KeptInv, Staged
<1>2. \A j \in docs : j \in DocJob /\ Doc!Readable(j) /\ Doc!Uploads(j)
  BY <1>1 DEF KeptInv, Staged, Stage
<1>3. \A j \in DocJob : Doc!Uploads(j) /\ jobAt[j] = "done" => j \in docs
  BY <1>1 DEF Stage, Listed
<1>4. ASSUME NEW j \in docs, jobAt[j] \notin Doc!InJob, j \notin failed, NEW passage \in Doc!Passages(j)
      PROVE  \E r \in Doc!Ranked(plan[j].user, dim[j]) : r.source = plan[j].source /\ Doc!Holds(r, passage)
  <2>1. j \in DocJob /\ Doc!Uploads(j)
    BY <1>2, <1>4
  <2>2. jobAt[j] = "done"
    BY <1>1, <1>4, <2>1 DEF Stage, Listed, Doc!InJob
  <2>3. Kept(j)
    BY <1>1, <2>1, <2>2 DEF Stage
  <2> QED
    BY <1>4, <2>1, <2>3, PassageIsHeld DEF KeptInv
<1> QED
  BY <1>2, <1>3, <1>4 DEF Doc!DocumentsAreKept, DocJob

\* upload_document, index_document_chunks and index_conversation, for any texts,
\* chunk sizes and overlaps: a listed document has its file, one that is indexed
\* has rows in which every short passage is whole, and the rows of a conversation
\* that no two runs were at together are those of one run.
THEOREM AnyDocumentsHold ==
    ASSUME NEW plans
    PROVE  Doc!InitIn(plans) /\ SourcesAreApart /\ PlansAreUploads /\ [][Doc!Next]_(Doc!vars)
             => [](Doc!DocumentsAreKept /\ Doc!MemoryIsOfOneRun)
<1>1. Doc!InitIn(plans) /\ SourcesAreApart /\ PlansAreUploads => KeptInv
  BY KeptInitHolds
<1>2. KeptInv /\ [Doc!Next]_(Doc!vars) => KeptInv'
  BY KeptStepKeeps
<1>3. KeptInv => Doc!DocumentsAreKept /\ Doc!MemoryIsOfOneRun
  BY KeptIsKept DEF KeptInv, DocInv, RunsTakeTurns, Whose, Mine, Doc!MemoryIsOfOneRun, Doc!Conversations, DocJob
<1> QED
  BY <1>1, <1>2, <1>3, PTL

\* The same of the plans that TLC enumerates.
THEOREM DocumentsHold == MCSpec => []DocumentsAreKept
<1>1. MCInit => KeptInv
  <2> SUFFICES ASSUME MCInit PROVE KeptInv
    OBVIOUS
  <2>1. <<ReIndex(Long(3)), ReIndex(Long(6)), Upload(Long(5), 1, 0)>> \in Plans
    BY DEF Plans
  <2>2. Of("documents", Plans) \subseteq Plans
    BY <2>1, OfIsIn
  <2>3. Doc!InitIn(Plans) /\ plan \in Plans
    BY <2>2 DEF MCInit, Doc!InitIn
  <2>4. SourcesAreApart /\ PlansAreUploads
    BY <2>3, PlansAreApart, PlansUpload
  <2> QED
    BY <2>3, <2>4, KeptInitHolds
<1>2. KeptInv /\ [MCNext]_allVars => KeptInv'
  <2>1. [MCNext]_allVars => [Doc!Next]_(Doc!vars)
    BY DEF MCNext, AccountsStep, McpStep, DocumentsStep, ServerStep, PageStep, ModelsStep, SelectionStep,
           DatasetsStep, FeedbackStep, allVars, documentVars, Doc!vars
  <2> QED
    BY <2>1, KeptStepKeeps
<1>3. KeptInv => DocumentsAreKept
  BY KeptIsKept DEF DocumentsAreKept
<1> QED
  BY <1>1, <1>2, <1>3, PTL DEF MCSpec

=============================================================================
