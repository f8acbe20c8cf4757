------------------------- MODULE GpuLauncherProofs -------------------------
(***************************************************************************)
(* What holds of a launch for any number of offers, attempts and polls:    *)
(* no box is left behind unreported and the boot-attempt budget holds.     *)
(***************************************************************************)
EXTENDS GpuLauncher, FiniteSetTheorems, TLAPS

Counted == {o \in Offers \ lost : box[o] # "none"}

\* The caller's thread: it destroys what it has rented, and only a launch that is
\* over has an outcome.
Thread ==
    /\ pc \in {"wait", "run", "hung", "destroy"} => current \in Offers
    /\ stage[Main] # "idle" => pc = "destroy"
    /\ outcome = "launched" => pc = "end"

\* No box is rented before the loop comes to its offer.
Untouched ==
    \A o \in Offers : (o > current \/ (o = current /\ pc = "offer")) =>
        box[o] = "none" /\ o \notin lost

\* What is being booted, watched or destroyed has been rented.
Rented ==
    /\ pc \in {"wait", "run", "hung", "destroy"} => box[current] # "none"
    /\ \A o \in Offers :
        /\ watchdog[o] \in {"armed", "firing"} => box[o] # "none"
        /\ stage[o] # "idle" => watchdog[o] = "firing"

\* Each boot attempt is one box, those whose creation reply was lost aside.
Budget ==
    mode = "ssh" => Cardinality(Counted) = attempts

LaunchInv == TypeOK /\ Thread /\ Untouched /\ Rented /\ NothingLeaks /\ Budget

-----------------------------------------------------------------------------
\* The offers are finitely many, and the boxes among them that count are too.
LEMMA OffersFinite == IsFiniteSet(Offers) /\ IsFiniteSet(Counted)
<1>1. IsFiniteSet(Offers)
  BY LauncherAssumption, FS_Interval DEF Offers
<1> QED
  BY <1>1, FS_Subset DEF Counted

\* The caller's thread is no offer's watchdog.
LEMMA MainIsNoOffer == Main \notin Offers /\ Offers \subseteq Nat
BY LauncherAssumption DEF Main, Offers

\* At the start nothing has been rented.
LEMMA InitLaunchInv == Init => LaunchInv
<1> SUFFICES ASSUME Init PROVE LaunchInv
  OBVIOUS
<1>1. TypeOK
  BY LauncherAssumption DEF Init, TypeOK, Offers, Destroyers
<1>2. Thread /\ Untouched /\ Rented /\ NothingLeaks
  BY DEF Init, Thread, Untouched, Rented, NothingLeaks, Destroyers
<1>3. Counted = {}
  BY DEF Init, Counted
<1>4. Budget
  BY <1>3, FS_EmptySet DEF Init, Budget
<1> QED
  BY <1>1, <1>2, <1>4 DEF LaunchInv

\* A box is destroyed for the caller while the loop is at its offer.
LEMMA BoxOfType ==
    ASSUME LaunchInv, NEW d \in Destroyers, stage[d] # "idle"
    PROVE  BoxOf(d) \in Offers /\ box[BoxOf(d)] # "none"
BY DEF LaunchInv, Thread, Rented, BoxOf, Destroyers

\* Renting moves the loop on, and counts the box unless its reply was lost.
LEMMA RentKeeps ==
    ASSUME LaunchInv, RentRefused \/ RentReplyLost \/ RentForSsh \/ RentForOnstart
    PROVE  LaunchInv'
<1> USE DEF LaunchInv
<1>1. MayRent /\ current \in Offers /\ pc = "offer" /\ stage[Main] = "idle"
  BY DEF RentRefused, RentReplyLost, RentForSsh, RentForOnstart, MayRent, Thread, TypeOK, Destroyers
<1>2. TypeOK'
  BY <1>1, LauncherAssumption
  DEF RentRefused, RentReplyLost, RentForSsh, RentForOnstart, MayRent, TypeOK, Offers,
      destroying, replies
<1>3. Thread'
  BY <1>1 DEF RentRefused, RentReplyLost, RentForSsh, RentForOnstart, Thread, destroying
<1>4. Untouched'
  BY <1>1, MainIsNoOffer
  DEF RentRefused, RentReplyLost, RentForSsh, RentForOnstart, Untouched, TypeOK, replies
<1>5. NothingLeaks'
  BY <1>1 DEF RentRefused, RentReplyLost, RentForSsh, RentForOnstart, NothingLeaks, InHand,
              Unattended, Thread, TypeOK, destroying, replies
<1>6. Rented'
  <2>1. stage[current] = "idle"
    BY <1>1 DEF Untouched, Rented
  <2>2. \A o \in Offers : box[o] # "none" => box'[o] # "none"
    BY DEF RentRefused, RentReplyLost, RentForSsh, RentForOnstart, TypeOK
  <2>3. CASE RentForSsh
    BY <1>1, <2>1, <2>2, <2>3 DEF RentForSsh, Rented, TypeOK, destroying
  <2>4. CASE RentRefused \/ RentReplyLost \/ RentForOnstart
    BY <1>1, <2>2, <2>4 DEF RentRefused, RentReplyLost, RentForOnstart, Rented, destroying
  <2> QED
    BY <2>3, <2>4
<1>7. Budget'
  <2>1. box[current] = "none" /\ current \notin lost
    BY <1>1 DEF Untouched
  <2>2. CASE RentRefused
    <3>1. Counted' = Counted
      BY <2>2 DEF RentRefused, Counted, replies
    <3> QED
      BY <2>2, <3>1 DEF RentRefused, Budget
  <2>3. CASE RentReplyLost
    <3>1. Counted' = Counted
      BY <2>1, <2>3 DEF RentReplyLost, Counted, TypeOK
    <3> QED
      BY <2>3, <3>1 DEF RentReplyLost, Budget
  <2>4. CASE RentForSsh
    <3>1. Counted' = Counted \cup {current} /\ current \notin Counted
      BY <1>1, <2>1, <2>4 DEF RentForSsh, Counted, TypeOK, replies
    <3>2. Cardinality(Counted') = Cardinality(Counted) + 1
      BY <3>1, OffersFinite, FS_AddElement
    <3> QED
      BY <2>4, <3>2 DEF RentForSsh, Budget
  <2>5. CASE RentForOnstart
    BY <2>5 DEF RentForOnstart, Budget
  <2> QED
    BY <2>2, <2>3, <2>4, <2>5
<1> QED
  BY <1>2, <1>3, <1>4, <1>5, <1>6, <1>7

\* A step that rents nothing leaves the count alone.
LEMMA CountKept ==
    ASSUME LaunchInv, UNCHANGED <<mode, attempts, lost>>,
           \A o \in Offers : box'[o] = "none" <=> box[o] = "none"
    PROVE  Budget'
<1>1. Counted' = Counted
  BY DEF Counted
<1> QED
  BY <1>1 DEF LaunchInv, Budget

\* The loop gives up between two boxes.
LEMMA GiveUpKeeps ==
    ASSUME LaunchInv, GiveUp
    PROVE  LaunchInv'
<1> USE DEF LaunchInv, GiveUp, destroying, replies
<1>1. TypeOK' /\ Thread' /\ Untouched' /\ Rented'
  BY DEF TypeOK, Thread, Untouched, Rented
<1>2. NothingLeaks'
  BY DEF NothingLeaks, InHand, Unattended, Thread
<1> QED
  BY <1>1, <1>2, CountKept

\* The finally clause keeps the box in hand until it is destroyed.
LEMMA FinallyKeeps ==
    ASSUME LaunchInv, NEW next \in {"next", "return", "raise"}, Finally(next),
           pc \in {"wait", "run", "hung"}
    PROVE  LaunchInv'
<1> USE DEF LaunchInv, Finally, replies
<1>1. current \in Offers /\ pc' = "destroy" /\ UNCHANGED <<box, current, mode, attempts, lost>>
  BY DEF Thread
<1>2. Main \in Destroyers /\ 0 \in 0 .. MaxPolls
  BY LauncherAssumption DEF Destroyers
<1>3. TypeOK'
  BY <1>1, <1>2 DEF TypeOK
<1>4. Thread' /\ Untouched'
  BY <1>1 DEF Thread, Untouched
<1>5. Rented'
  <2>1. \A o \in Offers : stage'[o] = stage[o]
    BY MainIsNoOffer DEF TypeOK
  <2>2. \A o \in Offers :
            watchdog'[o] = watchdog[o] \/ (watchdog[o] = "armed" /\ watchdog'[o] = "off")
    BY <1>1 DEF TypeOK
  <2> QED
    BY <1>1, <2>1, <2>2 DEF Rented
<1>6. NothingLeaks'
  BY DEF NothingLeaks, InHand, Unattended, Thread
<1> QED
  BY <1>1, <1>3, <1>4, <1>5, <1>6, CountKept

\* A boot attempt keeps its box in hand until it is destroyed.
LEMMA AttemptKeeps ==
    ASSUME LaunchInv, Attempt
    PROVE  LaunchInv'
<1>1. CASE Reachable \/ JobHangs
  <2> USE <1>1 DEF LaunchInv, Reachable, JobHangs, destroying, replies
  <2>1. TypeOK' /\ Thread' /\ Untouched' /\ Rented'
    BY DEF TypeOK, Thread, Untouched, Rented
  <2>2. NothingLeaks'
    BY DEF NothingLeaks, InHand, Unattended, Thread
  <2> QED
    BY <2>1, <2>2, CountKept
<1>2. CASE Unreachable \/ JobSucceeds \/ JobFails
  BY <1>2, FinallyKeeps DEF Unreachable, JobSucceeds, JobFails
<1> QED
  BY <1>1, <1>2 DEF Attempt

\* A watchdog that fires only starts a destruction.
LEMMA FiresKeeps ==
    ASSUME LaunchInv, NEW o \in Offers, WatchdogFires(o)
    PROVE  LaunchInv'
<1> USE DEF LaunchInv, WatchdogFires, main, replies
<1>1. TypeOK'
  BY DEF TypeOK, Destroyers
<1>2. stage'[Main] = stage[Main]
  BY MainIsNoOffer DEF TypeOK, Destroyers
<1>3. Thread' /\ Untouched' /\ NothingLeaks'
  BY <1>2 DEF Thread, Untouched, NothingLeaks, InHand, Unattended
<1>4. Rented'
  BY DEF Rented, TypeOK
<1> QED
  BY <1>1, <1>3, <1>4, CountKept

\* A destroyer lets go of a box that is gone, reported, or taken for absent.
LEMMA ReleaseKeeps ==
    ASSUME LaunchInv, NEW d \in Destroyers, stage[d] = "check", Release(d),
           warned' \in SUBSET Offers, misread' \in SUBSET Offers,
           warned \subseteq warned', misread \subseteq misread',
           box[BoxOf(d)] = "live" => BoxOf(d) \in warned' \cup misread'
    PROVE  LaunchInv'
<1> USE DEF LaunchInv
<1>1. UNCHANGED <<box, mode, attempts, after, polls, lost>>
  BY DEF Release
<1>2. stage' = [stage EXCEPT ![d] = "idle"]
  BY DEF Release
<1>3. CASE d = Main
  <2>1. /\ pc' = IF after = "next" THEN "offer" ELSE "end"
        /\ current' = IF after = "next" THEN current + 1 ELSE current
        /\ outcome' = CASE after = "next"   -> outcome
                        [] after = "return" -> "trained"
                        [] after = "raise"  -> "failed"
        /\ UNCHANGED watchdog
    BY <1>3 DEF Release
  <2>2. pc = "destroy" /\ current \in Offers /\ BoxOf(d) = current /\ outcome # "launched"
    BY <1>3 DEF Thread, BoxOf
  <2>3. outcome' # "launched" /\ outcome' \in {"running", "trained", "launched", "failed"}
    BY <2>1, <2>2 DEF TypeOK
  <2>4. TypeOK'
    BY <1>1, <1>2, <2>1, <2>2, <2>3, LauncherAssumption DEF TypeOK, Offers
  <2>5. Thread'
    BY <1>2, <1>3, <2>1, <2>3 DEF Thread, TypeOK
  <2>6. Untouched'
    BY <1>1, <2>1, <2>2, MainIsNoOffer DEF Untouched
  <2>8. Rented'
    BY <1>1, <1>2, <1>3, <2>1, MainIsNoOffer DEF Rented, TypeOK
  <2>7. NothingLeaks'
    BY <1>1, <2>2 DEF NothingLeaks, InHand, Unattended
  <2> QED
    BY <1>1, <2>4, <2>5, <2>6, <2>7, <2>8, CountKept
<1>4. CASE d # Main
  <2>1. d \in Offers /\ watchdog' = [watchdog EXCEPT ![d] = "over"]
        /\ UNCHANGED <<pc, current, outcome>>
    BY <1>4 DEF Release, Destroyers
  <2>2. TypeOK'
    BY <1>1, <1>2, <2>1 DEF TypeOK
  <2>3. Thread' /\ Untouched'
    BY <1>1, <1>2, <1>4, <2>1 DEF Thread, Untouched, TypeOK, Destroyers
  <2>4. Rented'
    BY <1>1, <1>2, <2>1 DEF Rented, TypeOK
  <2>5. NothingLeaks'
    BY <1>1, <2>1 DEF NothingLeaks, InHand, Unattended
  <2> QED
    BY <1>1, <2>2, <2>3, <2>4, <2>5, CountKept
<1> QED
  BY <1>3, <1>4

\* Every step of a destruction keeps the invariant.
LEMMA DestroyKeeps ==
    ASSUME LaunchInv, NEW d \in Destroyers, Destroy(d)
    PROVE  LaunchInv'
<1> USE DEF LaunchInv
<1>1. stage[d] # "idle" /\ BoxOf(d) \in Offers /\ box[BoxOf(d)] # "none"
  <2>1. stage[d] # "idle"
    BY DEF Destroy, Delete, SeenGone, SeenBlank, SeenAlive, TimesUp
  <2> QED
    BY <2>1, BoxOfType
<1>2. warned \in SUBSET Offers /\ misread \in SUBSET Offers
  BY DEF TypeOK
<1>3. CASE Delete(d)
  <2>1. /\ \/ box' = [box EXCEPT ![BoxOf(d)] = "gone"]
           \/ UNCHANGED box
        /\ stage' = [stage EXCEPT ![d] = "check"]
        /\ UNCHANGED <<mode, current, attempts, pc, after, outcome, watchdog, polls, warned, lost, misread>>
    BY <1>3 DEF Delete, main, replies
  <2>2. TypeOK'
    BY <1>1, <2>1 DEF TypeOK
  <2>3. \A o \in Offers : box'[o] = "none" <=> box[o] = "none"
    BY <1>1, <2>1 DEF TypeOK
  <2>4. Thread'
    BY <1>1, <2>1 DEF Thread, TypeOK, Destroyers
  <2>5. Untouched'
    BY <2>1, <2>3 DEF Untouched
  <2>7. Rented'
    BY <1>1, <2>1, <2>3 DEF Rented, TypeOK, Thread
  <2>6. NothingLeaks'
    BY <2>1 DEF NothingLeaks, InHand, Unattended, TypeOK
  <2> QED
    BY <2>1, <2>2, <2>3, <2>4, <2>5, <2>6, <2>7, CountKept
<1>4. CASE SeenAlive(d)
  <2>1. TypeOK'
    BY <1>4, LauncherAssumption DEF SeenAlive, TypeOK, main, replies
  <2>2. Thread' /\ Untouched' /\ Rented' /\ NothingLeaks'
    BY <1>1, <1>4 DEF SeenAlive, main, replies, Thread, Untouched, Rented, NothingLeaks, InHand,
                      Unattended, TypeOK, Destroyers
  <2> QED
    BY <1>4, <2>1, <2>2, CountKept DEF SeenAlive, main, replies
<1>5. CASE SeenGone(d) \/ SeenBlank(d) \/ TimesUp(d)
  BY <1>1, <1>2, <1>5, ReleaseKeeps DEF SeenGone, SeenBlank, TimesUp
<1> QED
  BY <1>3, <1>4, <1>5 DEF Destroy

\* The invariant holds in every reachable state.
THEOREM LaunchInvariant == Spec => []LaunchInv
<1>1. LaunchInv /\ [Next]_vars => LaunchInv'
  <2> SUFFICES ASSUME LaunchInv, [Next]_vars PROVE LaunchInv'
    OBVIOUS
  <2>1. CASE UNCHANGED vars
    BY <2>1 DEF vars, main, destroying, replies, LaunchInv, TypeOK, Thread, Untouched, Rented,
                NothingLeaks, InHand, Unattended, Budget, Counted
  <2>2. CASE Next
    BY <2>2, RentKeeps, GiveUpKeeps, AttemptKeeps, FiresKeeps, DestroyKeeps DEF Next, Loop
  <2> QED
    BY <2>1, <2>2
<1> QED
  BY <1>1, InitLaunchInv, PTL DEF Spec

\* "Nothing leaks": whatever the provider answers, a live box is in hand, was
\* returned unattended, was reported, or is one whose reply could not be used.
THEOREM NothingIsLeaked == Spec => []NothingLeaks
<1>1. LaunchInv => NothingLeaks
  BY DEF LaunchInv
<1> QED
  BY <1>1, LaunchInvariant, PTL

\* The boot-attempt budget holds whatever offers are stale and replies lost.
THEOREM BudgetHolds == Spec => []BootedWithinBudget
<1>1. LaunchInv => BootedWithinBudget
  BY LauncherAssumption DEF LaunchInv, Budget, Counted, BootedWithinBudget, TypeOK
<1> QED
  BY <1>1, LaunchInvariant, PTL
=============================================================================
