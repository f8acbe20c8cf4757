------------------------- MODULE FixedWindowProofs -------------------------
(***************************************************************************)
(* What the fixed window promises for any number of replicas, any limit,   *)
(* window and duration: the limit holds, denials are earned, and counters  *)
(* expire.  A ledger for each window relates the counter to the requests   *)
(* it has let through, is about to let through, has denied or has missed.  *)
(***************************************************************************)
EXTENDS FixedWindow, FiniteSetTheorems, TLAPS

Start(w) == w * Window
End(w) == (w + 1) * Window
Over(w) == now >= End(w)
Checking(w) == {r \in Replicas : pc[r] # "idle" /\ window[r] = w}

P(w) == Cardinality(Pending(w))
C(w) == Cardinality(Checking(w))

\* Nobody counts in a window that has not begun, and no counter expires before
\* its window is over.
Timely ==
    /\ \A r \in Replicas : pc[r] # "idle" => Start(window[r]) <= now
    /\ \A w \in Windows : expires[w] >= End(w)

\* While the window lasts each admission has a count of its own; when it is over,
\* the checks it has left can each admit one more.
Admissions(w) ==
    /\ ~Over(w) => /\ late[w] = 0
                   /\ admitted[w] + P(w) <= count[w]
                   /\ admitted[w] + P(w) <= Limit
    /\ admitted[w] - late[w] <= Limit
    /\ Over(w) => late[w] + C(w) <= Cardinality(Replicas)

\* Every count is the count of some request.
Counts(w) ==
    /\ count[w] <= admitted[w] + denied[w] + unmetered[w] + P(w)
    /\ denied[w] > 0 => admitted[w] + unmetered[w] + P(w) >= Limit

Armed(w) == count[w] > 0 /\ expires[w] = Never => Pending(w) # {} \/ unmetered[w] > 0

Ledger(w) == Admissions(w) /\ Counts(w) /\ Armed(w)

WindowInv == TypeOK /\ Timely /\ \A w \in Windows : Ledger(w)

-----------------------------------------------------------------------------
(* The clock *)

\* A time lies in its window.
LEMMA InItsWindow ==
    ASSUME NEW n \in Nat
    PROVE  /\ n \div Window \in Nat
           /\ (n \div Window) * Window <= n
           /\ n < (n \div Window + 1) * Window
BY FixedWindowAssumption, SMT

\* Windows follow one another.
LEMMA WindowsGrow ==
    ASSUME NEW v \in Nat, NEW w \in Nat, v <= w
    PROVE  v * Window <= w * Window /\ v * Window \in Nat /\ w * Window \in Nat
BY FixedWindowAssumption, SMT

\* The windows are natural numbers, one begins where another ends.
LEMMA WindowsType ==
    ASSUME NEW w \in Windows
    PROVE  /\ w \in Nat /\ Start(w) \in Nat /\ End(w) \in Nat
           /\ Start(w) <= MaxTime
           /\ End(w) = Start(w) + Window
<1>1. MaxTime \in Nat /\ Window \in Nat \ {0}
  BY FixedWindowAssumption
<1>2. MaxTime \div Window \in Nat /\ (MaxTime \div Window) * Window <= MaxTime
  BY <1>1, InItsWindow
<1>3. w \in Nat /\ w <= MaxTime \div Window
  BY <1>2 DEF Windows
<1>4. /\ w * Window <= (MaxTime \div Window) * Window
      /\ w * Window \in Nat
      /\ (MaxTime \div Window) * Window \in Nat
  BY <1>2, <1>3, WindowsGrow
<1>5. (w + 1) * Window = w * Window + Window
  BY <1>1, <1>3, SMT
<1> QED
  BY <1>1, <1>2, <1>3, <1>4, <1>5 DEF Start, End

\* The clock stays within the windows.
LEMMA ClockInWindows ==
    ASSUME NEW n \in 0 .. MaxTime
    PROVE  n \div Window \in Windows
<1>1. MaxTime \in Nat /\ n \in Nat /\ n <= MaxTime
  BY FixedWindowAssumption
<1>2. /\ n \div Window \in Nat /\ (n \div Window) * Window <= n
      /\ MaxTime \div Window \in Nat /\ MaxTime < (MaxTime \div Window + 1) * Window
  BY <1>1, InItsWindow
<1>3. SUFFICES ASSUME n \div Window >= MaxTime \div Window + 1 PROVE FALSE
  BY <1>2 DEF Windows
<1>4. /\ (MaxTime \div Window + 1) * Window <= (n \div Window) * Window
      /\ (MaxTime \div Window + 1) * Window \in Nat /\ (n \div Window) * Window \in Nat
  BY <1>2, <1>3, WindowsGrow
<1> QED
  BY <1>1, <1>2, <1>4

\* The source's test for a window that is over.
LEMMA OverTest ==
    ASSUME TypeOK, NEW w \in Windows
    PROVE  now \div Window > w <=> Over(w)
<1>1. now \in Nat /\ w \in Nat
  BY FixedWindowAssumption, WindowsType DEF TypeOK
<1>2. /\ now \div Window \in Nat
      /\ (now \div Window) * Window <= now
      /\ now < (now \div Window + 1) * Window
  BY <1>1, InItsWindow
<1>3. ASSUME now \div Window > w PROVE Over(w)
  <2>1. (w + 1) * Window <= (now \div Window) * Window /\ (w + 1) * Window \in Nat
        /\ (now \div Window) * Window \in Nat
    BY <1>1, <1>2, <1>3, WindowsGrow
  <2> QED
    BY <1>1, <1>2, <2>1 DEF Over, End
<1>4. ASSUME ~(now \div Window > w) PROVE ~Over(w)
  <2>1. (now \div Window + 1) * Window <= (w + 1) * Window /\ (w + 1) * Window \in Nat
        /\ (now \div Window + 1) * Window \in Nat
    BY <1>1, <1>2, <1>4, WindowsGrow
  <2> QED
    BY <1>1, <1>2, <2>1 DEF Over, End
<1> QED
  BY <1>3, <1>4

-----------------------------------------------------------------------------
(* Checks under way *)

\* They are finitely many.
LEMMA ChecksFinite ==
    /\ Cardinality(Replicas) \in Nat
    /\ \A w : /\ IsFiniteSet(Pending(w)) /\ IsFiniteSet(Checking(w))
              /\ P(w) \in Nat /\ C(w) \in Nat
              /\ C(w) <= Cardinality(Replicas)
<1>1. IsFiniteSet(Replicas)
  BY FixedWindowAssumption
<1>2. ASSUME NEW w
      PROVE  /\ IsFiniteSet(Pending(w)) /\ IsFiniteSet(Checking(w))
             /\ P(w) \in Nat /\ C(w) \in Nat
             /\ C(w) <= Cardinality(Replicas)
  <2>1. Pending(w) \subseteq Replicas /\ Checking(w) \subseteq Replicas
    BY DEF Pending, Checking
  <2>2. IsFiniteSet(Pending(w)) /\ IsFiniteSet(Checking(w))
    BY <1>1, <2>1, FS_Subset
  <2>3. Cardinality(Checking(w)) <= Cardinality(Replicas)
    BY <1>1, <2>1, FS_Subset
  <2> QED
    BY <2>2, <2>3, FS_CardinalityType DEF P, C
<1> QED
  BY <1>1, <1>2, FS_CardinalityType

\* A check concerns the checks of its own window only.
LEMMA OtherWindows ==
    ASSUME TypeOK, NEW r \in Replicas, NEW where, pc' = [pc EXCEPT ![r] = where],
           UNCHANGED window, NEW w \in Windows, w # window[r]
    PROVE  P(w)' = P(w) /\ C(w)' = C(w) /\ Pending(w)' = Pending(w)
<1>1. Pending(w)' = Pending(w) /\ Checking(w)' = Checking(w)
  BY DEF TypeOK, Pending, Checking
<1> QED
  BY <1>1 DEF P, C

\* A check that is over leaves the checks of its window.
LEMMA CheckEnds ==
    ASSUME TypeOK, NEW r \in Replicas, pc[r] # "idle", pc' = [pc EXCEPT ![r] = "idle"],
           UNCHANGED window, NEW w \in Windows, w = window[r]
    PROVE  /\ C(w)' = C(w) - 1
           /\ pc[r] = "arm" => P(w)' = P(w) - 1 /\ P(w) >= 1
           /\ pc[r] = "incr" => P(w)' = P(w) /\ Pending(w)' = Pending(w)
<1>1. Checking(w)' = Checking(w) \ {r} /\ r \in Checking(w)
  BY DEF TypeOK, Checking
<1>2. C(w)' = C(w) - 1
  BY <1>1, ChecksFinite, FS_RemoveElement DEF C
<1>3. ASSUME pc[r] = "arm" PROVE P(w)' = P(w) - 1 /\ P(w) >= 1
  <2>1. Pending(w)' = Pending(w) \ {r} /\ r \in Pending(w) /\ IsFiniteSet(Pending(w))
    BY <1>3, ChecksFinite DEF TypeOK, Pending
  <2>2. P(w)' = P(w) - 1
    BY <2>1, FS_RemoveElement DEF P
  <2>3. P(w) # 0 /\ P(w) \in Nat
    BY <2>1, ChecksFinite, FS_EmptySet DEF P
  <2> QED
    BY <2>2, <2>3
<1>4. ASSUME pc[r] = "incr" PROVE P(w)' = P(w) /\ Pending(w)' = Pending(w)
  <2>1. Pending(w)' = Pending(w)
    BY <1>4 DEF TypeOK, Pending
  <2> QED
    BY <2>1 DEF P
<1> QED
  BY <1>2, <1>3, <1>4

\* A check that has counted first goes on to arm the expiry.
LEMMA CheckArms ==
    ASSUME TypeOK, NEW r \in Replicas, pc[r] = "incr", pc' = [pc EXCEPT ![r] = "arm"],
           UNCHANGED window, NEW w \in Windows, w = window[r]
    PROVE  C(w)' = C(w) /\ P(w)' = P(w) + 1 /\ Pending(w)' # {}
<1>1. Checking(w)' = Checking(w)
  BY DEF TypeOK, Checking
<1>2. Pending(w)' = Pending(w) \cup {r} /\ r \notin Pending(w)
  BY DEF TypeOK, Pending
<1>3. P(w)' = P(w) + 1
  BY <1>2, ChecksFinite, FS_AddElement DEF P
<1> QED
  BY <1>1, <1>2, <1>3 DEF C

-----------------------------------------------------------------------------
(* The invariant *)

\* No request, no count.
LEMMA InitWindowInv == Init => WindowInv
<1> SUFFICES ASSUME Init PROVE WindowInv
  OBVIOUS
<1>1. Never \in 0 .. Never /\ 0 \in Windows
  <2>1. MaxTime \in Nat /\ Window \in Nat /\ MaxTime \div Window \in Nat
    BY FixedWindowAssumption, InItsWindow
  <2> QED
    BY <2>1 DEF Never, Windows
<1>2. TypeOK
  <2>1. 0 \in 0 .. MaxTime
    BY FixedWindowAssumption
  <2> QED
    BY <1>1, <2>1 DEF Init, TypeOK, Zero
<1>3. \A w \in Windows : Never >= End(w)
  BY FixedWindowAssumption, WindowsType DEF Never
<1>4. Timely
  BY <1>3 DEF Init, Timely
<1>5. ASSUME NEW w \in Windows PROVE Ledger(w)
  <2>1. Pending(w) = {}
    BY DEF Init, Pending
  <2>2. P(w) = 0 /\ C(w) \in Nat /\ C(w) <= Cardinality(Replicas)
    BY <2>1, ChecksFinite, FS_EmptySet DEF P
  <2>3. Limit \in Nat
    BY FixedWindowAssumption
  <2> QED
    BY <2>2, <2>3, ChecksFinite DEF Init, Zero, Ledger, Admissions, Counts, Armed
<1> QED
  BY <1>2, <1>4, <1>5 DEF WindowInv

\* What the quantities of a window are.
LEMMA LedgerType ==
    ASSUME TypeOK, NEW w \in Windows
    PROVE  /\ {count[w], admitted[w], late[w], denied[w], unmetered[w], P(w), C(w)} \subseteq Nat
           /\ {now, expires[w], w, Limit, Window, MaxTime, Cardinality(Replicas)} \subseteq Nat
           /\ Limit > 0 /\ Window > 0 /\ C(w) <= Cardinality(Replicas)
<1>1. P(w) \in Nat /\ C(w) \in Nat /\ C(w) <= Cardinality(Replicas) /\ Cardinality(Replicas) \in Nat
  BY ChecksFinite
<1> QED
  BY <1>1, FixedWindowAssumption, WindowsType DEF TypeOK

\* Time passes: a counter that expires belongs to a window that is over.
LEMMA TickKeeps ==
    ASSUME WindowInv, Tick
    PROVE  WindowInv'
<1> USE DEF WindowInv
<1>1. TypeOK'
  <2>1. now' \in 0 .. MaxTime /\ Never \in 0 .. Never
    BY FixedWindowAssumption DEF Tick, TypeOK, Never
  <2> QED
    BY <2>1 DEF Tick, TypeOK, results
<1>2. \A w \in Windows : expires'[w] >= End(w)
  BY FixedWindowAssumption, WindowsType DEF Tick, Timely, Never
<1>3. Timely'
  <2>1. now \in Nat /\ now' = now + 1 /\ UNCHANGED <<pc, window>>
    BY FixedWindowAssumption DEF Tick, TypeOK
  <2>2. \A r \in Replicas : Start(window[r]) \in Nat
    BY WindowsType DEF TypeOK
  <2>3. \A r \in Replicas : pc'[r] # "idle" => Start(window'[r]) <= now'
    BY <2>1, <2>2 DEF Timely
  <2> QED
    BY <1>2, <2>3 DEF Timely
<1>4. ASSUME NEW w \in Windows PROVE Ledger(w)'
  <2>1. P(w)' = P(w) /\ C(w)' = C(w) /\ Pending(w)' = Pending(w)
    <3>1. Pending(w)' = Pending(w) /\ Checking(w)' = Checking(w)
      BY DEF Tick, Pending, Checking
    <3> QED
      BY <3>1 DEF P, C
  <2>2. UNCHANGED <<admitted, late, denied, unmetered>> /\ now' = now + 1
    BY DEF Tick, results
  <2>3. Over(w) => Over(w)'
    BY <2>2, WindowsType, LedgerType DEF Over
  <2>4. CASE expires[w] <= now'
    <3>1. count'[w] = 0 /\ Over(w)'
      BY <2>4, WindowsType, LedgerType DEF Tick, Timely, Over
    <3>2. Admissions(w)'
      BY <2>1, <2>2, <3>1, LedgerType DEF Ledger, Admissions
    <3>3. Counts(w)' /\ Armed(w)'
      BY <2>1, <2>2, <3>1, LedgerType DEF Ledger, Counts, Armed
    <3> QED
      BY <3>2, <3>3 DEF Ledger
  <2>5. CASE ~(expires[w] <= now')
    <3>1. count'[w] = count[w] /\ expires'[w] = expires[w]
      BY <2>5 DEF Tick
    <3>2. Admissions(w)'
      BY <2>1, <2>2, <2>3, <3>1, LedgerType DEF Ledger, Admissions
    <3>3. Counts(w)' /\ Armed(w)'
      BY <2>1, <2>2, <3>1 DEF Ledger, Counts, Armed
    <3> QED
      BY <3>2, <3>3 DEF Ledger
  <2> QED
    BY <2>4, <2>5
<1> QED
  BY <1>1, <1>3, <1>4

\* A check begins in a window that is not over.
LEMMA ReadWindowKeeps ==
    ASSUME WindowInv, NEW r \in Replicas, ReadWindow(r)
    PROVE  WindowInv'
<1> USE DEF WindowInv
<1>0. PICK v : v = now \div Window
  OBVIOUS
<1>1. v \in Windows /\ Start(v) <= now /\ ~Over(v)
  <2>1. v \in Windows
    BY <1>0, ClockInWindows DEF TypeOK
  <2>2. now \in Nat
    BY FixedWindowAssumption DEF TypeOK
  <2> QED
    BY <1>0, <2>1, <2>2, InItsWindow, OverTest DEF Start
<1>2. /\ pc[r] = "idle" /\ pc' = [pc EXCEPT ![r] = "incr"]
      /\ window' = [window EXCEPT ![r] = v]
      /\ UNCHANGED <<redis, now, count, expires, admitted, late, denied, unmetered>>
  BY <1>0 DEF ReadWindow, counters, results
<1>3. TypeOK'
  BY <1>1, <1>2 DEF TypeOK
<1>4. Timely'
  BY <1>1, <1>2 DEF TypeOK, Timely
<1>5. ASSUME NEW w \in Windows PROVE Ledger(w)'
  <2>1. Pending(w)' = Pending(w)
    BY <1>2 DEF TypeOK, Pending
  <2>2. P(w)' = P(w)
    BY <2>1 DEF P
  <2>3. Over(w)' <=> Over(w)
    BY <1>2 DEF Over
  <2>4. Over(w) => C(w)' = C(w)
    <3>1. ASSUME Over(w) PROVE Checking(w)' = Checking(w)
      BY <1>1, <1>2, <3>1 DEF TypeOK, Checking
    <3> QED
      BY <3>1 DEF C
  <2>5. Admissions(w)'
    BY <1>2, <2>2, <2>3, <2>4 DEF Ledger, Admissions
  <2>6. Counts(w)' /\ Armed(w)'
    BY <1>2, <2>1, <2>2 DEF Ledger, Counts, Armed
  <2> QED
    BY <2>5, <2>6 DEF Ledger
<1> QED
  BY <1>3, <1>4, <1>5

\* A decision admits or denies one request of one window.
LEMMA DecideEffect ==
    ASSUME TypeOK, NEW w \in Windows, NEW c \in Nat, Decide(w, c)
    PROVE  /\ admitted' \in [Windows -> Nat] /\ late' \in [Windows -> Nat] /\ denied' \in [Windows -> Nat]
           /\ \A v \in Windows : v # w =>
                admitted'[v] = admitted[v] /\ late'[v] = late[v] /\ denied'[v] = denied[v]
           /\ c <= Limit => /\ admitted'[w] = admitted[w] + 1
                            /\ late'[w] = late[w] + (IF Over(w) THEN 1 ELSE 0)
                            /\ denied'[w] = denied[w]
           /\ c > Limit => /\ admitted'[w] = admitted[w]
                           /\ late'[w] = late[w]
                           /\ denied'[w] = denied[w] + 1
<1>1. Limit \in Nat
  BY FixedWindowAssumption
<1>2. CASE c > Limit
  BY <1>1, <1>2 DEF Decide, DenyIn, TypeOK
<1>3. CASE ~(c > Limit)
  <2>1. /\ admitted' = [admitted EXCEPT ![w] = @ + 1]
        /\ late' = [late EXCEPT ![w] = @ + IF now \div Window > w THEN 1 ELSE 0]
        /\ UNCHANGED denied
    BY <1>3 DEF Decide, AdmitIn
  <2>2. late' = [late EXCEPT ![w] = @ + IF Over(w) THEN 1 ELSE 0]
    BY <2>1, OverTest
  <2> QED
    BY <1>1, <1>3, <2>1, <2>2 DEF TypeOK
<1> QED
  BY <1>2, <1>3

\* The ledgers of other windows do not notice a check.
LEMMA OtherLedgers ==
    ASSUME WindowInv, NEW r \in Replicas, NEW where, pc' = [pc EXCEPT ![r] = where],
           UNCHANGED <<now, window>>, NEW w \in Windows, w # window[r],
           count'[w] = count[w], expires'[w] = expires[w], admitted'[w] = admitted[w],
           late'[w] = late[w], denied'[w] = denied[w], unmetered'[w] = unmetered[w]
    PROVE  Ledger(w)'
<1>1. P(w)' = P(w) /\ C(w)' = C(w) /\ Pending(w)' = Pending(w)
  BY OtherWindows DEF WindowInv
<1>2. Over(w)' <=> Over(w)
  BY DEF Over
<1> QED
  BY <1>1, <1>2 DEF WindowInv, Ledger, Admissions, Counts, Armed

\* An expiry that is set during the window, or after it, lies after its end.
LEMMA ExpiryIsLater ==
    ASSUME TypeOK, NEW w \in Windows, Start(w) <= now
    PROVE  /\ now + Window \in 0 .. Never
           /\ now + Window # Never
           /\ now + Window >= End(w)
<1>1. now \in Nat /\ now <= MaxTime /\ MaxTime \in Nat /\ Window \in Nat
  BY FixedWindowAssumption DEF TypeOK
<1>2. End(w) = Start(w) + Window /\ Start(w) \in Nat
  BY WindowsType
<1> QED
  BY <1>1, <1>2 DEF Never

\* A count that is not left to be armed is decided on at once.
LEMMA CountedKeeps ==
    ASSUME WindowInv, NEW r \in Replicas, pc[r] = "incr", pc' = [pc EXCEPT ![r] = "idle"],
           UNCHANGED <<redis, now, window, unmetered>>,
           count' = [count EXCEPT ![window[r]] = @ + 1],
           Decide(window[r], count[window[r]] + 1),
           expires' = IF count[window[r]] = 0 THEN [expires EXCEPT ![window[r]] = now + Window]
                                              ELSE expires
    PROVE  WindowInv'
<1> USE DEF WindowInv
<1>0. PICK w \in Windows : w = window[r]
  BY DEF TypeOK
<1>1. w \in Windows /\ Start(w) <= now
  BY <1>0 DEF TypeOK, Timely
<1>2. count[w] + 1 \in Nat
  BY <1>0, <1>1 DEF TypeOK
<1>3. Decide(w, count[w] + 1)
  BY <1>0
<1>4. /\ admitted' \in [Windows -> Nat] /\ late' \in [Windows -> Nat] /\ denied' \in [Windows -> Nat]
      /\ \A v \in Windows : v # w =>
            admitted'[v] = admitted[v] /\ late'[v] = late[v] /\ denied'[v] = denied[v]
      /\ count[w] + 1 <= Limit => /\ admitted'[w] = admitted[w] + 1
                                  /\ late'[w] = late[w] + (IF Over(w) THEN 1 ELSE 0)
                                  /\ denied'[w] = denied[w]
      /\ count[w] + 1 > Limit => /\ admitted'[w] = admitted[w]
                                 /\ late'[w] = late[w]
                                 /\ denied'[w] = denied[w] + 1
  BY <1>0, <1>1, <1>2, <1>3, DecideEffect
<1>5. /\ count' = [count EXCEPT ![w] = @ + 1]
      /\ expires' = IF count[w] = 0 THEN [expires EXCEPT ![w] = now + Window] ELSE expires
  BY <1>0
<1>6. now + Window \in 0 .. Never /\ now + Window # Never /\ now + Window >= End(w)
  BY <1>1, ExpiryIsLater
<1>7. TypeOK'
  <2>1. expires' \in [Windows -> 0 .. Never]
    BY <1>0, <1>1, <1>4, <1>5, <1>6 DEF TypeOK
  <2>2. count' \in [Windows -> Nat] /\ pc' \in [Replicas -> {"idle", "incr", "arm"}]
    BY <1>0, <1>1, <1>4, <1>5, <1>6 DEF TypeOK
  <2> QED
    BY <1>0, <1>1, <1>4, <1>5, <1>6, <2>1, <2>2 DEF TypeOK
<1>8. Timely'
  BY <1>0, <1>1, <1>5, <1>6 DEF Timely, TypeOK
<1>9. C(w)' = C(w) - 1 /\ P(w)' = P(w) /\ Pending(w)' = Pending(w)
  BY <1>0, CheckEnds
<1>10. Over(w)' <=> Over(w)
  BY <1>0 DEF Over
<1>11. count'[w] = count[w] + 1
  BY <1>0, <1>1, <1>5 DEF TypeOK
<1>12. Admissions(w)'
  BY <1>0, <1>1, <1>4, <1>9, <1>10, <1>11, LedgerType DEF Ledger, Admissions
<1>13. Counts(w)'
  BY <1>0, <1>1, <1>4, <1>9, <1>11, LedgerType DEF Ledger, Counts
<1>14. Armed(w)'
  BY <1>0, <1>1, <1>5, <1>6, <1>9, LedgerType DEF Ledger, Armed, TypeOK
<1>15. ASSUME NEW v \in Windows, v # w PROVE Ledger(v)'
  BY <1>0, <1>1, <1>4, <1>5, <1>15, OtherLedgers DEF TypeOK
<1> QED
  BY <1>0, <1>7, <1>8, <1>12, <1>13, <1>14, <1>15 DEF Ledger

\* The first count of a window is armed before it is decided on.
LEMMA FirstCountKeeps ==
    ASSUME WindowInv, NEW r \in Replicas, pc[r] = "incr", pc' = [pc EXCEPT ![r] = "arm"],
           count[window[r]] = 0, count' = [count EXCEPT ![window[r]] = @ + 1],
           UNCHANGED <<redis, now, window, expires, admitted, late, denied, unmetered>>
    PROVE  WindowInv'
<1> USE DEF WindowInv
<1>0. PICK w \in Windows : w = window[r]
  BY DEF TypeOK
<1>1. w \in Windows
  BY <1>0 DEF TypeOK
<1>2. TypeOK'
  BY <1>0, <1>1 DEF TypeOK
<1>3. Timely'
  BY <1>0 DEF TypeOK, Timely
<1>4. C(w)' = C(w) /\ P(w)' = P(w) + 1 /\ Pending(w)' # {}
  BY <1>0, CheckArms
<1>5. (Over(w)' <=> Over(w)) /\ count[w] = 0 /\ count'[w] = 1
  BY <1>0, <1>1 DEF Over, TypeOK
<1>6. Admissions(w)'
  BY <1>0, <1>1, <1>4, <1>5, LedgerType DEF Ledger, Admissions
<1>7. Counts(w)' /\ Armed(w)'
  BY <1>0, <1>1, <1>4, <1>5, LedgerType DEF Ledger, Counts, Armed
<1>8. ASSUME NEW v \in Windows, v # w PROVE Ledger(v)'
  BY <1>0, <1>8, OtherLedgers DEF TypeOK
<1> QED
  BY <1>0, <1>2, <1>3, <1>6, <1>7, <1>8 DEF Ledger

\* Arming sets an expiry past the end of the window and admits the request.
LEMMA ArmKeeps ==
    ASSUME WindowInv, NEW r \in Replicas, Arm(r)
    PROVE  WindowInv'
<1> USE DEF WindowInv
<1>0. PICK w \in Windows : w = window[r]
  BY DEF TypeOK
<1>1. w \in Windows /\ Start(w) <= now
  BY <1>0 DEF Arm, TypeOK, Timely
<1>2. /\ pc[r] = "arm" /\ pc' = [pc EXCEPT ![r] = "idle"]
      /\ expires' = IF count[w] = 0 THEN expires ELSE [expires EXCEPT ![w] = now + Window]
      /\ Decide(w, 1)
      /\ UNCHANGED <<redis, now, count, window, unmetered>>
  BY <1>0 DEF Arm
<1>3. C(w)' = C(w) - 1 /\ P(w)' = P(w) - 1 /\ P(w) >= 1
  BY <1>0, <1>2, CheckEnds
<1>4. Over(w)' <=> Over(w)
  BY <1>0, <1>2 DEF Over
<1>5. /\ admitted' \in [Windows -> Nat] /\ late' \in [Windows -> Nat] /\ denied' \in [Windows -> Nat]
      /\ \A v \in Windows : v # w =>
            admitted'[v] = admitted[v] /\ late'[v] = late[v] /\ denied'[v] = denied[v]
      /\ admitted'[w] = admitted[w] + 1
      /\ late'[w] = late[w] + (IF Over(w) THEN 1 ELSE 0)
      /\ denied'[w] = denied[w]
  <2>1. 1 \in Nat /\ 1 <= Limit
    BY FixedWindowAssumption
  <2> QED
    BY <1>0, <1>1, <1>2, <2>1, DecideEffect
<1>6. now + Window \in 0 .. Never /\ now + Window # Never /\ now + Window >= End(w)
  BY <1>1, ExpiryIsLater
<1>7. TypeOK'
  <2>1. expires' \in [Windows -> 0 .. Never]
    BY <1>0, <1>1, <1>2, <1>5, <1>6 DEF TypeOK
  <2>2. count' \in [Windows -> Nat] /\ pc' \in [Replicas -> {"idle", "incr", "arm"}]
    BY <1>0, <1>1, <1>2, <1>5, <1>6 DEF TypeOK
  <2> QED
    BY <1>0, <1>1, <1>2, <1>5, <1>6, <2>1, <2>2 DEF TypeOK
<1>8. Timely'
  BY <1>0, <1>1, <1>2, <1>6 DEF Timely, TypeOK
<1>9. Admissions(w)'
  <2>1. count'[w] = count[w] /\ Admissions(w)
    BY <1>2 DEF Ledger
  <2>2. CASE Over(w)
    BY <1>3, <1>4, <1>5, <2>1, <2>2, LedgerType DEF Admissions
  <2>3. CASE ~Over(w)
    BY <1>3, <1>4, <1>5, <2>1, <2>3, LedgerType DEF Admissions
  <2> QED
    BY <2>2, <2>3
<1>10. Counts(w)'
  BY <1>0, <1>1, <1>2, <1>3, <1>5, LedgerType DEF Ledger, Counts
<1>11. Armed(w)'
  BY <1>0, <1>1, <1>2, <1>6, LedgerType DEF Armed, TypeOK
<1>12. ASSUME NEW v \in Windows, v # w PROVE Ledger(v)'
  BY <1>0, <1>1, <1>2, <1>5, <1>12, OtherLedgers DEF TypeOK
<1> QED
  BY <1>0, <1>7, <1>8, <1>9, <1>10, <1>11, <1>12 DEF Ledger

\* A failing cache lets the request through unmetered.
LEMMA CacheFailsKeeps ==
    ASSUME WindowInv, NEW r \in Replicas, CacheFails(r)
    PROVE  WindowInv'
<1> USE DEF WindowInv
<1>0. PICK w \in Windows : w = window[r]
  BY DEF TypeOK
<1>1. w \in Windows /\ pc[r] \in {"incr", "arm"}
  BY <1>0 DEF CacheFails, TypeOK
<1>2. /\ pc' = [pc EXCEPT ![r] = "idle"]
      /\ unmetered' = [unmetered EXCEPT ![w] = @ + 1]
      /\ UNCHANGED <<redis, now, count, expires, window, admitted, late, denied>>
  BY <1>0 DEF CacheFails, counters
<1>3. TypeOK'
  BY <1>0, <1>1, <1>2 DEF TypeOK
<1>4. Timely'
  BY <1>0, <1>2 DEF Timely, TypeOK
<1>5. C(w)' = C(w) - 1 /\ P(w)' \in {P(w), P(w) - 1}
  BY <1>0, <1>1, <1>2, CheckEnds
<1>6. (Over(w)' <=> Over(w)) /\ unmetered'[w] = unmetered[w] + 1
  BY <1>0, <1>1, <1>2 DEF Over, TypeOK
<1>7. Admissions(w)'
  BY <1>0, <1>1, <1>2, <1>5, <1>6, LedgerType DEF Ledger, Admissions
<1>8. Counts(w)' /\ Armed(w)'
  BY <1>0, <1>1, <1>2, <1>5, <1>6, LedgerType DEF Ledger, Counts, Armed
<1>9. ASSUME NEW v \in Windows, v # w PROVE Ledger(v)'
  BY <1>0, <1>2, <1>9, OtherLedgers DEF TypeOK
<1> QED
  BY <1>0, <1>3, <1>4, <1>7, <1>8, <1>9 DEF Ledger

\* The invariant holds in every reachable state.
THEOREM WindowInvariant == Spec => []WindowInv
<1>1. WindowInv /\ [Next]_vars => WindowInv'
  <2> SUFFICES ASSUME WindowInv, [Next]_vars PROVE WindowInv'
    OBVIOUS
  <2>1. CASE UNCHANGED vars
    BY <2>1 DEF vars, counters, results, WindowInv, TypeOK, Timely, Ledger, Admissions, Counts,
                Armed, Over, P, C, Pending, Checking
  <2>2. CASE Tick
    BY <2>2, TickKeeps
  <2>3. ASSUME NEW r \in Replicas, Check(r) PROVE WindowInv'
    <3>1. CASE ReadWindow(r)
      BY <3>1, ReadWindowKeeps
    <3>2. CASE IncrMemory(r)
      BY <3>2, CountedKeeps DEF IncrMemory
    <3>3. CASE IncrRedis(r) /\ count[window[r]] # 0
      BY <3>3, CountedKeeps DEF IncrRedis
    <3>4. CASE IncrRedis(r) /\ count[window[r]] = 0
      BY <3>4, FirstCountKeeps DEF IncrRedis
    <3>5. CASE Arm(r)
      BY <3>5, ArmKeeps
    <3>6. CASE CacheFails(r)
      BY <3>6, CacheFailsKeeps
    <3> QED
      BY <2>3, <3>1, <3>2, <3>3, <3>4, <3>5, <3>6 DEF Check
  <2> QED
    BY <2>1, <2>2, <2>3 DEF Next
<1> QED
  BY <1>1, InitWindowInv, PTL DEF Spec

\* "limit requests per window seconds": no more than the limit within a window,
\* and one more per replica in all, however long the checks take.
THEOREM LimitHolds == Spec => []WithinLimit
<1>1. WindowInv => WithinLimit
  <2> SUFFICES ASSUME WindowInv, NEW w \in Windows
               PROVE  /\ admitted[w] - late[w] <= Limit
                      /\ admitted[w] <= Limit + Cardinality(Replicas)
    BY DEF WithinLimit
  <2> QED
    BY LedgerType DEF WindowInv, Ledger, Admissions
<1> QED
  BY <1>1, WindowInvariant, PTL

\* Nobody is denied without cause.
THEOREM WindowDenialsAreEarned == Spec => []DenialIsEarned
<1>1. WindowInv => DenialIsEarned
  BY DEF WindowInv, Ledger, Counts, P, DenialIsEarned
<1> QED
  BY <1>1, WindowInvariant, PTL

\* No counter is left without an expiry.
THEOREM CountersExpire == Spec => []EveryCounterExpires
<1>1. WindowInv => EveryCounterExpires
  BY DEF WindowInv, Ledger, Armed, EveryCounterExpires
<1> QED
  BY <1>1, WindowInvariant, PTL
=============================================================================
