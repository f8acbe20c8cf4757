------------------------- MODULE TokenBucketProofs -------------------------
(***************************************************************************)
(* What the token bucket promises, for every capacity, rate, cost and      *)
(* number of callers: the rate holds until checks race, and a denial is    *)
(* always earned.  Both follow from one inductive invariant that compares  *)
(* the bucket with the debt of the admitted traffic.                       *)
(***************************************************************************)
EXTENDS TokenBucket, TLAPS

Exact == Burst <= 4 * Limit /\ races = 0

\* The bucket as a check that starts now would see it.
Level == IF stored THEN AtMost(Capacity, tokens + (now - ts) * Limit) ELSE Capacity

\* A check takes no time, and a stored bucket has not outlived its lifetime.
Timely ==
    /\ \A c \in Callers : pc[c] # "idle" => clock[c] = now
    /\ stored => written = ts /\ now < ts + Lifetime

\* Whatever checks overlap, no check goes by less than what the debt leaves.
Generous ==
    /\ Capacity - debt <= Level
    /\ \A c \in Callers : pc[c] = "write" => Capacity - debt <= level[c]

\* Until checks race, they go by exactly what the debt leaves.
Accounts ==
    Exact => /\ Capacity - debt = Level
             /\ \A c \in Callers : pc[c] = "write" => Capacity - debt = level[c]

BucketInv == TypeOK /\ Timely /\ Generous /\ Accounts

-----------------------------------------------------------------------------
(* Arithmetic *)

\* The amounts are natural numbers.
LEMMA Amounts ==
    /\ Capacity \in Nat
    /\ Lifetime \in Nat
    /\ Limit \in Nat
    /\ \A cost \in Costs : cost * Window \in Nat
BY BucketAssumption, SMT DEF Capacity, Lifetime

\* A tick more refills Limit more.
LEMMA RefillStep ==
    ASSUME NEW n \in Nat
    PROVE  /\ n * Limit \in Nat
           /\ (n + 1) * Limit = n * Limit + Limit
BY BucketAssumption, SMT

\* A bucket that four windows fill is full at the end of its key's lifetime.
LEMMA FullAtEndOfLife ==
    ASSUME Burst <= 4 * Limit
    PROVE  Capacity <= Lifetime * Limit
<1>1. Burst * Window <= (4 * Limit) * Window
  BY BucketAssumption, SMT
<1>2. (4 * Limit) * Window = (4 * Window) * Limit
  BY BucketAssumption, SMT
<1> QED
  BY <1>1, <1>2 DEF Capacity, Lifetime

-----------------------------------------------------------------------------
(* The invariant *)

\* The initial bucket is full and nothing is owed.
LEMMA BucketInit == Init => BucketInv
<1> SUFFICES ASSUME Init PROVE BucketInv
  OBVIOUS
<1>1. TypeOK
  <2>1. 0 \in 0 .. Capacity /\ Capacity \in 0 .. Capacity /\ 0 \in 0 .. MaxRaces /\ 0 \in 0 .. now
    BY Amounts, BucketAssumption DEF Init
  <2> QED
    BY <2>1 DEF Init, TypeOK
<1>2. Timely
  BY DEF Init, Timely
<1>3. Level = Capacity /\ debt = 0 /\ \A c \in Callers : pc[c] # "write"
  BY DEF Init, Level
<1>4. Generous /\ Accounts
  BY <1>3, Amounts DEF Generous, Accounts
<1> QED
  BY <1>1, <1>2, <1>4 DEF BucketInv

\* The level is between empty and full.
LEMMA LevelType ==
    ASSUME TypeOK
    PROVE  Level \in 0 .. Capacity
<1>1. now - ts \in Nat
  BY DEF TypeOK
<1>2. (now - ts) * Limit \in Nat
  BY <1>1, RefillStep
<1> QED
  BY <1>2, Amounts DEF TypeOK, Level, AtMost

\* Time passes: the debt shrinks as the bucket fills, and a key that expires
\* belongs to a bucket that is full again.
LEMMA TickKeeps ==
    ASSUME BucketInv, Tick
    PROVE  BucketInv'
<1> USE Amounts DEF BucketInv
<1> DEFINE filled == tokens + (now - ts) * Limit
<1>1. /\ now - ts \in Nat
      /\ (now - ts) * Limit \in Nat
      /\ (now' - ts) * Limit = (now - ts) * Limit + Limit
  <2>1. now - ts \in Nat /\ now' - ts = (now - ts) + 1
    BY DEF Tick, TypeOK
  <2> QED
    BY <2>1, RefillStep
<1>2. /\ filled \in Nat
      /\ tokens' + (now' - ts') * Limit = filled + Limit
  BY <1>1 DEF Tick, TypeOK
<1>3. TypeOK'
  BY DEF Tick, TypeOK, bucket, checks, AtLeastZero
<1>4. Timely'
  BY DEF Tick, TypeOK, Timely, bucket, checks
<1>5. Level = IF stored THEN AtMost(Capacity, filled) ELSE Capacity
  BY DEF Level
<1>6. Level' = IF stored' THEN AtMost(Capacity, filled + Limit) ELSE Capacity
  BY <1>2 DEF Level
<1>7. debt \in Nat /\ debt' = (IF debt - Limit < 0 THEN 0 ELSE debt - Limit)
  BY DEF Tick, TypeOK, AtLeastZero
<1>8. \A c \in Callers : pc'[c] # "write"
  BY DEF Tick, checks
<1>9. Generous'
  <2>1. Capacity - debt' <= Level'
    <3> HIDE DEF filled
    <3>1. CASE stored'
      <4>1. stored
        BY <3>1 DEF Tick
      <4>2. Capacity - debt <= AtMost(Capacity, filled)
        BY <4>1, <1>5 DEF Generous
      <4> QED
        BY <3>1, <4>2, <1>2, <1>6, <1>7 DEF AtMost
    <3>2. CASE ~stored'
      BY <3>2, <1>6, <1>7
    <3> QED
      BY <3>1, <3>2
  <2> QED
    BY <2>1, <1>8 DEF Generous
<1>10. Accounts'
  <2> SUFFICES ASSUME Exact'
               PROVE  Capacity - debt' = Level'
    BY <1>8 DEF Accounts
  <2>1. Capacity - debt = Level
    BY DEF Accounts, Exact, Tick
  <2>2. CASE stored /\ ~stored'
    <3>1. now' - ts = Lifetime
      <4>1. ~(now' < written + Lifetime)
        BY <2>2 DEF Tick
      <4>2. written = ts /\ now < ts + Lifetime
        BY <2>2 DEF Timely
      <4>3. now \in Nat /\ ts \in Nat /\ now' = now + 1
        BY DEF Tick, TypeOK
      <4> QED
        BY <4>1, <4>2, <4>3
    <3>2. Capacity <= filled + Limit
      BY <3>1, <1>1, <1>2, FullAtEndOfLife DEF Exact, TypeOK
    <3> HIDE DEF filled
    <3> QED
      BY <2>1, <2>2, <3>2, <1>2, <1>5, <1>6, <1>7 DEF AtMost
  <2>3. CASE stored = stored'
    <3> HIDE DEF filled
    <3> QED
      BY <2>1, <2>3, <1>2, <1>5, <1>6, <1>7 DEF AtMost
  <2> QED
    BY <2>2, <2>3 DEF Tick, TypeOK
<1> QED
  BY <1>3, <1>4, <1>9, <1>10

\* Reading the clock changes nothing the invariant speaks of.
LEMMA ReadClockKeeps ==
    ASSUME BucketInv, NEW c \in Callers, ReadClock(c)
    PROVE  BucketInv'
<1> USE Amounts DEF BucketInv, ReadClock, bucket
<1>1. TypeOK'
  BY DEF TypeOK
<1>2. Timely'
  BY DEF TypeOK, Timely
<1>3. Level' = Level /\ (Exact' <=> Exact)
  BY DEF Level, Exact
<1>4. Generous'
  BY <1>3 DEF TypeOK, Generous
<1>5. Accounts'
  BY <1>3 DEF TypeOK, Accounts
<1> QED
  BY <1>1, <1>2, <1>4, <1>5

\* A check goes by the level the bucket has when it reads it.
LEMMA GetKeeps ==
    ASSUME BucketInv, NEW c \in Callers, Get(c)
    PROVE  BucketInv'
<1> USE Amounts DEF BucketInv, Get, bucket
<1>1. Refilled(c) = Level
  <2>1. clock[c] = now /\ now \in Nat /\ ts \in 0 .. now
    BY DEF TypeOK, Timely
  <2>2. AtLeastZero(clock[c] - ts) = now - ts
    BY <2>1 DEF AtLeastZero
  <2> QED
    BY <2>2 DEF Refilled, Level
<1>2. TypeOK'
  BY <1>1, LevelType DEF TypeOK
<1>3. Timely'
  BY DEF TypeOK, Timely
<1>4. Level' = Level /\ (Exact' <=> Exact)
  BY DEF Level, Exact
<1>5. Generous'
  BY <1>1, <1>4 DEF TypeOK, Generous
<1>6. Accounts'
  BY <1>1, <1>4 DEF TypeOK, Accounts
<1> QED
  BY <1>2, <1>3, <1>5, <1>6

\* A check writes back what it leaves of its level, and owes what it took.
LEMMA SetKeeps ==
    ASSUME BucketInv, NEW c \in Callers, pc[c] = "write",
           NEW taken \in Nat, taken <= level[c],
           Set(c, level[c] - taken), debt' = debt + taken
    PROVE  BucketInv'
<1> USE Amounts DEF BucketInv, Set
<1>1. clock[c] = now /\ clock[c] \in Nat /\ level[c] \in 0 .. Capacity
  BY DEF TypeOK, Timely
<1>2. TypeOK'
  BY <1>1 DEF TypeOK
<1>3. Timely'
  <2>1. Lifetime > 0
    BY BucketAssumption DEF Lifetime
  <2> QED
    BY <1>1, <2>1 DEF TypeOK, Timely
<1>4. Level' = level[c] - taken
  <2>1. (now' - ts') * Limit = 0
    BY <1>1 DEF TypeOK
  <2> QED
    BY <1>1, <2>1 DEF Level, AtMost
<1>5. \A d \in Callers : pc'[d] = "write" => d # c /\ pc[d] = "write" /\ level'[d] = level[d]
  BY DEF TypeOK
<1>6. Generous'
  BY <1>1, <1>4, <1>5 DEF TypeOK, Generous
<1>7. Accounts'
  <2> SUFFICES ASSUME Exact'
               PROVE  /\ Capacity - debt' = Level'
                      /\ \A d \in Callers : pc'[d] # "write"
    BY DEF Accounts
  <2>1. Exact /\ ~\E d \in Callers \ {c} : pc[d] = "write"
    BY DEF Exact, TypeOK
  <2>2. Capacity - debt = level[c]
    BY <2>1 DEF Accounts
  <2> QED
    BY <2>1, <2>2, <1>1, <1>4, <1>5 DEF TypeOK
<1> QED
  BY <1>2, <1>3, <1>6, <1>7

\* The invariant holds in every reachable state.
THEOREM BucketInvariant == Spec => []BucketInv
<1>1. Init => BucketInv
  BY BucketInit
<1>2. BucketInv /\ [Next]_vars => BucketInv'
  <2> SUFFICES ASSUME BucketInv, [Next]_vars
               PROVE  BucketInv'
    OBVIOUS
  <2>1. CASE Tick
    BY <2>1, TickKeeps
  <2>2. ASSUME NEW c \in Callers, Check(c)
        PROVE  BucketInv'
    <3>1. CASE ReadClock(c)
      BY <3>1, ReadClockKeeps
    <3>2. CASE Get(c)
      BY <3>2, GetKeeps
    <3>3. ASSUME NEW cost \in Costs, Admit(c, cost)
          PROVE  BucketInv'
      BY <3>3, Amounts, SetKeeps DEF Admit
    <3>4. ASSUME NEW cost \in Costs, Deny(c, cost)
          PROVE  BucketInv'
      <4>1. level[c] \in Nat /\ debt \in Nat
        BY Amounts DEF BucketInv, TypeOK
      <4>2. Set(c, level[c] - 0) /\ debt' = debt + 0 /\ pc[c] = "write"
        BY <3>4, <4>1 DEF Deny
      <4> QED
        BY <4>1, <4>2, SetKeeps
    <3> QED
      BY <2>2, <3>1, <3>2, <3>3, <3>4 DEF Check
  <2>3. CASE UNCHANGED vars
    BY <2>3 DEF vars, bucket, checks, BucketInv, TypeOK, Timely, Generous, Accounts, Level, Exact
  <2> QED
    BY <2>1, <2>2, <2>3 DEF Next
<1> QED
  BY <1>1, <1>2, PTL DEF Spec

\* "Controlled bursts up to capacity while refilling at rate": until checks race,
\* nothing beyond a full bucket and the refill is admitted over any stretch.
THEOREM RateHolds == Spec => []WithinRate
<1>1. BucketInv => WithinRate
  BY LevelType, Amounts DEF BucketInv, Accounts, Exact, WithinRate, TypeOK
<1> QED
  BY <1>1, BucketInvariant, PTL

\* However checks overlap and keys expire, a request is denied only when
\* admitting it would exceed a full bucket and the refill.
THEOREM DenialsAreEarned == Spec => DenialIsEarned
<1>1. BucketInv => \A c \in Callers, cost \in Costs :
                     Deny(c, cost) => debt + cost * Window > Capacity
  BY Amounts DEF BucketInv, Generous, TypeOK, Deny
<1>2. BucketInv /\ [Next]_vars =>
        [\A c \in Callers, cost \in Costs :
            Deny(c, cost) => debt + cost * Window > Capacity]_vars
  BY <1>1
<1> QED
  BY <1>2, BucketInvariant, PTL DEF Spec, DenialIsEarned
=============================================================================
