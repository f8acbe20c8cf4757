---------------------------- MODULE TokenBucket ----------------------------
(***************************************************************************)
(* RateLimiter's token bucket for one identity                             *)
(* (mixle_mlops/cache/ratelimit.py, _check_token_bucket): the bucket is    *)
(* one value in the cache, read, refilled for the time since it was        *)
(* written, and written back with a time to live of four windows.  The     *)
(* cache offers no compare-and-set, so a check is three steps: the clock,  *)
(* the read, and the write with the verdict.                               *)
(*                                                                         *)
(* A token is Window units here and a tick refills Limit units, so that    *)
(* the source's rate = limit / window is exact.                            *)
(***************************************************************************)
EXTENDS Integers

CONSTANTS
    Callers,        \* replicas or threads that check at the same time
    Burst,          \* the bucket's capacity, in tokens
    Limit, Window,  \* Limit tokens are refilled in Window ticks
    Costs,          \* what a request may cost, in tokens
    MaxTime,        \* bound on the clock
    MaxRaces        \* bound on the checks that overwrite another's

ASSUME BucketAssumption ==
    /\ {Burst, Limit, Window} \subseteq Nat \ {0}
    /\ Costs \subseteq Nat \ {0}
    /\ {MaxTime, MaxRaces} \subseteq Nat

Capacity == Burst * Window

\* Mutated form of Lifetime: the key lives as long as a window's counter.
LifetimeOfWindow == Window

Lifetime == 4 * Window

VARIABLES
    now,        \* the clock
    stored,     \* TRUE when the key is in the cache
    tokens, ts, \* the stored bucket
    written,    \* when it was stored last, which starts its lifetime
    pc,         \* pc[c]: idle, read or write
    clock,      \* clock[c]: the `now' of the check
    level,      \* level[c]: the refilled level the check goes by
    debt,       \* history: how far the admitted traffic is ahead of the rate
    races       \* history: writes that made another check's bucket stale

bucket == <<stored, tokens, ts, written>>
checks == <<pc, clock, level>>
vars == <<now, bucket, checks, debt, races>>

TypeOK ==
    /\ now \in Nat
    /\ stored \in BOOLEAN
    /\ tokens \in 0 .. Capacity
    /\ ts \in 0 .. now
    /\ written \in 0 .. now
    /\ pc \in [Callers -> {"idle", "read", "write"}]
    /\ clock \in [Callers -> 0 .. now]
    /\ level \in [Callers -> 0 .. Capacity]
    /\ debt \in Nat
    /\ races \in 0 .. MaxRaces

Init ==
    /\ now = 0
    /\ stored = FALSE
    /\ tokens = Capacity
    /\ ts = 0
    /\ written = 0
    /\ pc = [c \in Callers |-> "idle"]
    /\ clock = [c \in Callers |-> 0]
    /\ level = [c \in Callers |-> 0]
    /\ debt = 0
    /\ races = 0

-----------------------------------------------------------------------------
AtMost(cap, n) == IF n > cap THEN cap ELSE n
AtLeastZero(n) == IF n < 0 THEN 0 ELSE n

\* The bucket a check sees: absent means full, present means refilled since ts.
Refilled(c) ==
    IF stored
    THEN AtMost(Capacity, tokens + AtLeastZero(clock[c] - ts) * Limit)
    ELSE Capacity

\* A window later by a fraction.  Checks take no time that counts at this scale;
\* the key is dropped when its lifetime is over.
Tick ==
    /\ now < MaxTime
    /\ \A c \in Callers : pc[c] = "idle"
    /\ now' = now + 1
    /\ stored' = (stored /\ now' < written + Lifetime)
    /\ debt' = AtLeastZero(debt - Limit)
    /\ UNCHANGED <<tokens, ts, written, checks, races>>

ReadClock(c) ==
    /\ pc[c] = "idle"
    /\ clock' = [clock EXCEPT ![c] = now]
    /\ pc' = [pc EXCEPT ![c] = "read"]
    /\ UNCHANGED <<now, bucket, level, debt, races>>

Get(c) ==
    /\ pc[c] = "read"
    /\ level' = [level EXCEPT ![c] = Refilled(c)]
    /\ pc' = [pc EXCEPT ![c] = "write"]
    /\ UNCHANGED <<now, bucket, clock, debt, races>>

Set(c, n) ==
    /\ stored' = TRUE
    /\ tokens' = n
    /\ ts' = clock[c]
    /\ written' = now
    /\ pc' = [pc EXCEPT ![c] = "idle"]
    /\ races' = races + IF \E d \in Callers \ {c} : pc[d] = "write" THEN 1 ELSE 0
    /\ races' <= MaxRaces
    /\ clock' = [clock EXCEPT ![c] = 0]
    /\ level' = [level EXCEPT ![c] = 0]
    /\ UNCHANGED now

Admit(c, cost) ==
    /\ pc[c] = "write"
    /\ level[c] >= cost * Window
    /\ Set(c, level[c] - cost * Window)
    /\ debt' = debt + cost * Window

\* Mutated form of Deny: a denied request is charged what it asked for.
DenyCharged(c, cost) ==
    /\ pc[c] = "write"
    /\ level[c] < cost * Window
    /\ Set(c, 0)
    /\ UNCHANGED debt

\* A denial stores the refilled bucket too, and so renews its lifetime.
Deny(c, cost) ==
    /\ pc[c] = "write"
    /\ level[c] < cost * Window
    /\ Set(c, level[c])
    /\ UNCHANGED debt

Check(c) == ReadClock(c) \/ Get(c) \/ \E cost \in Costs : Admit(c, cost) \/ Deny(c, cost)

Next == Tick \/ \E c \in Callers : Check(c)

Spec == Init /\ [][Next]_vars

-----------------------------------------------------------------------------
(* Properties *)

\* "Controlled bursts up to capacity while refilling at rate" (ratelimit.py):
\* over no stretch of time is more admitted than a full bucket and what the
\* rate refills in that stretch.  debt is the largest excess over any stretch
\* that ends now.  It takes a bucket that is full again within the lifetime of
\* its key, and checks that do not overlap.
WithinRate == Burst <= 4 * Limit /\ races = 0 => debt <= Capacity

\* Overlapping checks and expiry only ever favour the caller: a request is denied
\* only when admitting it would break the promise of WithinRate.
DenialIsEarned ==
    [][\A c \in Callers, cost \in Costs :
            Deny(c, cost) => debt + cost * Window > Capacity]_vars
=============================================================================
