---------------------------- MODULE FixedWindow ----------------------------
(***************************************************************************)
(* The chat route's rate limit for one identity: RateLimiter's fixed       *)
(* window (mixle_mlops/cache/ratelimit.py) over the counters of memory.py  *)
(* or redis_cache.py, with the gate of routes/chat.py that lets a request  *)
(* through when the cache fails.  Each gateway replica checks one request  *)
(* at a time (the check never awaits); replicas share a Redis server.      *)
(* Every request costs 1, the only cost the route asks for.                *)
(***************************************************************************)
EXTENDS Integers, FiniteSets, FiniteSetsExt

CONSTANTS
    Replicas,
    Limit,          \* MIXLE_RATE_LIMIT_PER_MIN
    Window,         \* ticks of the clock in a window
    MaxTime,        \* bound on the clock
    MaxServed,      \* bound on the requests checked per window
    MaxFailures     \* bound on the failing calls to the cache

ASSUME FixedWindowAssumption ==
    /\ IsFiniteSet(Replicas)
    /\ Limit \in Nat \ {0}
    /\ Window \in Nat \ {0}
    /\ {MaxTime, MaxServed, MaxFailures} \subseteq Nat

Never == MaxTime + Window + 1       \* past any expiry the clock reaches
Windows == 0 .. MaxTime \div Window

VARIABLES
    redis,      \* TRUE: RedisCache; FALSE: MemoryCache, and one process
    now,        \* the clock, of the replicas and of the cache
    count,      \* count[w]: the counter of window w, 0 when the key is absent
    expires,    \* expires[w]: when the cache drops it
    pc,         \* pc[r]: idle, incr (window known) or arm (first write done)
    window,     \* window[r]: the window the check at r counts in
    admitted,   \* admitted[w]: requests of window w let through by the limiter
    late,       \* late[w]: those let through when window w was over
    denied,     \* denied[w]: requests of window w answered 429
    unmetered   \* unmetered[w]: requests served because the cache failed

counters == <<count, expires>>
results == <<admitted, late, denied, unmetered>>
vars == <<redis, now, counters, pc, window, results>>

TypeOK ==
    /\ redis \in BOOLEAN
    /\ now \in 0 .. MaxTime
    /\ count \in [Windows -> Nat]
    /\ expires \in [Windows -> 0 .. Never]
    /\ pc \in [Replicas -> {"idle", "incr", "arm"}]
    /\ window \in [Replicas -> Windows]
    /\ admitted \in [Windows -> Nat]
    /\ late \in [Windows -> Nat]
    /\ denied \in [Windows -> Nat]
    /\ unmetered \in [Windows -> Nat]

Zero == [w \in Windows |-> 0]

Init ==
    /\ redis \in BOOLEAN
    /\ now = 0
    /\ count = Zero
    /\ expires = [w \in Windows |-> Never]
    /\ pc = [r \in Replicas |-> "idle"]
    /\ window = [r \in Replicas |-> 0]
    /\ admitted = Zero
    /\ late = Zero
    /\ denied = Zero
    /\ unmetered = Zero

-----------------------------------------------------------------------------
\* The cache drops an expired key when it is due (Redis) or when it is next
\* touched (MemoryCache): nobody sees the difference.
Tick ==
    /\ now < MaxTime
    /\ now' = now + 1
    /\ count' = [w \in Windows |-> IF expires[w] <= now' THEN 0 ELSE count[w]]
    /\ expires' = [w \in Windows |-> IF expires[w] <= now' THEN Never ELSE expires[w]]
    /\ UNCHANGED <<redis, pc, window, results>>

\* _window_key
ReadWindow(r) ==
    /\ pc[r] = "idle"
    /\ ~redis => \A other \in Replicas : pc[other] = "idle"
    /\ LET w == now \div Window IN
        /\ admitted[w] + denied[w] + unmetered[w] < MaxServed
        /\ window' = [window EXCEPT ![r] = w]
    /\ pc' = [pc EXCEPT ![r] = "incr"]
    /\ UNCHANGED <<redis, now, counters, results>>

AdmitIn(w) ==
    /\ admitted' = [admitted EXCEPT ![w] = @ + 1]
    /\ late' = [late EXCEPT ![w] = @ + IF now \div Window > w THEN 1 ELSE 0]
    /\ UNCHANGED denied

DenyIn(w) ==
    /\ denied' = [denied EXCEPT ![w] = @ + 1]
    /\ UNCHANGED <<admitted, late>>

\* Mutated form of Decide: one request more than the limit.
DecideOneMore(w, c) == IF c > Limit + 1 THEN DenyIn(w) ELSE AdmitIn(w)

\* Mutated form of Decide: the request that reaches the limit is denied.
DecideAtLimit(w, c) == IF c >= Limit THEN DenyIn(w) ELSE AdmitIn(w)

\* The comparison of _check_fixed_window.
Decide(w, c) == IF c > Limit THEN DenyIn(w) ELSE AdmitIn(w)

\* MemoryCache.incr, under its lock: the first write also sets the expiry.
IncrMemory(r) ==
    LET w == window[r] IN
    /\ ~redis
    /\ pc[r] = "incr"
    /\ count' = [count EXCEPT ![w] = @ + 1]
    /\ expires' = IF count[w] = 0 THEN [expires EXCEPT ![w] = now + Window] ELSE expires
    /\ Decide(w, count[w] + 1)
    /\ pc' = [pc EXCEPT ![r] = "idle"]
    /\ UNCHANGED <<redis, now, window, unmetered>>

\* Mutated form of IncrRedis: the counter is read, then written back.
IncrRedisStale(r) ==
    LET w == window[r] IN
    /\ redis
    /\ pc[r] = "incr"
    /\ \E seen \in {count[w], count[w] - 1} \cap Nat :
        /\ count' = [count EXCEPT ![w] = seen + 1]
        /\ IF seen = 0
           THEN /\ pc' = [pc EXCEPT ![r] = "arm"]
                /\ UNCHANGED <<admitted, late, denied>>
           ELSE /\ pc' = [pc EXCEPT ![r] = "idle"]
                /\ Decide(w, seen + 1)
    /\ UNCHANGED <<redis, now, expires, window, unmetered>>

\* RedisCache.incr: INCRBY; the first write goes on to arm the expiry.
IncrRedis(r) ==
    LET w == window[r] IN
    /\ redis
    /\ pc[r] = "incr"
    /\ count' = [count EXCEPT ![w] = @ + 1]
    /\ IF count[w] = 0
       THEN /\ pc' = [pc EXCEPT ![r] = "arm"]
            /\ UNCHANGED <<admitted, late, denied>>
       ELSE /\ pc' = [pc EXCEPT ![r] = "idle"]
            /\ Decide(w, count[w] + 1)
    /\ UNCHANGED <<redis, now, expires, window, unmetered>>

\* PEXPIRE, which does nothing to a key that is absent, and the decision.
Arm(r) ==
    LET w == window[r] IN
    /\ pc[r] = "arm"
    /\ expires' = IF count[w] = 0 THEN expires ELSE [expires EXCEPT ![w] = now + Window]
    /\ Decide(w, 1)
    /\ pc' = [pc EXCEPT ![r] = "idle"]
    /\ UNCHANGED <<redis, now, count, window, unmetered>>

Failures == MapThenSumSet(LAMBDA w : unmetered[w], Windows)

\* A call to Redis raises: the route serves the request without a verdict.
CacheFails(r) ==
    /\ redis
    /\ pc[r] # "idle"
    /\ Failures < MaxFailures
    /\ pc' = [pc EXCEPT ![r] = "idle"]
    /\ unmetered' = [unmetered EXCEPT ![window[r]] = @ + 1]
    /\ UNCHANGED <<redis, now, counters, window, admitted, late, denied>>

-----------------------------------------------------------------------------
Check(r) == ReadWindow(r) \/ IncrMemory(r) \/ IncrRedis(r) \/ Arm(r) \/ CacheFails(r)

Next == Tick \/ \E r \in Replicas : Check(r)

Spec == Init /\ [][Next]_vars

-----------------------------------------------------------------------------
(* Properties *)

Pending(w) == {r \in Replicas : pc[r] = "arm" /\ window[r] = w}

\* "limit requests per window seconds" (ratelimit.py): however the replicas'
\* checks interleave, no more than Limit requests of a window are let through
\* before its end; and a check that lasts beyond the end of its window finds a
\* counter that has expired at most once per replica, as a counter expires a full
\* window after its first count.
WithinLimit ==
    \A w \in Windows :
        /\ admitted[w] - late[w] <= Limit
        /\ admitted[w] <= Limit + Cardinality(Replicas)

\* A request is answered 429 only when Limit others of its window have been
\* counted, and each of those was let through, is about to be, or was served
\* because the cache failed: no window is ever shut by a lost or leaked count.
DenialIsEarned ==
    \A w \in Windows : denied[w] > 0 =>
        admitted[w] + unmetered[w] + Cardinality(Pending(w)) >= Limit

\* A counter has an expiry as soon as no check is about to give it one, unless
\* the cache failed in between: of the racing first writes exactly one arms it.
EveryCounterExpires ==
    \A w \in Windows : count[w] > 0 /\ expires[w] = Never =>
        Pending(w) # {} \/ unmetered[w] > 0
=============================================================================
