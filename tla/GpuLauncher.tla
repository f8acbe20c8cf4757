---------------------------- MODULE GpuLauncher ----------------------------
(***************************************************************************)
(* mixle_mlops/compute/launcher.py: launch() on rented vast.ai boxes, with *)
(* the destroy/confirm loop of vast.py.  The caller's thread and one       *)
(* daemon Timer per boot attempt talk to the provider; `box' is the        *)
(* provider's truth, which the launcher sees only through replies.         *)
(* The provider (external) may refuse an offer, create a box and lose the  *)
(* reply, accept a DELETE without acting on it, and answer a GET with an   *)
(* error or, when the body is not JSON, with nothing.                      *)
(***************************************************************************)
EXTENDS Integers, FiniteSets

CONSTANTS
    NumOffers,      \* offers search_offers returned, cheapest first
    MaxAttempts,    \* max(1, job.provision_attempts)
    MaxPolls        \* polls within destroy_confirmed's timeout

ASSUME LauncherAssumption ==
    /\ NumOffers \in Nat \ {0}
    /\ MaxAttempts \in Nat \ {0}
    /\ MaxPolls \in Nat

Offers == 1 .. NumOffers
Main == 0                           \* the caller's thread as a destroyer
Destroyers == {Main} \cup Offers    \* o: the watchdog of the box rented from offer o

VARIABLES
    mode,       \* job.mode: "ssh" or "onstart"
    box,        \* box[o]: none, live or gone at the provider
    current,    \* the offer the loop is at
    attempts,   \* boot_attempts
    pc,         \* the caller's thread: offer, wait, run, hung, destroy or end
    after,      \* what follows the destruction: next, return or raise
    outcome,    \* running, trained, launched or failed
    watchdog,   \* watchdog[o]: off, armed, firing or over
    stage,      \* stage[d]: a destroyer is idle, about to delete, or to check
    polls,      \* polls[d]: DELETEs re-issued by a destroyer
    warned,     \* boxes reported as possibly still billing
    lost,       \* boxes whose creation reply was lost (history)
    misread     \* boxes a status reply without JSON was received for (history)

main == <<mode, current, attempts, pc, after, outcome>>
destroying == <<stage, polls, warned>>
replies == <<lost, misread>>
vars == <<box, main, watchdog, destroying, replies>>

TypeOK ==
    /\ mode \in {"ssh", "onstart"}
    /\ box \in [Offers -> {"none", "live", "gone"}]
    /\ current \in 1 .. NumOffers + 1
    /\ attempts \in 0 .. MaxAttempts
    /\ pc \in {"offer", "wait", "run", "hung", "destroy", "end"}
    /\ after \in {"next", "return", "raise"}
    /\ outcome \in {"running", "trained", "launched", "failed"}
    /\ watchdog \in [Offers -> {"off", "armed", "firing", "over"}]
    /\ stage \in [Destroyers -> {"idle", "delete", "check"}]
    /\ polls \in [Destroyers -> 0 .. MaxPolls]
    /\ {warned, lost, misread} \subseteq SUBSET Offers

Init ==
    /\ mode \in {"ssh", "onstart"}
    /\ box = [o \in Offers |-> "none"]
    /\ current = 1
    /\ attempts = 0
    /\ pc = "offer"
    /\ after = "next"
    /\ outcome = "running"
    /\ watchdog = [o \in Offers |-> "off"]
    /\ stage = [d \in Destroyers |-> "idle"]
    /\ polls = [d \in Destroyers |-> 0]
    /\ warned = {}
    /\ lost = {}
    /\ misread = {}

-----------------------------------------------------------------------------
(* the offers loop *)

\* The loop takes another offer; _provision has no boot-attempt budget.
MayRent ==
    /\ pc = "offer"
    /\ current \in Offers
    /\ mode = "ssh" => attempts < MaxAttempts

\* create_instance raises: the offer is stale, or the request failed.
RentRefused ==
    /\ MayRent
    /\ current' = current + 1
    /\ UNCHANGED <<box, mode, attempts, pc, after, outcome, watchdog, destroying, replies>>

\* The provider creates the box, but the reply is lost or carries no id.
RentReplyLost ==
    /\ MayRent
    /\ lost' = lost \cup {current}
    /\ box' = [box EXCEPT ![current] = "live"]
    /\ current' = current + 1
    /\ UNCHANGED <<mode, attempts, pc, after, outcome, watchdog, destroying, misread>>

RentForSsh ==
    /\ mode = "ssh"
    /\ MayRent
    /\ box' = [box EXCEPT ![current] = "live"]
    /\ attempts' = attempts + 1
    /\ watchdog' = [watchdog EXCEPT ![current] = "armed"]
    /\ pc' = "wait"
    /\ UNCHANGED <<mode, current, after, outcome, destroying, replies>>

\* The unattended mode returns at once: no watchdog, no destruction.
RentForOnstart ==
    /\ mode = "onstart"
    /\ MayRent
    /\ box' = [box EXCEPT ![current] = "live"]
    /\ pc' = "end"
    /\ outcome' = "launched"
    /\ UNCHANGED <<mode, current, attempts, after, watchdog, destroying, replies>>

GiveUp ==
    /\ pc = "offer"
    /\ ~MayRent
    /\ pc' = "end"
    /\ outcome' = "failed"
    /\ UNCHANGED <<box, mode, current, attempts, after, watchdog, destroying, replies>>

-----------------------------------------------------------------------------
(* one boot attempt *)

\* The finally clause: cancel the watchdog (without effect once it fires), then
\* destroy the box and go on as `next' says.
Finally(next) ==
    /\ watchdog' = [watchdog EXCEPT ![current] = IF @ = "armed" THEN "off" ELSE @]
    /\ pc' = "destroy"
    /\ after' = next
    /\ stage' = [stage EXCEPT ![Main] = "delete"]
    /\ polls' = [polls EXCEPT ![Main] = 0]
    /\ UNCHANGED <<box, mode, current, attempts, outcome, warned, replies>>

Reachable ==
    /\ pc = "wait"
    /\ box[current] = "live"
    /\ pc' = "run"
    /\ UNCHANGED <<box, mode, current, attempts, after, outcome, watchdog, destroying, replies>>

\* The boot timeout passes, or one status request fails.
Unreachable == pc = "wait" /\ Finally("next")

\* The remote commands, the download and the registration succeed (the box may
\* have gone since the download).
JobSucceeds == pc = "run" /\ Finally("return")

\* A remote command raises, perhaps because its box has been destroyed.
JobFails == pc \in {"run", "hung"} /\ Finally("raise")

\* A remote command never returns.
JobHangs ==
    /\ pc = "run"
    /\ pc' = "hung"
    /\ UNCHANGED <<box, mode, current, attempts, after, outcome, watchdog, destroying, replies>>

-----------------------------------------------------------------------------
(* _safe_destroy and destroy_confirmed, by the caller or by a watchdog *)

BoxOf(d) == IF d = Main THEN current ELSE d

\* The destroyer is done with its box: the watchdog is over, the caller goes on.
Release(d) ==
    /\ stage' = [stage EXCEPT ![d] = "idle"]
    /\ IF d = Main
       THEN /\ pc' = IF after = "next" THEN "offer" ELSE "end"
            /\ current' = IF after = "next" THEN current + 1 ELSE current
            /\ outcome' = CASE after = "next"   -> outcome
                            [] after = "return" -> "trained"
                            [] after = "raise"  -> "failed"
            /\ UNCHANGED watchdog
       ELSE /\ watchdog' = [watchdog EXCEPT ![d] = "over"]
            /\ UNCHANGED <<pc, current, outcome>>
    /\ UNCHANGED <<box, mode, attempts, after, polls, lost>>

\* DELETE: the provider terminates the box, or answers (2xx or an error)
\* without doing so.
Delete(d) ==
    /\ stage[d] = "delete"
    /\ stage' = [stage EXCEPT ![d] = "check"]
    /\ \/ box' = [box EXCEPT ![BoxOf(d)] = "gone"]
       \/ UNCHANGED box
    /\ UNCHANGED <<main, watchdog, polls, warned, replies>>

\* Mutated form of SeenGone: a status request that fails counts as gone.
SeenGoneOnError(d) ==
    /\ stage[d] = "check"
    /\ UNCHANGED <<warned, misread>>
    /\ Release(d)

\* is_gone: nothing comes back for the box.
SeenGone(d) ==
    /\ stage[d] = "check"
    /\ box[BoxOf(d)] = "gone"
    /\ UNCHANGED <<warned, misread>>
    /\ Release(d)

\* is_gone: a 2xx reply whose body is not JSON is read as nothing, too.
SeenBlank(d) ==
    /\ stage[d] = "check"
    /\ misread' = misread \cup {BoxOf(d)}
    /\ UNCHANGED warned
    /\ Release(d)

\* Mutated form of SeenAlive: the DELETE is issued again whatever the time.
SeenAliveForEver(d) ==
    /\ stage[d] = "check"
    /\ stage' = [stage EXCEPT ![d] = "delete"]
    /\ UNCHANGED <<box, main, watchdog, polls, warned, replies>>

\* The box is still there, or the request failed: the DELETE is issued again.
SeenAlive(d) ==
    /\ stage[d] = "check"
    /\ polls[d] < MaxPolls
    /\ polls' = [polls EXCEPT ![d] = @ + 1]
    /\ stage' = [stage EXCEPT ![d] = "delete"]
    /\ UNCHANGED <<box, main, watchdog, warned, replies>>

\* The timeout passes with the box still there: the user is warned.
TimesUp(d) ==
    /\ stage[d] = "check"
    /\ warned' = warned \cup {BoxOf(d)}
    /\ UNCHANGED misread
    /\ Release(d)

Destroy(d) == Delete(d) \/ SeenGone(d) \/ SeenBlank(d) \/ SeenAlive(d) \/ TimesUp(d)

\* Mutated form of WatchdogFires: the cap does not reach a box still booting.
WatchdogFiresInRun(o) ==
    /\ pc = "run"
    /\ watchdog[o] = "armed"
    /\ watchdog' = [watchdog EXCEPT ![o] = "firing"]
    /\ stage' = [stage EXCEPT ![o] = "delete"]
    /\ UNCHANGED <<box, main, polls, warned, replies>>

\* max_runtime_min has passed since the box was rented.
WatchdogFires(o) ==
    /\ watchdog[o] = "armed"
    /\ watchdog' = [watchdog EXCEPT ![o] = "firing"]
    /\ stage' = [stage EXCEPT ![o] = "delete"]
    /\ UNCHANGED <<box, main, polls, warned, replies>>

-----------------------------------------------------------------------------
Loop == RentRefused \/ RentReplyLost \/ RentForSsh \/ RentForOnstart \/ GiveUp
Attempt == Reachable \/ Unreachable \/ JobSucceeds \/ JobFails \/ JobHangs

Next ==
    \/ Loop
    \/ Attempt
    \/ \E d \in Destroyers : Destroy(d)
    \/ \E o \in Offers : WatchdogFires(o)

Spec == Init /\ [][Next]_vars

\* Timers fire, the provider's replies or the HTTP timeouts come, the boot ends
\* within its timeout; a command that hangs may do so for ever.
FairSpec ==
    /\ Spec
    /\ \A d \in Destroyers : WF_vars(Destroy(d))
    /\ \A o \in Offers : WF_vars(WatchdogFires(o))
    /\ WF_vars(Loop)
    /\ WF_vars(Attempt /\ pc # "hung")

-----------------------------------------------------------------------------
(* Properties *)

InHand(o) == o = current /\ pc \in {"wait", "run", "hung", "destroy"}
Unattended(o) == o = current /\ outcome = "launched"

\* "Nothing leaks" (launcher.py): a live box is the one the loop is working on,
\* or the one an unattended launch returned, or the user has been warned of it.
\* What can leak is a box of which the provider's reply could not be used.
NothingLeaks ==
    \A o \in Offers : box[o] = "live" =>
        InHand(o) \/ Unattended(o) \/ o \in warned \cup lost \cup misread

\* No more boxes are booted than the boot-attempt budget allows, though stale
\* offers and lost replies do not count.
BootedWithinBudget ==
    mode = "ssh" => Cardinality({o \in Offers \ lost : box[o] # "none"}) <= MaxAttempts

\* The hard cap: whatever hangs, a box rented by the attended mode ends up gone
\* or reported.
HardCap ==
    \A o \in Offers : mode = "ssh" /\ box[o] = "live" ~>
        box[o] = "gone" \/ o \in warned \cup lost \cup misread

\* Unless a remote command hangs, launch returns or raises.
LaunchEnds == <>(pc \in {"hung", "end"})
=============================================================================
