---------------------------- MODULE DeviceGrant ----------------------------
(***************************************************************************)
(* One RFC 8628 device code: mixle_mlops/accounts/devicecode.py, the       *)
(* /auth/device/* routes, and service.create_api_key.  The handlers are    *)
(* sync routes on threadpool threads, each with a session of its own: a    *)
(* handler SELECTs the row, decides on what it read, and COMMITs an UPDATE *)
(* of the columns it assigned.  No statement tests the old status, so a    *)
(* read and its write are two steps that other requests come between.      *)
(***************************************************************************)
EXTENDS Integers, Sequences

CONSTANTS
    Users,
    NoUser,
    Approvers,      \* concurrent POST /auth/device/approve requests
    Deniers,        \* concurrent POST /auth/device/deny requests
    Pollers,        \* concurrent POST /auth/device/token requests of the device
    MaxCrashes      \* bound on the polls that die half way

ASSUME GrantAssumption ==
    /\ NoUser \notin Users
    /\ MaxCrashes \in Nat

VARIABLES
    alone,      \* TRUE: requests happen to come one at a time, and none dies
    status,     \* DeviceCode.status
    userId,     \* DeviceCode.user_id
    expired,    \* expires_at has passed
    keys,       \* owners of the ApiKey rows minted for this code, in order
    answers,    \* final answers the device has received (history)
    approving,  \* approving[a]: the user about to be written, or NoUser
    denying,    \* deny requests that have read a pending row
    polling,    \* polling[p]: idle, expire, mint or claim
    owner,      \* owner[p]: the user a poll mints for
    crashes

row == <<status, userId>>
requests == <<approving, denying, polling, owner>>
vars == <<alone, row, expired, keys, answers, requests, crashes>>

Statuses == {"pending", "approved", "denied", "claimed", "expired"}

TypeOK ==
    /\ alone \in BOOLEAN
    /\ status \in Statuses
    /\ userId \in Users \cup {NoUser}
    /\ expired \in BOOLEAN
    /\ keys \in Seq(Users)
    /\ answers \subseteq {"approved", "denied", "expired"}
    /\ approving \in [Approvers -> Users \cup {NoUser}]
    /\ denying \subseteq Deniers
    /\ polling \in [Pollers -> {"idle", "expire", "mint", "claim"}]
    /\ owner \in [Pollers -> Users \cup {NoUser}]
    /\ crashes \in Nat

\* new_device_code
Init ==
    /\ alone \in BOOLEAN
    /\ status = "pending"
    /\ userId = NoUser
    /\ expired = FALSE
    /\ keys = <<>>
    /\ answers = {}
    /\ approving = [a \in Approvers |-> NoUser]
    /\ denying = {}
    /\ polling = [p \in Pollers |-> "idle"]
    /\ owner = [p \in Pollers |-> NoUser]
    /\ crashes = 0

\* No request is between its read and its write.
Quiet ==
    /\ \A a \in Approvers : approving[a] = NoUser
    /\ denying = {}
    /\ \A p \in Pollers : polling[p] = "idle"

MayStart == alone => Quiet

TimePasses ==
    /\ ~expired
    /\ MayStart
    /\ expired' = TRUE
    /\ UNCHANGED <<row, keys, answers, requests, crashes>>

-----------------------------------------------------------------------------
(* approve *)

ApproveRead(a) ==
    /\ approving[a] = NoUser
    /\ MayStart
    /\ status = "pending"
    /\ ~expired
    /\ \E u \in Users : approving' = [approving EXCEPT ![a] = u]
    /\ UNCHANGED <<row, expired, keys, answers, denying, polling, owner, crashes>>

ApproveWrite(a) ==
    /\ approving[a] # NoUser
    /\ status' = "approved"
    /\ userId' = approving[a]
    /\ approving' = [approving EXCEPT ![a] = NoUser]
    /\ UNCHANGED <<expired, keys, answers, denying, polling, owner, crashes>>

-----------------------------------------------------------------------------
(* deny: no test of the expiry time *)

\* Mutated form of DenyRead: the row is denied whatever its status.
DenyReadAny(d) ==
    /\ d \notin denying
    /\ MayStart
    /\ denying' = denying \cup {d}
    /\ UNCHANGED <<row, expired, keys, answers, approving, polling, owner, crashes>>

DenyRead(d) ==
    /\ d \notin denying
    /\ MayStart
    /\ status = "pending"
    /\ denying' = denying \cup {d}
    /\ UNCHANGED <<row, expired, keys, answers, approving, polling, owner, crashes>>

DenyWrite(d) ==
    /\ d \in denying
    /\ status' = "denied"
    /\ denying' = denying \ {d}
    /\ UNCHANGED <<userId, expired, keys, answers, approving, polling, owner, crashes>>

-----------------------------------------------------------------------------
(* poll *)

Answer(s) == answers' = answers \cup {s}

\* Mutated form of PollResolved: the device is told to go on polling.
PollResolvedPending(p) ==
    /\ polling[p] = "idle"
    /\ MayStart
    /\ status \in {"denied", "expired"}
    /\ UNCHANGED <<row, expired, keys, answers, requests, crashes>>

\* The row was resolved before the expiry time is looked at.
PollResolved(p) ==
    /\ polling[p] = "idle"
    /\ MayStart
    /\ status \in {"denied", "expired"}
    /\ Answer(status)
    /\ UNCHANGED <<row, expired, keys, requests, crashes>>

PollFindsExpired(p) ==
    /\ polling[p] = "idle"
    /\ MayStart
    /\ status \notin {"denied", "expired"}
    /\ expired
    /\ polling' = [polling EXCEPT ![p] = "expire"]
    /\ UNCHANGED <<row, expired, keys, answers, approving, denying, owner, crashes>>

PollClaimed(p) ==
    /\ polling[p] = "idle"
    /\ MayStart
    /\ status = "claimed"
    /\ ~expired
    /\ Answer("expired")
    /\ UNCHANGED <<row, expired, keys, requests, crashes>>

PollApproved(p) ==
    /\ polling[p] = "idle"
    /\ MayStart
    /\ status = "approved"
    /\ ~expired
    /\ userId # NoUser
    /\ polling' = [polling EXCEPT ![p] = "mint"]
    /\ owner' = [owner EXCEPT ![p] = userId]
    /\ UNCHANGED <<row, expired, keys, answers, approving, denying, crashes>>

PollExpire(p) ==
    /\ polling[p] = "expire"
    /\ status' = "expired"
    /\ polling' = [polling EXCEPT ![p] = "idle"]
    /\ Answer("expired")
    /\ UNCHANGED <<userId, expired, keys, approving, denying, owner, crashes>>

\* Mutated form of PollMint: the row is marked claimed before the key is committed.
PollMintAfterMarking(p) ==
    /\ polling[p] = "mint"
    /\ status' = "claimed"
    /\ polling' = [polling EXCEPT ![p] = "claim"]
    /\ UNCHANGED <<userId, expired, keys, answers, approving, denying, owner, crashes>>

\* create_api_key commits the key in a transaction of its own.
PollMint(p) ==
    /\ polling[p] = "mint"
    /\ keys' = Append(keys, owner[p])
    /\ polling' = [polling EXCEPT ![p] = "claim"]
    /\ UNCHANGED <<row, expired, answers, approving, denying, owner, crashes>>

PollClaim(p) ==
    /\ polling[p] = "claim"
    /\ status' = "claimed"
    /\ polling' = [polling EXCEPT ![p] = "idle"]
    /\ owner' = [owner EXCEPT ![p] = NoUser]
    /\ Answer("approved")
    /\ UNCHANGED <<userId, expired, keys, approving, denying, crashes>>

\* The request dies between two commits: a commit raises, or the process ends.
PollCrash(p) ==
    /\ polling[p] # "idle"
    /\ crashes < MaxCrashes
    /\ ~alone
    /\ crashes' = crashes + 1
    /\ polling' = [polling EXCEPT ![p] = "idle"]
    /\ owner' = [owner EXCEPT ![p] = NoUser]
    /\ UNCHANGED <<row, expired, keys, answers, approving, denying>>

-----------------------------------------------------------------------------
Poll(p) ==
    \/ PollResolved(p)
    \/ PollFindsExpired(p)
    \/ PollClaimed(p)
    \/ PollApproved(p)
    \/ PollExpire(p)
    \/ PollMint(p)
    \/ PollClaim(p)

Next ==
    /\ \/ TimePasses
       \/ \E a \in Approvers : ApproveRead(a) \/ ApproveWrite(a)
       \/ \E d \in Deniers : DenyRead(d) \/ DenyWrite(d)
       \/ \E p \in Pollers : Poll(p) \/ PollCrash(p)
    /\ UNCHANGED alone

Spec == Init /\ [][Next]_vars

\* Time passes, a request that has read the row writes it, and the device polls
\* until it has a final answer.
FairSpec ==
    /\ Spec
    /\ WF_vars(TimePasses /\ UNCHANGED alone)
    /\ \A a \in Approvers : WF_vars(ApproveWrite(a) /\ UNCHANGED alone)
    /\ \A d \in Deniers : WF_vars(DenyWrite(d) /\ UNCHANGED alone)
    /\ \A p \in Pollers : WF_vars(Poll(p) /\ UNCHANGED alone)

-----------------------------------------------------------------------------
(* Properties *)

\* The two commits of a poll are in the order that a crash between them cannot
\* turn into a claimed code whose token was never minted.
ClaimedHasToken == status = "claimed" => keys # <<>>

\* "One-shot: a device code yields a token exactly once" (devicecode.py).
OneShot == Len(keys) <= 1

\* A device that keeps polling is told to stop.
DeviceIsAnswered == <>(answers # {})

\* Requests that do not overlap make the row a one-shot grant: one verdict, and
\* one token if it is an approval.  A token counts from the claim that makes it
\* final.
Abstraction ==
    CASE status = "pending"  -> "open"
      [] status = "approved" -> "granted"
      [] status = "denied"   -> "refused"
      [] status = "expired"  -> "lapsed"
      [] status = "claimed"  -> "redeemed"

InClaim == \E p \in Pollers : polling[p] = "claim"

Grant == INSTANCE OneShotGrant
    WITH grant <- IF InClaim THEN "redeemed" ELSE Abstraction,
         grantee <- userId,
         tokens <- Len(keys)
GrantAlone == Grant!GrantInit /\ [][alone => Grant!GrantNext]_(Grant!grantVars)
=============================================================================
