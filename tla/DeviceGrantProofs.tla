------------------------- MODULE DeviceGrantProofs -------------------------
(***************************************************************************)
(* What holds of a device code for any users and any number of requests:   *)
(* a claimed code has its token, and requests that do not overlap make the *)
(* row a one-shot grant.                                                   *)
(***************************************************************************)
EXTENDS DeviceGrant, TLAPS

Approving == {a \in Approvers : approving[a] # NoUser}
Active == {p \in Pollers : polling[p] # "idle"}

\* A poll about to claim the code has minted its token.
TokenBeforeClaim ==
    /\ ClaimedHasToken
    /\ \A p \in Pollers : polling[p] = "claim" => keys # <<>>

\* A poll that mints knows whom for.
MintsForUser == \A p \in Pollers : polling[p] = "mint" => owner[p] \in Users

\* Requests that come one at a time: the one that is between its read and its
\* write is the only one, and the row is still as it read it.
OneRequest ==
    /\ \A a, b \in Approving : a = b
    /\ \A d, e \in denying : d = e
    /\ \A p, q \in Active : p = q
    /\ Approving # {} => denying = {} /\ Active = {}
    /\ denying # {} => Active = {}

ReadStillHolds ==
    /\ Approving # {} \/ denying # {} => status = "pending"
    /\ \A p \in Pollers :
        /\ polling[p] \in {"mint", "claim"} => status = "approved"
        /\ polling[p] = "expire" => status \notin {"denied", "expired"}

Sequential == alone => OneRequest /\ ReadStillHolds

GrantInv == TypeOK /\ TokenBeforeClaim /\ MintsForUser /\ Sequential

-----------------------------------------------------------------------------
\* A new code is well typed, pending, and no request is under way.
LEMMA InitGrantInv == Init => GrantInv
<1> SUFFICES ASSUME Init PROVE GrantInv
  OBVIOUS
<1>1. TypeOK
  <2>1. <<>> \in Seq(Users) /\ NoUser \in Users \cup {NoUser}
    OBVIOUS
  <2> QED
    BY <2>1 DEF Init, TypeOK, Statuses
<1>2. TokenBeforeClaim /\ MintsForUser
  BY DEF Init, TokenBeforeClaim, MintsForUser, ClaimedHasToken
<1>3. Sequential
  BY DEF Init, Sequential, OneRequest, ReadStillHolds, Approving, Active
<1> QED
  BY <1>1, <1>2, <1>3 DEF GrantInv

\* When requests come one at a time, one that starts finds none under way.
LEMMA StartsAlone ==
    ASSUME MayStart, alone
    PROVE  Approving = {} /\ denying = {} /\ Active = {}
BY DEF MayStart, Quiet, Approving, Active

\* The expiry time passes without touching the row.
LEMMA TimePassesKeeps ==
    ASSUME GrantInv, TimePasses, UNCHANGED alone
    PROVE  GrantInv'
BY DEF GrantInv, TimePasses, row, requests, TypeOK, TokenBeforeClaim, ClaimedHasToken,
       MintsForUser, Sequential, OneRequest, ReadStillHolds, Approving, Active

\* Approvals keep the invariant.
LEMMA ApproveKeeps ==
    ASSUME GrantInv, NEW a \in Approvers, ApproveRead(a) \/ ApproveWrite(a), UNCHANGED alone
    PROVE  GrantInv'
<1> USE DEF GrantInv, row
<1>1. CASE ApproveRead(a)
  <2>1. TypeOK'
    BY <1>1 DEF ApproveRead, TypeOK
  <2>2. TokenBeforeClaim' /\ MintsForUser'
    BY <1>1 DEF ApproveRead, TokenBeforeClaim, ClaimedHasToken, MintsForUser
  <2>3. ASSUME alone PROVE Approving' \subseteq {a} /\ denying' = {} /\ Active' = {}
    BY <1>1, <2>3, StartsAlone DEF ApproveRead, TypeOK, Approving, Active
  <2>4. Sequential'
    BY <1>1, <2>3 DEF ApproveRead, Sequential, OneRequest, ReadStillHolds, Active
  <2> QED
    BY <2>1, <2>2, <2>4
<1>2. CASE ApproveWrite(a)
  <2>1. TypeOK'
    BY <1>2 DEF ApproveWrite, TypeOK, Statuses
  <2>2. TokenBeforeClaim' /\ MintsForUser'
    BY <1>2 DEF ApproveWrite, TokenBeforeClaim, ClaimedHasToken, MintsForUser
  <2>3. ASSUME alone PROVE Approving' = {} /\ denying' = {} /\ Active' = {}
    BY <1>2, <2>3, GrantAssumption
    DEF ApproveWrite, TypeOK, Sequential, OneRequest, Approving, Active
  <2>4. Sequential'
    BY <1>2, <2>3 DEF Sequential, OneRequest, ReadStillHolds, Active
  <2> QED
    BY <2>1, <2>2, <2>4
<1> QED
  BY <1>1, <1>2

\* Denials keep the invariant.
LEMMA DenyKeeps ==
    ASSUME GrantInv, NEW d \in Deniers, DenyRead(d) \/ DenyWrite(d), UNCHANGED alone
    PROVE  GrantInv'
<1> USE DEF GrantInv, row
<1>1. CASE DenyRead(d)
  <2>1. TypeOK'
    BY <1>1 DEF DenyRead, TypeOK
  <2>2. TokenBeforeClaim' /\ MintsForUser'
    BY <1>1 DEF DenyRead, TokenBeforeClaim, ClaimedHasToken, MintsForUser
  <2>3. ASSUME alone PROVE Approving' = {} /\ denying' = {d} /\ Active' = {}
    BY <1>1, <2>3, StartsAlone DEF DenyRead, Approving, Active
  <2>4. Sequential'
    BY <1>1, <2>3 DEF DenyRead, Sequential, OneRequest, ReadStillHolds, Active
  <2> QED
    BY <2>1, <2>2, <2>4
<1>2. CASE DenyWrite(d)
  <2>1. TypeOK'
    BY <1>2 DEF DenyWrite, TypeOK, Statuses
  <2>2. TokenBeforeClaim' /\ MintsForUser'
    BY <1>2 DEF DenyWrite, TokenBeforeClaim, ClaimedHasToken, MintsForUser
  <2>3. ASSUME alone PROVE Approving' = {} /\ denying' = {} /\ Active' = {}
    BY <1>2, <2>3 DEF DenyWrite, Sequential, OneRequest, Approving, Active
  <2>4. Sequential'
    BY <1>2, <2>3 DEF Sequential, OneRequest, ReadStillHolds, Active
  <2> QED
    BY <2>1, <2>2, <2>4
<1> QED
  BY <1>1, <1>2

\* The reads of a poll keep the invariant.
LEMMA PollReadKeeps ==
    ASSUME GrantInv, NEW p \in Pollers, UNCHANGED alone,
           PollResolved(p) \/ PollFindsExpired(p) \/ PollClaimed(p) \/ PollApproved(p)
    PROVE  GrantInv'
<1> USE DEF GrantInv, row, requests, Answer
<1>1. CASE PollResolved(p) \/ PollClaimed(p)
  <2>1. TypeOK'
    BY <1>1 DEF PollResolved, PollClaimed, TypeOK
  <2>2. UNCHANGED <<status, keys, approving, denying, polling, owner>>
    BY <1>1 DEF PollResolved, PollClaimed
  <2> QED
    BY <2>1, <2>2 DEF TokenBeforeClaim, MintsForUser, ClaimedHasToken, Sequential, OneRequest,
                      ReadStillHolds, Approving, Active
<1>2. CASE PollFindsExpired(p) \/ PollApproved(p)
  <2>1. TypeOK'
    BY <1>2 DEF PollFindsExpired, PollApproved, TypeOK
  <2>2. TokenBeforeClaim' /\ MintsForUser'
    BY <1>2 DEF PollFindsExpired, PollApproved, TypeOK, TokenBeforeClaim, ClaimedHasToken,
                MintsForUser
  <2>3. MayStart /\ UNCHANGED <<status, approving, denying>>
    BY <1>2 DEF PollFindsExpired, PollApproved
  <2>4. \A q \in Pollers : q # p => polling'[q] = polling[q]
    BY <1>2 DEF PollFindsExpired, PollApproved, TypeOK
  <2>5. /\ polling'[p] \in {"mint", "claim"} => status = "approved"
        /\ polling'[p] = "expire" => status \notin {"denied", "expired"}
    BY <1>2 DEF PollFindsExpired, PollApproved, TypeOK
  <2>6. ASSUME alone PROVE Approving' = {} /\ denying' = {} /\ Active' \subseteq {p}
    BY <2>3, <2>4, <2>6, StartsAlone DEF Approving, Active
  <2>7. ASSUME alone, NEW q \in Pollers, q # p PROVE polling'[q] = "idle"
    BY <2>6, <2>7 DEF Active
  <2>8. Sequential'
    BY <2>3, <2>5, <2>6, <2>7 DEF Sequential, OneRequest, ReadStillHolds
  <2> QED
    BY <2>1, <2>2, <2>8
<1> QED
  BY <1>1, <1>2

\* When requests come one at a time, a poll under way is the only request.
LEMMA PollAlone ==
    ASSUME GrantInv, alone, NEW p \in Pollers, polling[p] # "idle"
    PROVE  /\ Approving = {} /\ denying = {}
           /\ \A q \in Pollers : q # p => polling[q] = "idle"
BY DEF GrantInv, Sequential, OneRequest, Active

\* The writes of a poll, and its end half way, keep the invariant.
LEMMA PollWriteKeeps ==
    ASSUME GrantInv, NEW p \in Pollers, UNCHANGED alone,
           PollExpire(p) \/ PollMint(p) \/ PollClaim(p) \/ PollCrash(p)
    PROVE  GrantInv'
<1> USE DEF GrantInv, row, Answer
<1>1. TypeOK'
  <2>1. CASE PollExpire(p)
    BY <2>1 DEF PollExpire, TypeOK, Statuses
  <2>2. CASE PollMint(p)
    <3>1. owner[p] \in Users
      BY <2>2 DEF PollMint, MintsForUser
    <3> QED
      BY <2>2, <3>1 DEF PollMint, TypeOK
  <2>3. CASE PollClaim(p)
    BY <2>3 DEF PollClaim, TypeOK, Statuses
  <2>4. CASE PollCrash(p)
    BY <2>4 DEF PollCrash, TypeOK
  <2> QED
    BY <2>1, <2>2, <2>3, <2>4
<1>2. TokenBeforeClaim'
  <2>1. CASE PollMint(p)
    <3>1. keys' # <<>>
      BY <2>1 DEF PollMint, TypeOK
    <3> QED
      BY <3>1 DEF TokenBeforeClaim, ClaimedHasToken
  <2>2. CASE PollExpire(p) \/ PollClaim(p) \/ PollCrash(p)
    BY <2>2 DEF PollExpire, PollClaim, PollCrash, TypeOK, TokenBeforeClaim, ClaimedHasToken
  <2> QED
    BY <2>1, <2>2
<1>3. MintsForUser'
  BY DEF PollExpire, PollMint, PollClaim, PollCrash, TypeOK, MintsForUser
<1>4. Sequential'
  <2> SUFFICES ASSUME alone PROVE OneRequest' /\ ReadStillHolds'
    BY DEF Sequential
  <2>1. ~PollCrash(p) /\ polling[p] # "idle"
    BY DEF PollExpire, PollMint, PollClaim, PollCrash
  <2>2. /\ Approving = {} /\ denying = {}
        /\ \A q \in Pollers : q # p => polling[q] = "idle"
    BY <2>1, PollAlone
  <2>3. UNCHANGED <<approving, denying>> /\ \A q \in Pollers : q # p => polling'[q] = "idle"
    BY <2>1, <2>2 DEF PollExpire, PollMint, PollClaim, TypeOK
  <2>4. Approving' = {} /\ denying' = {} /\ Active' \subseteq {p}
    BY <2>2, <2>3 DEF Approving, Active
  <2>5. (polling'[p] = "claim" /\ status' = "approved") \/ polling'[p] = "idle"
    BY <2>1 DEF PollExpire, PollMint, PollClaim, TypeOK, Sequential, ReadStillHolds
  <2> QED
    BY <2>3, <2>4, <2>5 DEF OneRequest, ReadStillHolds
<1> QED
  BY <1>1, <1>2, <1>3, <1>4

\* The invariant holds in every reachable state.
THEOREM GrantInvariant == Spec => []GrantInv
<1>1. GrantInv /\ [Next]_vars => GrantInv'
  <2> SUFFICES ASSUME GrantInv, [Next]_vars PROVE GrantInv'
    OBVIOUS
  <2>1. CASE UNCHANGED vars
    BY <2>1 DEF vars, row, requests, GrantInv, TypeOK, TokenBeforeClaim, ClaimedHasToken,
                MintsForUser, Sequential, OneRequest, ReadStillHolds, Approving, Active
  <2>2. CASE Next
    BY <2>2, TimePassesKeeps, ApproveKeeps, DenyKeeps, PollReadKeeps, PollWriteKeeps
    DEF Next, Poll
  <2> QED
    BY <2>1, <2>2
<1> QED
  BY <1>1, InitGrantInv, PTL DEF Spec

\* A crash between the two commits of a poll never leaves a claimed code without
\* its token.
THEOREM ClaimHasToken == Spec => []ClaimedHasToken
<1>1. GrantInv => ClaimedHasToken
  BY DEF GrantInv, TokenBeforeClaim
<1> QED
  BY <1>1, GrantInvariant, PTL

-----------------------------------------------------------------------------
(* The refinement of OneShotGrant *)

\* A step that leaves the row, the keys and the claims alone is a stutter.
LEMMA StepStutters ==
    ASSUME TypeOK, UNCHANGED <<status, userId, keys>>,
           \A p \in Pollers : polling'[p] = "claim" <=> polling[p] = "claim"
    PROVE  UNCHANGED Grant!grantVars
<1>1. Abstraction' = Abstraction
  BY DEF TypeOK, Statuses, Abstraction
<1>2. InClaim' <=> InClaim
  BY DEF InClaim
<1> QED
  BY <1>1, <1>2 DEF Grant!grantVars, InClaim

\* A verdict is a Decide.
LEMMA VerdictDecides ==
    ASSUME GrantInv, alone,
           \/ \E a \in Approvers : ApproveWrite(a)
           \/ \E d \in Deniers : DenyWrite(d)
    PROVE  Grant!Decide
<1> USE DEF GrantInv
<1>1. UNCHANGED <<keys, polling>>
  BY DEF ApproveWrite, DenyWrite
<1>2. status = "pending"
  BY DEF ApproveWrite, DenyWrite, Sequential, ReadStillHolds, Approving
<1>3. ~InClaim /\ ~InClaim'
  BY <1>1, <1>2 DEF InClaim, Sequential, ReadStillHolds
<1>4. \/ status' = "approved" /\ userId' \in Users
      \/ status' = "denied" /\ userId' = userId
  BY DEF ApproveWrite, DenyWrite, TypeOK
<1> QED
  BY <1>1, <1>2, <1>3, <1>4 DEF Grant!Decide, Abstraction

\* A poll that finds the code past its expiry time lapses it.
LEMMA ExpireLapses ==
    ASSUME GrantInv, alone, NEW p \in Pollers, PollExpire(p)
    PROVE  Grant!Lapse
<1> USE DEF GrantInv
<1>1. status \in {"pending", "approved", "claimed"} /\ status' = "expired"
  BY DEF PollExpire, Sequential, ReadStillHolds, TypeOK, Statuses
<1>2. \A q \in Pollers : polling[q] # "claim" /\ polling'[q] # "claim"
  BY PollAlone DEF PollExpire, TypeOK
<1>3. ~InClaim /\ ~InClaim' /\ UNCHANGED <<userId, keys>>
  BY <1>2 DEF InClaim, PollExpire
<1> QED
  BY <1>1, <1>3 DEF Grant!Lapse, Abstraction

\* Minting redeems the code.
LEMMA MintRedeems ==
    ASSUME GrantInv, alone, NEW p \in Pollers, PollMint(p)
    PROVE  Grant!Redeem
<1> USE DEF GrantInv
<1>1. status = "approved" /\ UNCHANGED <<status, userId>>
  BY DEF PollMint, row, Sequential, ReadStillHolds
<1>2. \A q \in Pollers : polling[q] # "claim"
  BY PollAlone DEF PollMint
<1>3. ~InClaim /\ InClaim'
  BY <1>2 DEF InClaim, PollMint, TypeOK
<1>4. Len(keys') = Len(keys) + 1
  BY DEF PollMint, TypeOK
<1> QED
  BY <1>1, <1>3, <1>4 DEF Grant!Redeem, Abstraction

\* Marking the code claimed makes the redemption final, which is no news.
LEMMA ClaimStutters ==
    ASSUME GrantInv, alone, NEW p \in Pollers, PollClaim(p)
    PROVE  UNCHANGED Grant!grantVars
<1>1. InClaim /\ status' = "claimed" /\ UNCHANGED <<userId, keys>>
  BY DEF PollClaim, InClaim
<1> QED
  BY <1>1 DEF Grant!grantVars, Abstraction

\* A poll that reads does not yet redeem.
LEMMA PollReadStutters ==
    ASSUME GrantInv, NEW p \in Pollers,
           PollResolved(p) \/ PollFindsExpired(p) \/ PollClaimed(p) \/ PollApproved(p)
    PROVE  UNCHANGED Grant!grantVars
<1>1. UNCHANGED <<status, userId, keys>>
  BY DEF PollResolved, PollFindsExpired, PollClaimed, PollApproved, row
<1>2. \A q \in Pollers : polling'[q] = "claim" <=> polling[q] = "claim"
  BY DEF PollResolved, PollFindsExpired, PollClaimed, PollApproved, requests, GrantInv, TypeOK
<1> QED
  BY <1>1, <1>2, StepStutters DEF GrantInv

\* Requests that neither overlap nor die implement the one-shot grant: a code is decided
\* once and yields one token.
THEOREM GrantImplemented == Spec => GrantAlone
<1>1. Init => Grant!GrantInit
  BY DEF Init, Grant!GrantInit, InClaim, Abstraction
<1>2. GrantInv /\ [Next]_vars => [alone => Grant!GrantNext]_(Grant!grantVars)
  <2> SUFFICES ASSUME GrantInv, [Next]_vars, alone
               PROVE  Grant!GrantNext \/ UNCHANGED Grant!grantVars
    OBVIOUS
  <2>1. CASE UNCHANGED vars
    BY <2>1, StepStutters DEF vars, row, requests, GrantInv
  <2>2. CASE TimePasses
    BY <2>2, StepStutters DEF TimePasses, row, requests, GrantInv
  <2>3. ASSUME NEW a \in Approvers, ApproveRead(a)
        PROVE  UNCHANGED Grant!grantVars
    BY <2>3, StepStutters DEF ApproveRead, row, GrantInv
  <2>4. ASSUME NEW d \in Deniers, DenyRead(d)
        PROVE  UNCHANGED Grant!grantVars
    BY <2>4, StepStutters DEF DenyRead, row, GrantInv
  <2>5. CASE \/ \E a \in Approvers : ApproveWrite(a)
             \/ \E d \in Deniers : DenyWrite(d)
    BY <2>5, VerdictDecides DEF Grant!GrantNext
  <2>6. ASSUME NEW p \in Pollers, Poll(p)
        PROVE  Grant!GrantNext \/ UNCHANGED Grant!grantVars
    BY <2>6, PollReadStutters, ExpireLapses, MintRedeems, ClaimStutters
    DEF Poll, Grant!GrantNext
  <2>7. \A p \in Pollers : ~PollCrash(p)
    BY DEF PollCrash
  <2> QED
    BY <2>1, <2>2, <2>3, <2>4, <2>5, <2>6, <2>7 DEF Next
<1> QED
  BY <1>1, <1>2, GrantInvariant, PTL DEF Spec, GrantAlone
=============================================================================
