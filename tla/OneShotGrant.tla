---------------------------- MODULE OneShotGrant ----------------------------
(***************************************************************************)
(* What the device-authorization grant promises about one device code: it  *)
(* is decided at most once, and an approved code yields a token at most    *)
(* once.                                                                   *)
(***************************************************************************)
EXTENDS Integers

CONSTANTS
    Users,
    NoUser

VARIABLES
    grant,      \* open, granted, refused, lapsed or redeemed
    grantee,    \* who approved it
    tokens      \* how many tokens it has yielded

grantVars == <<grant, grantee, tokens>>

GrantInit ==
    /\ grant = "open"
    /\ grantee = NoUser
    /\ tokens = 0

Decide ==
    /\ grant = "open"
    /\ \/ /\ grant' = "granted"
          /\ grantee' \in Users
       \/ /\ grant' = "refused"
          /\ UNCHANGED grantee
    /\ UNCHANGED tokens

Redeem ==
    /\ grant = "granted"
    /\ grant' = "redeemed"
    /\ tokens' = tokens + 1
    /\ UNCHANGED grantee

Lapse ==
    /\ grant \in {"open", "granted", "redeemed"}
    /\ grant' = "lapsed"
    /\ UNCHANGED <<grantee, tokens>>

GrantNext == Decide \/ Redeem \/ Lapse

GrantSpec == GrantInit /\ [][GrantNext]_grantVars
=============================================================================
