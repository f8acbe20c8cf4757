------------------------------ MODULE Accounts ------------------------------
(* Accounts, keys and sign-in (accounts/service.py, accounts/oauth.py,       *)
(* gateway/auth.py, the /auth and /keys routes): requests on any replica,    *)
(* statement by statement, over the user, identity and key tables.           *)
(*                                                                           *)
(* A user row is named by its unique email; a sign-in whose email the        *)
(* provider does not vouch for gets an account of its own, named after the   *)
(* provider's subject.  A subject stands for a provider and its user id.  No *)
(* route looks at what kind of text an email is: somebody may sign up with   *)
(* the very name that is made up for a subject.                              *)
(* Keys are numbered in the order they are minted; only their hashes are     *)
(* stored, which no two keys share.                                          *)
EXTENDS Naturals, Sequences, FiniteSets

CONSTANTS Request,      \* requests that may overlap
          Subject,      \* provider users
          Email,        \* emails that providers tell of
          NoEmail,      \* a provider may keep the email to itself
          NoPassword    \* the account has none: it was made by a sign-in

VARIABLES users,        \* account -> password
          registered,   \* the accounts whose email somebody gave: not made up for a subject
          identities,   \* rows [subject, user]
          keys,         \* sequence of [owner, used, revoked]
          ask,          \* what each request asks for
          req,          \* where each request is: [pc, claims, user, key]
          overlaps,     \* pairs of sign-ins of one subject that looked it up before either linked it
          cut           \* subjects of sign-ins that ended between their two commits

vars == <<users, registered, identities, keys, ask, req, overlaps, cut>>

\* What a provider says of its user, which may change from one sign-in to the next.
Claims == [email : Email, verified : BOOLEAN] \cup [email : {NoEmail}, verified : {FALSE}]
Placeholder(s) == [subject |-> s]
Account == Email \cup {Placeholder(s) : s \in Subject}

\* find_or_create_user 228: an email counts when the provider has verified it
Vouched(c) == c.email # NoEmail /\ c.verified

NoClaims == [email |-> NoEmail, verified |-> FALSE]
Idle == [pc |-> "begin", claims |-> NoClaims, user |-> NoEmail, key |-> 0]

InitIn(asks, accounts, minted) ==
    /\ users = accounts
    /\ registered = DOMAIN accounts
    /\ keys = minted
    /\ identities = {}
    /\ ask \in asks
    /\ req = [r \in Request |-> Idle]
    /\ overlaps = {}
    /\ cut = {}

At(r, pc) == req[r].pc = pc
Goto(r, pc) == req' = [req EXCEPT ![r].pc = pc]
GotoWith(r, pc, user) == req' = [req EXCEPT ![r].pc = pc, ![r].user = user]
SigningIn(r) == ask[r].kind = "signin"
SubjectOf(r) == ask[r].subject

-----------------------------------------------------------------------------
(* Sign-in with a provider.                                                 *)

\* The callback of a round trip: the state, the code or the id_token may be
\* refused; otherwise the claims are what the provider says by then.
Exchange(r) ==
    /\ At(r, "begin") /\ SigningIn(r)
    /\ \/ Goto(r, "refused")
       \/ \E c \in Claims : req' = [req EXCEPT ![r].pc = "find", ![r].claims = c]
    /\ UNCHANGED <<users, registered, identities, keys, ask, overlaps, cut>>

\* Mutated form of RowsOf: the row of the provider user's present email.
RowsOfEmail(r) == {i \in identities : i.subject = SubjectOf(r) /\ i.user = req[r].claims.email}

RowsOf(r) == {i \in identities : i.subject = SubjectOf(r)}

\* Sign-ins of the same subject that have looked for it and not linked it yet.
Between(r) == {q \in Request \ {r} : /\ SigningIn(q) /\ SubjectOf(q) = SubjectOf(r)
                                     /\ req[q].pc \in {"select", "create", "link"}}

\* No order is asked of the rows: any of them may be the first.
FindIdentity(r) ==
    /\ At(r, "find")
    /\ \/ \E i \in RowsOf(r) : GotoWith(r, "mint", i.user)
       \/ RowsOf(r) = {} /\ Goto(r, IF Vouched(req[r].claims) THEN "select" ELSE "create")
    /\ overlaps' = overlaps \cup {[subject |-> SubjectOf(r), told |-> {req[r].claims, req[q].claims}] :
                                     q \in Between(r)}
    /\ UNCHANGED <<users, registered, identities, keys, ask, cut>>

FindByEmail(r) ==
    /\ At(r, "select")
    /\ IF req[r].claims.email \in DOMAIN users
       THEN GotoWith(r, "link", req[r].claims.email)
       ELSE Goto(r, "create")
    /\ UNCHANGED <<users, registered, identities, keys, ask, overlaps, cut>>

NewAccount(r) ==
    CASE ~SigningIn(r) -> ask[r].email
      [] SigningIn(r) /\ Vouched(req[r].claims) -> req[r].claims.email
      [] OTHER -> Placeholder(SubjectOf(r))

\* The insert of a user row, of a sign-in or of a signup, with its commit: the
\* email is unique, and a second row is an error the caller sees.
AddUser(r) ==
    /\ At(r, "create")
    /\ \/ /\ NewAccount(r) \notin DOMAIN users
          /\ users' = [u \in DOMAIN users \cup {NewAccount(r)} |->
                         IF u \in DOMAIN users THEN users[u]
                         ELSE IF SigningIn(r) THEN NoPassword ELSE ask[r].password]
          /\ registered' = IF SigningIn(r) /\ ~Vouched(req[r].claims) THEN registered
                           ELSE registered \cup {NewAccount(r)}
          /\ GotoWith(r, IF SigningIn(r) THEN "link" ELSE "mint", NewAccount(r))
       \/ /\ NewAccount(r) \in DOMAIN users
          /\ Goto(r, "duplicate")
          /\ UNCHANGED <<users, registered>>
    /\ UNCHANGED <<identities, keys, ask, overlaps, cut>>

AddIdentity(r) ==
    /\ At(r, "link")
    /\ identities' = identities \cup {[subject |-> SubjectOf(r), user |-> req[r].user]}
    /\ Goto(r, "mint")
    /\ UNCHANGED <<users, registered, keys, ask, overlaps, cut>>

-----------------------------------------------------------------------------
(* Signup and login with a password, and keys.                              *)

\* Any text is taken for an email (an account's name, here).
Signup(r) ==
    /\ At(r, "begin") /\ ask[r].kind = "signup"
    /\ Goto(r, IF ask[r].email \in DOMAIN users THEN "refused" ELSE "create")
    /\ UNCHANGED <<users, registered, identities, keys, ask, overlaps, cut>>

Login(r) ==
    /\ At(r, "begin") /\ ask[r].kind = "login"
    /\ IF ask[r].email \in DOMAIN users /\ users[ask[r].email] = ask[r].password
       THEN GotoWith(r, "mint", ask[r].email)
       ELSE Goto(r, "refused")
    /\ UNCHANGED <<users, registered, identities, keys, ask, overlaps, cut>>

CreateApiKey(r) ==
    /\ At(r, "mint")
    /\ keys' = Append(keys, [owner |-> req[r].user, used |-> FALSE, revoked |-> FALSE])
    /\ Goto(r, "done")
    /\ UNCHANGED <<users, registered, identities, ask, overlaps, cut>>

\* A request that carries a key: the key is looked up, then marked as used.
Resolve(r) ==
    /\ At(r, "begin") /\ ask[r].kind \in {"create_key", "revoke_key", "me"}
    /\ \E k \in DOMAIN keys :
         IF keys[k].revoked
         THEN Goto(r, "refused")
         ELSE req' = [req EXCEPT ![r].pc = "touch", ![r].user = keys[k].owner, ![r].key = k]
    /\ UNCHANGED <<users, registered, identities, keys, ask, overlaps, cut>>

Handler(r) == CASE ask[r].kind = "create_key" -> "mint"
                [] ask[r].kind = "revoke_key" -> "revoke"
                [] ask[r].kind = "me" -> "done"

\* Mutated form of Touched: the whole row is written back as it was read.
TouchedRow(k) == [keys EXCEPT ![k].used = TRUE, ![k].revoked = FALSE]

\* Only the column that changed is written.
Touched(k) == [keys EXCEPT ![k].used = TRUE]

LastUsed(r) ==
    /\ At(r, "touch")
    /\ keys' = Touched(req[r].key)
    /\ Goto(r, Handler(r))
    /\ UNCHANGED <<users, registered, identities, ask, overlaps, cut>>

\* Any key may be named; only the user's own is found.
RevokeKey(r) ==
    /\ At(r, "revoke")
    /\ \E k \in DOMAIN keys :
         \/ keys[k].owner # req[r].user /\ Goto(r, "refused") /\ UNCHANGED keys
         \/ keys[k].owner = req[r].user /\ Goto(r, "done") /\ keys' = [keys EXCEPT ![k].revoked = TRUE]
    /\ UNCHANGED <<users, registered, identities, ask, overlaps, cut>>

-----------------------------------------------------------------------------
Ended == {"refused", "duplicate", "done", "crashed"}

\* A replica stops, or a statement fails, in the middle of a request.
Crash(r) ==
    /\ req[r].pc \notin Ended \cup {"begin"}
    /\ Goto(r, "crashed")
    /\ cut' = IF At(r, "link") THEN cut \cup {SubjectOf(r)} ELSE cut
    /\ UNCHANGED <<users, registered, identities, keys, ask, overlaps>>

Next ==
    \E r \in Request :
       \/ Exchange(r) \/ FindIdentity(r) \/ FindByEmail(r) \/ AddUser(r) \/ AddIdentity(r)
       \/ Signup(r) \/ Login(r) \/ CreateApiKey(r) \/ Resolve(r) \/ LastUsed(r) \/ RevokeKey(r)
       \/ Crash(r)

-----------------------------------------------------------------------------
TypeOK ==
    /\ registered \subseteq DOMAIN users /\ DOMAIN users \subseteq Account
    /\ identities \subseteq [subject : Subject, user : Account]
    /\ keys \in Seq([owner : Account, used : BOOLEAN, revoked : BOOLEAN])
    /\ req \in [Request -> [pc : Ended \cup {"begin", "find", "select", "create", "link", "mint",
                                             "touch", "revoke"},
                            claims : Claims, user : Account \cup {NoEmail}, key : Nat]]
    /\ cut \subseteq Subject

SignInsOverlapped(s) == \E o \in overlaps : o.subject = s

\* find_or_create_user: a provider's user comes back to the same account,
\* whatever happens to the email at the provider, and is refused an account of
\* the subject's own name by no row but one that somebody registered under that
\* very name, one that a sign-in cut short between its two commits left, or one
\* of a sign-in that overlapped.  Two accounts are linked only by sign-ins that
\* overlapped and were told different things.
SameAccountEachTime ==
    /\ \A i, j \in identities :
         i.subject = j.subject /\ i.user # j.user =>
           \E o \in overlaps : o.subject = i.subject /\ Cardinality(o.told) = 2
    /\ \A r \in Request :
         At(r, "duplicate") /\ SigningIn(r) /\ ~Vouched(req[r].claims) =>
           \/ Placeholder(SubjectOf(r)) \in registered
           \/ SubjectOf(r) \in cut
           \/ SignInsOverlapped(SubjectOf(r))

\* revoke_key against resolve_api_key, which selects a key and then writes its
\* last use: a key that was revoked is never valid again.
RevokedStaysOut ==
    [][\A k \in DOMAIN keys : keys[k].revoked => keys'[k].revoked]_vars

=============================================================================
