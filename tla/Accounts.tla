-------------------------------- MODULE Accounts --------------------------------
(***************************************************************************)
(* An account and its tokens on the server: e-mail verification,           *)
(* suspension, revocation by token_version, and SimpleJWT's refresh tokens *)
(* with rotation and blacklist.                                            *)
(*                                                                         *)
(* A refresh token is the number it was issued under and an access token   *)
(* the token_version it carries; what a token's holder does with it is the *)
(* business of Sessions.  An operation is one request, but for two.  The   *)
(* rotation reads the account first and rotates afterwards; its second     *)
(* look at the blacklist and the blacklisting are one step here.  A        *)
(* revocation reads the version, lists the tokens, blacklists one after    *)
(* the other and writes the version it read, plus one: nothing holds the   *)
(* account meanwhile, and what is done stays done when the request dies.   *)
(***************************************************************************)
EXTENDS Integers, Sequences, FiniteSets

CONSTANTS
    Tabs,            \* tabs of one browser, each with a password request at a time
    Staff,           \* requests of the administration that suspend or revoke
    MaxTokens,       \* bound on the refresh tokens issued
    MaxVersion,      \* bound on token_version
    MaxRevocations   \* bound on the revocations under way

ASSUME AccountsAssumption ==
    /\ MaxTokens \in Nat \ {0} /\ MaxVersion \in Nat /\ MaxRevocations \in Nat \ {0}
    /\ Tabs \cap Staff = {}

VARIABLES
    account,  \* verified, suspended, active, version
    issued,   \* the token_version claim of each refresh token, by its number
    black,    \* the blacklist
    revoked,  \* history: the tokens a revocation blacklisted, not an exchange or a logout
    revoking  \* the revocation each of the Revokers has under way

tokenVars == <<account, issued, black, revoked>>
accountVars == <<tokenVars, revoking>>

Account == [verified: BOOLEAN, suspended: BOOLEAN, active: BOOLEAN,
            version: 0 .. MaxVersion]
Tokens == 1 .. Len(issued)

\* asks: what the tab still waits for; version: the one that was read; left: the
\* tokens still to blacklist.
Revokers == Tabs \cup Staff
Revocation == [stage: {"idle", "read", "listed", "done"},
               asks: {"nobody", "password", "reset"},
               version: 0 .. MaxVersion, left: SUBSET (1 .. MaxTokens)]
Underway == {r \in Revokers : revoking[r].stage # "idle"}
NoRevocation == [stage |-> "idle", asks |-> "nobody", version |-> 0, left |-> {}]

AccountsInit ==
    /\ account = [verified |-> FALSE, suspended |-> FALSE, active |-> TRUE, version |-> 0]
    /\ issued = <<>>
    /\ black = {} /\ revoked = {}
    /\ revoking = [r \in Revokers |-> NoRevocation]

-------------------------------------------------------------------------------
(* What the server asks *)

\* can_authenticate_user
Usable == account.active /\ account.verified /\ ~account.suspended

\* AccountJWTAuthentication.get_user: an access token of this version is taken.
Accepts(v) == Usable /\ v = account.version

\* The account's side of AccountTokenRefreshSerializer.validate.
Refreshable(n) == n \notin black /\ Usable /\ issued[n] = account.version

CanIssue == Len(issued) < MaxTokens

\* The refresh tokens that would be exchanged now.
Live == {n \in Tokens : Refreshable(n)}

-------------------------------------------------------------------------------
(* The operations *)

\* verify_email, with a link that stays good until the password changes.
VerifyEmail ==
    /\ ~account.verified
    /\ account' = [account EXCEPT !.verified = TRUE]
    /\ UNCHANGED <<issued, black, revoked, revoking>>

\* LoginView: a fresh token with the account's version.
IssueToken ==
    /\ Usable /\ CanIssue
    /\ issued' = Append(issued, account.version)
    /\ UNCHANGED <<account, black, revoked, revoking>>

\* TokenRefreshSerializer.validate: the old token is blacklisted, the new one
\* carries the version that was read with the account.
Rotate(n, v) ==
    /\ n \notin black /\ CanIssue
    /\ black' = black \cup {n}
    /\ issued' = Append(issued, v)
    /\ UNCHANGED <<account, revoked, revoking>>

\* LogoutView: also for a token that is blacklisted already.
Blacklist(n) ==
    /\ black' = black \cup {n}
    /\ UNCHANGED <<account, issued, revoked, revoking>>

\* The request that will revoke has read the account: a password change with its
\* authentication, a reset with its link, an action with its list of customers.
ReadVersion(r, asks) ==
    /\ revoking[r].stage = "idle" /\ account.version < MaxVersion
    /\ Cardinality(Underway) < MaxRevocations
    /\ revoking' = [revoking EXCEPT ![r] =
           [stage |-> "read", asks |-> asks, version |-> account.version, left |-> {}]]
    /\ UNCHANGED tokenVars

\* revoke_user_tokens: the tokens are listed, those get_or_create will add ...
ListTokens(r) ==
    /\ revoking[r].stage = "read"
    /\ revoking' = [revoking EXCEPT ![r].stage = "listed", ![r].left = Tokens \ black]
    /\ UNCHANGED tokenVars

\* ... each is blacklisted ...
BlacklistNext(r) ==
    /\ revoking[r].stage = "listed"
    /\ \E n \in revoking[r].left :
          /\ black' = black \cup {n}
          /\ revoked' = revoked \cup ({n} \ black)
          /\ revoking' = [revoking EXCEPT ![r].left = @ \ {n}]
    /\ UNCHANGED <<account, issued>>

\* ... and the version is written.
WriteVersion(r) ==
    /\ revoking[r].stage = "listed" /\ revoking[r].left = {}
    /\ account' = [account EXCEPT !.version = revoking[r].version + 1]
    /\ revoking' = [revoking EXCEPT ![r] =
           IF @.asks = "nobody" THEN NoRevocation ELSE [@ EXCEPT !.stage = "done"]]
    /\ UNCHANGED <<issued, black, revoked>>

\* The request dies, with the tokens it has blacklisted so far.
RevocationDies(r) ==
    /\ revoking[r].stage \in {"read", "listed"}
    /\ revoking' = [revoking EXCEPT ![r] = NoRevocation]
    /\ UNCHANGED tokenVars

\* suspend_user: all of it in one transaction, but for the version, which came
\* with the list of customers.
Suspend(r) ==
    /\ r \in Staff /\ revoking[r].stage = "read"
    /\ account' = [account EXCEPT !.suspended = TRUE, !.version = revoking[r].version + 1]
    /\ black' = black \cup Tokens
    /\ revoked' = revoked \cup (Tokens \ black)
    /\ revoking' = [revoking EXCEPT ![r] = NoRevocation]
    /\ UNCHANGED issued

Unsuspend ==
    /\ account.suspended
    /\ account' = [account EXCEPT !.suspended = FALSE]
    /\ UNCHANGED <<issued, black, revoked, revoking>>

\* The user form of the administration: is_active, and no revocation.
ToggleActive ==
    /\ account' = [account EXCEPT !.active = ~@]
    /\ UNCHANGED <<issued, black, revoked, revoking>>

\* The tab waits no more: the server goes on.
Unasked(t) ==
    [revoking EXCEPT ![t] = IF @.stage = "done" THEN NoRevocation ELSE [@ EXCEPT !.asks = "nobody"]]

Revoke(r) == ListTokens(r) \/ BlacklistNext(r) \/ WriteVersion(r) \/ RevocationDies(r)

Administration ==
    \/ VerifyEmail \/ Unsuspend \/ ToggleActive
    \/ \E r \in Staff : Suspend(r)
    \/ \E r \in Revokers : Revoke(r)

-------------------------------------------------------------------------------

AccountsTypeOK ==
    /\ account \in Account
    /\ issued \in Seq(0 .. MaxVersion) /\ Len(issued) <= MaxTokens
    /\ black \subseteq Tokens /\ revoked \subseteq black
    /\ revoking \in [Revokers -> Revocation]
===============================================================================
