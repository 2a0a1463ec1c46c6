-------------------------------- MODULE Sessions --------------------------------
(***************************************************************************)
(* The customer's session in the browser: authSession.js (the access token *)
(* in memory, the refresh token in localStorage, the single refresh        *)
(* promise and its generation counter), AuthContext.jsx (restore, login,   *)
(* logout, password change) and the reset page, against the account of     *)
(* Accounts.                                                               *)
(*                                                                         *)
(* A refresh request is a record of its own: its answer may come after the *)
(* session it was sent for has ended, and the server may still work on one *)
(* the tab has given up.  The generation counter is kept as what it        *)
(* decides: whether a request is of the current generation.  An access     *)
(* token expires between operations, never inside one (15 minutes against  *)
(* a 15 s timeout).                                                        *)
(***************************************************************************)
EXTENDS Accounts

CONSTANT
    MaxRequests   \* bound on the refreshes, logouts and revocations under way

ASSUME SessionsAssumption == MaxRequests \in Nat \ {0}

VARIABLES
    stored,    \* the refresh token in localStorage, 0 for none
    tab,       \* what each tab keeps in memory
    flights,   \* refresh requests
    posts,     \* tokens of logout requests on their way
    lost,      \* history: a tab gave up waiting for the stored token's successor
    signedOut, \* history: no login since the last logout, and no tab apart that stored
    apart      \* history: the tabs that kept what another one cleared

vars == <<accountVars, stored, tab, flights, posts, lost, signedOut, apart>>

AUTH_STATUS == {"initializing", "authenticated", "anonymous"}
NoAccess == -1
Versions == 0 .. MaxVersion

\* access: the version the access token carries; fresh: it is not about to
\* expire; promise: the token of refreshPromise; task: the request AuthContext
\* waits for; carry: the token or version that request carries or brought.
Tab == [status: AUTH_STATUS, access: {NoAccess} \cup Versions, fresh: BOOLEAN,
        promise: 0 .. MaxTokens,
        task: {"idle", "restore", "restore-me", "login", "login-ok", "login-no",
               "login-me", "password"},
        carry: {NoAccess} \cup (0 .. MaxTokens) \cup Versions]
NoSession == [status |-> "anonymous", access |-> NoAccess, fresh |-> FALSE,
              promise |-> 0, task |-> "idle", carry |-> 0]

Flight == [tab: Tabs, token: 1 .. MaxTokens, next: 0 .. MaxTokens,
           phase: {"sent", "checked", "rotated", "refused"},
           waits: BOOLEAN, current: BOOLEAN]

Init ==
    /\ AccountsInit
    /\ stored = 0
    /\ tab = [t \in Tabs |-> NoSession]
    /\ flights = {} /\ posts = {} /\ lost = FALSE
    /\ signedOut = TRUE /\ apart = {}

-------------------------------------------------------------------------------
(* authSession.js *)

\* The tab's requests after its generation counter has moved.
NextGeneration(t) ==
    {IF f.tab = t THEN [f EXCEPT !.current = FALSE] ELSE f : f \in flights}

\* The other tabs keep what they have in memory, and what they asked for.
Apart(t) ==
    {u \in Tabs \ {t} : \/ tab[u].access # NoAccess
                       \/ \E f \in flights : f.tab = u /\ f.waits /\ f.current}

\* Defect: the counter is not moved.
ClearKeepsGeneration(t, status, task, carry) ==
    /\ stored' = 0 /\ lost' = FALSE /\ apart' = Apart(t)
    /\ flights' = flights
    /\ tab' = [tab EXCEPT ![t].access = NoAccess, ![t].fresh = FALSE, ![t].promise = 0,
                          ![t].status = status, ![t].task = task, ![t].carry = carry]
\* clearSession, with the status its reason or its caller leaves.
Clear(t, status, task, carry) ==
    /\ stored' = 0 /\ lost' = FALSE /\ apart' = Apart(t)
    /\ flights' = NextGeneration(t)
    /\ tab' = [tab EXCEPT ![t].access = NoAccess, ![t].fresh = FALSE, ![t].promise = 0,
                          ![t].status = status, ![t].task = task, ![t].carry = carry]

\* establishSession: refreshPromise is left as it is.
Establish(t, n) ==
    /\ stored' = n /\ lost' = FALSE
    /\ flights' = NextGeneration(t)
    /\ tab' = [tab EXCEPT ![t].access = issued[n], ![t].fresh = TRUE,
                          ![t].task = "login-me", ![t].carry = issued[n]]

NewFlight(t) == [tab |-> t, token |-> stored, next |-> 0, phase |-> "sent",
                 waits |-> TRUE, current |-> TRUE]

\* Requests no tab waits for any more: what the server has not done yet, it may
\* still do.
Unwaited(fs) ==
    {[f EXCEPT !.waits = FALSE] : f \in {g \in fs : g.phase \in {"sent", "checked"}}}

RoomBeside(fs) ==
    Cardinality(fs) + Cardinality(posts) + Cardinality(Underway) < MaxRequests

GivenUp(fs) == lost \/ (stored # 0 /\ \E f \in fs : f.token = stored)

\* The page is loaded or reloaded: what the tab had in memory is gone, and a
\* stored session is restored.
Restore(t) ==
    LET mine == {f \in flights : f.tab = t}
        rest == (flights \ mine) \cup Unwaited(mine)
    IN  /\ \/ /\ stored = 0
             /\ tab' = [tab EXCEPT ![t] = NoSession]
             /\ flights' = rest
          \/ /\ stored # 0 /\ RoomBeside(rest)
             /\ tab' = [tab EXCEPT ![t] = [NoSession EXCEPT
                            !.status = "initializing", !.promise = stored,
                            !.task = "restore"]]
             /\ flights' = rest \cup {NewFlight(t)}
        /\ lost' = GivenUp(mine) /\ apart' = apart \ {t} /\ revoking' = Unasked(t)
        /\ UNCHANGED <<tokenVars, stored, posts, signedOut>>

Expire(t) ==
    /\ tab[t].fresh /\ tab[t].task = "idle"
    /\ tab' = [tab EXCEPT ![t].fresh = FALSE]
    /\ UNCHANGED <<accountVars, stored, flights, posts, lost, signedOut, apart>>

\* A request of the page has no usable token, or was refused with the one it
\* had: it starts a refresh unless one is under way, whose promise it shares.
RefreshSession(t) ==
    /\ tab[t].status # "initializing" /\ tab[t].task = "idle"
    /\ ~tab[t].fresh \/ ~Accepts(tab[t].access)
    /\ tab[t].promise = 0 /\ stored # 0
    /\ RoomBeside(flights)
    /\ tab' = [tab EXCEPT ![t].promise = stored]
    /\ flights' = flights \cup {NewFlight(t)}
    /\ UNCHANGED <<accountVars, stored, posts, lost, signedOut, apart>>

\* The server's answer, unless nobody waits for it.
Answer(f, phase, next) ==
    IF f.waits THEN {[f EXCEPT !.phase = phase, !.next = next]} ELSE {}

\* AccountTokenRefreshSerializer: the account and the token are read ...
Check(f) ==
    /\ f.phase = "sent"
    /\ flights' = (flights \ {f}) \cup
          (IF Refreshable(f.token) THEN {[f EXCEPT !.phase = "checked"]}
                                   ELSE Answer(f, "refused", 0))
    /\ UNCHANGED <<accountVars, stored, tab, posts, lost, signedOut, apart>>

\* ... and the token is exchanged, unless it was blacklisted in between.
Exchange(f) ==
    /\ f.phase = "checked"
    /\ \/ /\ Rotate(f.token, issued[f.token])
          /\ flights' = (flights \ {f}) \cup Answer(f, "rotated", Len(issued) + 1)
       \/ /\ f.token \in black
          /\ flights' = (flights \ {f}) \cup Answer(f, "refused", 0)
          /\ UNCHANGED accountVars
    /\ UNCHANGED <<stored, tab, posts, lost, signedOut, apart>>

AfterRestore(t, task) == IF tab[t].task = "restore" THEN task ELSE tab[t].task

\* Defect: the rotated token is not stored.
TakeKeepsOld(f) ==
    LET t == f.tab
    IN  /\ f.waits /\ f.phase = "rotated" /\ f.current
        /\ UNCHANGED <<stored, lost>>
        /\ tab' = [tab EXCEPT
                ![t].access = issued[f.next], ![t].fresh = TRUE, ![t].promise = 0,
                ![t].task = AfterRestore(t, "restore-me"),
                ![t].carry = IF tab[t].task = "restore" THEN issued[f.next] ELSE @]
        /\ flights' = flights \ {f}
        /\ signedOut' = (signedOut /\ t \notin apart)
        /\ UNCHANGED <<accountVars, posts, apart>>
\* The new tokens arrive and replace the old ones.
Take(f) ==
    LET t == f.tab
    IN  /\ f.waits /\ f.phase = "rotated" /\ f.current
        /\ stored' = f.next /\ lost' = FALSE
        /\ tab' = [tab EXCEPT
                ![t].access = issued[f.next], ![t].fresh = TRUE, ![t].promise = 0,
                ![t].task = AfterRestore(t, "restore-me"),
                ![t].carry = IF tab[t].task = "restore" THEN issued[f.next] ELSE @]
        /\ flights' = flights \ {f}
        /\ signedOut' = (signedOut /\ t \notin apart)
        /\ UNCHANGED <<accountVars, posts, apart>>

\* They arrive for a generation that is over: an AbortError, which the restore
\* swallows without leaving "initializing".
Discard(f) ==
    /\ f.waits /\ f.phase = "rotated" /\ ~f.current
    /\ tab' = [tab EXCEPT ![f.tab].task = AfterRestore(f.tab, "idle")]
    /\ flights' = flights \ {f}
    /\ UNCHANGED <<accountVars, stored, posts, lost, signedOut, apart>>

\* A refusal (400, 401, 403) ends the session, of whichever generation it is.
Refused(f) ==
    /\ f.waits /\ f.phase = "refused"
    /\ stored' = 0 /\ lost' = FALSE /\ apart' = Apart(f.tab)
    /\ flights' = NextGeneration(f.tab) \ {f, [f EXCEPT !.current = FALSE]}
    /\ tab' = [tab EXCEPT ![f.tab].access = NoAccess, ![f.tab].fresh = FALSE,
                          ![f.tab].promise = 0, ![f.tab].status = "anonymous",
                          ![f.tab].task = AfterRestore(f.tab, "idle")]
    /\ UNCHANGED <<accountVars, posts, signedOut>>

\* Defect: a promise that failed on the network is kept.
FailKeepsPromise(f) ==
    LET t == f.tab
    IN  /\ f.waits
        /\ tab' = [tab EXCEPT ![t].task = AfterRestore(t, "restore")]
        /\ flights' = (flights \ {f}) \cup Unwaited({f})
        /\ lost' = GivenUp({f})
        /\ UNCHANGED <<accountVars, stored, posts, signedOut, apart>>
\* A timeout, a network or a server error: the stored session is kept.
Fail(f) ==
    LET t == f.tab
    IN  /\ f.waits
        /\ tab' = [tab EXCEPT
                ![t].promise = IF f.current THEN 0 ELSE @,
                ![t].status = IF tab[t].task = "restore" THEN "anonymous" ELSE @,
                ![t].task = AfterRestore(t, "idle")]
        /\ flights' = (flights \ {f}) \cup Unwaited({f})
        /\ lost' = GivenUp({f})
        /\ UNCHANGED <<accountVars, stored, posts, signedOut, apart>>

-------------------------------------------------------------------------------
(* AuthContext.jsx *)

\* login clears the session before it asks for a new one.  The button is
\* disabled while the page initialises.
Login(t) ==
    /\ tab[t].task = "idle" /\ tab[t].status # "initializing"
    /\ Clear(t, tab[t].status, "login", 0)
    /\ UNCHANGED <<accountVars, posts, signedOut>>

LoginServed(t) ==
    /\ tab[t].task = "login"
    /\ \/ /\ IssueToken
          /\ tab' = [tab EXCEPT ![t].task = "login-ok", ![t].carry = Len(issued) + 1]
       \/ /\ tab' = [tab EXCEPT ![t].task = "login-no"]    \* also a wrong password
          /\ UNCHANGED accountVars
    /\ UNCHANGED <<stored, flights, posts, lost, signedOut, apart>>

LoggedIn(t) ==
    /\ tab[t].task = "login-ok"
    /\ Establish(t, tab[t].carry)
    /\ signedOut' = FALSE
    /\ UNCHANGED <<accountVars, posts, apart>>

\* Refused, or the answer did not come.
LoginFailed(t) ==
    /\ tab[t].task \in {"login", "login-ok", "login-no"}
    /\ Clear(t, "anonymous", "idle", 0)
    /\ UNCHANGED <<accountVars, posts, signedOut>>

\* The answer to /me: the profile, which makes the tab authenticated ...
ProfileLoaded(t) ==
    /\ tab[t].task \in {"restore-me", "login-me"} /\ Accepts(tab[t].carry)
    /\ tab' = [tab EXCEPT ![t].status = "authenticated", ![t].task = "idle", ![t].carry = 0]
    /\ UNCHANGED <<accountVars, stored, flights, posts, lost, signedOut, apart>>

\* ... a refusal, and the refresh the client tries then is refused for the same
\* reason: the session is cleared ...
ProfileRefused(t) ==
    /\ tab[t].task \in {"restore-me", "login-me"} /\ ~Accepts(tab[t].carry)
    /\ Clear(t, "anonymous", "idle", 0)
    /\ UNCHANGED <<accountVars, posts, signedOut>>

\* ... or no answer: the restored session stays, a new login is given up.
ProfileLost(t) ==
    /\ \/ /\ tab[t].task = "restore-me"
          /\ tab' = [tab EXCEPT ![t].task = "idle", ![t].carry = 0,
                ![t].status = IF tab[t].fresh THEN "authenticated" ELSE "anonymous"]
          /\ UNCHANGED <<stored, flights, lost, apart>>
       \/ tab[t].task = "login-me" /\ Clear(t, "anonymous", "idle", 0)
    /\ UNCHANGED <<accountVars, posts, signedOut>>

\* logout: at once in the tab; the server hears of it later, or never.
Logout(t) ==
    /\ tab[t].task = "idle" /\ tab[t].status = "authenticated"
    /\ RoomBeside(flights)
    /\ Clear(t, "anonymous", "idle", 0)
    /\ posts' = posts \cup ({stored} \ {0})
    /\ signedOut' = TRUE
    /\ UNCHANGED accountVars

LogoutServed(n) ==
    /\ n \in posts
    /\ posts' = posts \ {n}
    /\ Blacklist(n)
    /\ UNCHANGED <<stored, tab, flights, lost, signedOut, apart>>

ChangePassword(t) ==
    /\ tab[t].task = "idle" /\ tab[t].status = "authenticated" /\ tab[t].fresh
    /\ tab' = [tab EXCEPT ![t].task = "password", ![t].carry = tab[t].access]
    /\ UNCHANGED <<accountVars, stored, flights, posts, lost, signedOut, apart>>

\* The request is taken once.
PasswordServed(t) ==
    /\ tab[t].task = "password" /\ Accepts(tab[t].carry)
    /\ RoomBeside(flights) /\ ReadVersion(t, "password")
    /\ tab' = [tab EXCEPT ![t].carry = NoAccess]
    /\ UNCHANGED <<stored, flights, posts, lost, signedOut, apart>>

PasswordChanged(t) ==
    /\ revoking[t].stage = "done" /\ revoking[t].asks = "password"
    /\ Clear(t, "anonymous", "idle", 0)
    /\ revoking' = Unasked(t)
    /\ UNCHANGED <<tokenVars, posts, signedOut>>

\* Refused, or the answer did not come.
PasswordFailed(t) ==
    /\ tab[t].task = "password"
    /\ tab' = [tab EXCEPT ![t].task = "idle", ![t].carry = 0]
    /\ revoking' = Unasked(t)
    /\ UNCHANGED <<tokenVars, stored, flights, posts, lost, signedOut, apart>>

\* reset_password, with a link that was sent to a usable account; it does not
\* unlock one that was suspended since.
ResetServed(t) ==
    /\ tab[t].task \in {"idle", "restore", "restore-me"}
    /\ RoomBeside(flights) /\ ReadVersion(t, "reset")
    /\ UNCHANGED <<stored, tab, flights, posts, lost, signedOut, apart>>

\* The reset page clears the session, whatever the tab does meanwhile, and leaves the
\* status as it was; without an answer it does nothing.
ResetPage(t) ==
    /\ revoking[t].asks = "reset" /\ revoking' = Unasked(t)
    /\ \/ /\ revoking[t].stage = "done"
          /\ Clear(t, tab[t].status, tab[t].task, tab[t].carry)
       \/ UNCHANGED <<stored, tab, flights, lost, apart>>
    /\ UNCHANGED <<tokenVars, posts, signedOut>>

AdministrationStep ==
    /\ \/ Administration
       \/ \E r \in Staff : RoomBeside(flights) /\ ReadVersion(r, "nobody")
    /\ UNCHANGED <<stored, tab, flights, posts, lost, signedOut, apart>>

-------------------------------------------------------------------------------

RefreshAnswered(f) == Take(f) \/ Discard(f) \/ Refused(f) \/ Fail(f)
ProfileAnswered(t) == ProfileLoaded(t) \/ ProfileRefused(t) \/ ProfileLost(t)

Next ==
    \/ \E t \in Tabs :
          \/ Restore(t) \/ Expire(t) \/ RefreshSession(t)
          \/ Login(t) \/ LoginServed(t) \/ LoggedIn(t) \/ LoginFailed(t)
          \/ ProfileAnswered(t) \/ Logout(t) \/ ResetServed(t) \/ ResetPage(t)
          \/ ChangePassword(t) \/ PasswordServed(t) \/ PasswordChanged(t)
          \/ PasswordFailed(t)
    \/ \E f \in flights : Check(f) \/ Exchange(f) \/ RefreshAnswered(f)
    \/ \E n \in Tokens : LogoutServed(n)
    \/ AdministrationStep

\* The browser's client times out: a refresh and a /me request are answered, well or not.
Fairness ==
    /\ \A t \in Tabs :
          /\ WF_vars(\E f \in flights : f.tab = t /\ RefreshAnswered(f))
          /\ WF_vars(ProfileAnswered(t))

Spec == Init /\ [][Next]_vars /\ Fairness

-------------------------------------------------------------------------------
(* Properties *)

\* The rows and the tabs keep their types, and the promise of a tab is that of
\* a request of the current generation that it still waits for.
SessionTypeOK ==
    /\ AccountsTypeOK
    /\ stored \in {0} \cup Tokens
    /\ tab \in [Tabs -> Tab]
    /\ flights \subseteq Flight /\ posts \subseteq Tokens /\ lost \in BOOLEAN
    /\ \A t \in Tabs : tab[t].promise # 0 =>
          \E f \in flights : /\ f.tab = t /\ f.token = tab[t].promise
                            /\ f.waits /\ f.current

\* The browser throws no session away: the token it stores is one the server
\* still exchanges, unless the account was suspended or deactivated, a revocation
\* has come as far as this token or has written its version, or the answer that
\* brings its successor is awaited or was lost.
StoredTokenIsLive ==
    stored # 0 =>
        \/ stored \in Live
        \/ ~Usable \/ issued[stored] # account.version \/ stored \in revoked
        \/ lost
        \/ \E f \in flights : f.token = stored /\ f.waits

\* What a tab holds in memory is what the browser stores, and nothing is held
\* between a logout and the next login, however late the answers to requests
\* of the old session come.  Other tabs that had the session, or waited for it,
\* keep it in memory, and may store it again: a tab that had nothing when the
\* session was cleared gets nothing, and stores nothing.
LogoutIsKept ==
    /\ signedOut => stored = 0
    /\ stored = 0 => \A t \in Tabs \ apart : tab[t].access = NoAccess

\* The restore of a session ends, whatever the network does, unless the reset
\* page cleared the session meanwhile.
RestoreEnds ==
    \A t \in Tabs :
        tab[t].status = "initializing"
            ~> (tab[t].status # "initializing" \/ stored = 0)

-------------------------------------------------------------------------------
(* A statement of the frontend's README *)

\* "Les erreurs réseau ne doivent pas effacer une session restaurable."
NetworkErrorsKeepSession ==
    [][(stored \in Live /\ \E t \in Tabs : ProfileLost(t)) => stored' = stored]_vars
===============================================================================
