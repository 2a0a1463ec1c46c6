------------------------------ MODULE Registration ------------------------------
(***************************************************************************)
(* How customer accounts come to be and how their rows are edited:         *)
(* registration, the links sent by e-mail (verification and reset share    *)
(* one token generator), password and profile edits by their owner, and    *)
(* the administration's forms and actions.                                 *)
(*                                                                         *)
(* No request here locks a row or spans one transaction, so that each is a *)
(* read and a later write: a worker keeps what it read in between.  What   *)
(* happens to a customer's tokens (revoke_user_tokens after a password     *)
(* change) and is_active are Accounts' and Sessions' subject.  Staff       *)
(* accounts, which have no customer profile, are left out.                 *)
(***************************************************************************)
EXTENDS Naturals, FiniteSets

CONSTANTS
    Users,       \* the rows accounts may take
    Servers,     \* workers: requests served at a time
    Idling,      \* a worker without a request
    MaxHashes,   \* bound on the passwords ever set
    MaxLinks     \* bound on the links in mailboxes

ASSUME RegistrationAssumption ==
    Idling \notin Users \cup Servers /\ {MaxHashes, MaxLinks} \subseteq Nat

VARIABLES
    accounts,  \* accounts[u]: the auth_user row and its customer row
    hashes,    \* the number of passwords hashed so far
    links,     \* links in somebody's mailbox: [user, email, password]
    worker     \* worker[w]: its request and what it read, or Idling

regVars == <<accounts, hashes, links, worker>>

-------------------------------------------------------------------------------
(* Addresses *)

\* What can be typed: two spellings of one mailbox's name, and another's.
Typed == [local: {"ann", "Ann", "bob"}, domain: {"shop", "Shop"}]
Lowered == [s \in {"ann", "Ann", "bob", "shop", "Shop"} |->
               CASE s = "Ann" -> "ann" [] s = "Shop" -> "shop" [] OTHER -> s]

\* The domain only; the index and the lookups compare without case.
normalize_email(a) == [a EXCEPT !.domain = Lowered[@]]
Fold(a) == [local |-> Lowered[a.local], domain |-> Lowered[a.domain]]
iexact(a, b) == Fold(a) = Fold(b)

Address == {normalize_email(a) : a \in Typed}

Absent == [present |-> FALSE]
Registered == {u \in Users : accounts[u].present}

-------------------------------------------------------------------------------
(* The registration form's other fields *)

Form == [name: {"", "letter", "letters"}, country: {"", "region", "unknown"},
         phone: {"", "+international", "international", "national", "letters"},
         password: {"", "short", "common", "digits", "like the email", "sound"},
         confirmed: BOOLEAN]

\* auth.js, before anything is sent.
validatePassword(f) == f.password \notin {"", "short"} /\ f.confirmed
validateRegister(f) ==
    /\ f.name = "letters" /\ f.country # "" /\ f.phone # "letters"
    /\ validatePassword(f)
\* The page's select lists regions, and a number is sent as libphonenumber formats it.
Sent(f) == validateRegister(f) /\ f.country # "unknown" /\ f.phone \in {"", "+international"}

\* The server's: the settings' AUTH_PASSWORD_VALIDATORS, and phonenumbers.
validate_password(f) == f.password = "sound"
validate_country_code(f) == f.country # "unknown"
normalize_phone_number(f) == f.phone \notin {"national", "letters"}
RegisterFields(f) ==
    validate_password(f) /\ validate_country_code(f) /\ normalize_phone_number(f)
AcceptedForms == {f \in Form : RegisterFields(f)}

-------------------------------------------------------------------------------
(* Lookups *)

\* The accounts a lookup by address may return.
WithEmail(a) == {u \in Registered : iexact(accounts[u].email, a)}

\* EmailBackend.authenticate: get() finds one account or nobody is let in.
Matches(a) == {u \in Registered : iexact(accounts[u].email, a) \/ iexact(accounts[u].username, a)}

\* can_authenticate_user
CanAuthenticate(r) == ~r.suspended /\ r.verified

-------------------------------------------------------------------------------
(* Workers *)

Serve(w, request) == worker[w] = Idling /\ worker' = [worker EXCEPT ![w] = request]
Serving(w, op) == worker[w] # Idling /\ worker[w].op = op
Free(w) == worker' = [worker EXCEPT ![w] = Idling]

Write(u, row) == accounts' = [accounts EXCEPT ![u] = row]

\* The process dies, or the client's request is refused for its form.
Drop(w) == worker[w] # Idling /\ Free(w) /\ UNCHANGED <<accounts, hashes, links>>

-------------------------------------------------------------------------------
(* Registration *)

\* RegisterSerializer.validate_email, after validate and the other fields'.
RegisterValidate(w, a) ==
    /\ AcceptedForms # {}
    /\ WithEmail(normalize_email(a)) = {}
    /\ Serve(w, [op |-> "register", email |-> normalize_email(a)])
    /\ UNCHANGED <<accounts, hashes, links>>

\* Defect: without the index, only the spelling is unique.
UniqueSpelling(u, email, username) == \A v \in Registered \ {u} : accounts[v].username # username
\* The unique index on LOWER(BTRIM(email)), and the one on username.
Unique(u, email, username) ==
    \A v \in Registered \ {u} : ~iexact(accounts[v].email, email) /\ accounts[v].username # username

\* The token's hash covers the password and the e-mail.
Link(u, row) == [user |-> u, email |-> row.email, password |-> row.password]

Mail(u, row) == links' = links \cup {Link(u, row)} /\ Cardinality(links') <= MaxLinks

\* create: both rows or none ("déjà utilisée"); the mail may be lost.
RegisterInsert(w, u) ==
    LET email == worker[w].email
        row == [present |-> TRUE, email |-> email, username |-> email,
                password |-> hashes + 1, verified |-> FALSE,
                suspended |-> FALSE]
    IN  /\ Serving(w, "register") /\ u \notin Registered /\ hashes < MaxHashes
        /\ Unique(u, email, email)
        /\ Write(u, row) /\ hashes' = hashes + 1
        /\ (Mail(u, row) \/ UNCHANGED links)
        /\ Free(w)

RegisterRefused(w) ==
    /\ Serving(w, "register") /\ ~Unique(Idling, worker[w].email, worker[w].email)
    /\ Free(w) /\ UNCHANGED <<accounts, hashes, links>>

-------------------------------------------------------------------------------
(* Links *)

\* request_password_reset answers the same whether or not a mail is sent.
RequestReset(a) ==
    /\ \E u \in WithEmail(normalize_email(a)) :
        /\ CanAuthenticate(accounts[u])
        /\ Mail(u, accounts[u])
    /\ UNCHANGED <<accounts, hashes, worker>>

\* default_token_generator.check_token; a link nobody opens in time is one nobody opens.
check_token(link) == link = Link(link.user, accounts[link.user])

VerifyRead(w, link) ==
    /\ check_token(link)
    /\ ~accounts[link.user].verified
    /\ Serve(w, [op |-> "verify", user |-> link.user, row |-> accounts[link.user]])
    /\ UNCHANGED <<accounts, hashes, links>>

VerifySave(w) ==
    /\ Serving(w, "verify")
    /\ accounts' = [accounts EXCEPT ![worker[w].user].verified = TRUE]
    /\ Free(w) /\ UNCHANGED <<hashes, links>>

\* reset_password up to the save, for any account the link is good for.
ResetRead(w, link) ==
    /\ check_token(link)
    /\ Serve(w, [op |-> "password", user |-> link.user])
    /\ UNCHANGED <<accounts, hashes, links>>

\* change_password: a signed-in customer types the current password.
ChangeRead(w, u) ==
    /\ u \in Registered /\ CanAuthenticate(accounts[u])
    /\ Serve(w, [op |-> "password", user |-> u])
    /\ UNCHANGED <<accounts, hashes, links>>

PasswordSave(w) ==
    /\ Serving(w, "password") /\ hashes < MaxHashes
    /\ hashes' = hashes + 1
    /\ accounts' = [accounts EXCEPT ![worker[w].user].password = hashes + 1]
    /\ Free(w) /\ UNCHANGED links

-------------------------------------------------------------------------------
(* Edits that read a row and write all of it back *)

\* CustomerUpdateSerializer.update ends with instance.save(), and so does CustomerAdmin's
\* form: every column of the customer row, those it only read included.
ProfileRead(w, u) ==
    /\ u \in Registered
    /\ Serve(w, [op |-> "profile", user |-> u, row |-> accounts[u]])
    /\ UNCHANGED <<accounts, hashes, links>>
ProfileSave(w) ==
    LET u == worker[w].user
    IN  /\ Serving(w, "profile")
        /\ Write(u, [accounts[u] EXCEPT !.verified = worker[w].row.verified,
                                    !.suspended = worker[w].row.suspended])
        /\ Free(w) /\ UNCHANGED <<hashes, links>>

\* SecureUserChangeForm: the auth_user row, its password as it was read.
UserFormRead(w, u, a) ==
    /\ u \in Registered
    /\ WithEmail(normalize_email(a)) \subseteq {u}
    /\ Serve(w, [op |-> "user_form", user |-> u,
                row |-> [accounts[u] EXCEPT !.email = normalize_email(a)]])
    /\ UNCHANGED <<accounts, hashes, links>>
UserFormSave(w) ==
    LET u == worker[w].user
        row == worker[w].row
    IN  /\ Serving(w, "user_form") /\ Unique(u, row.email, row.username)
        /\ Write(u, [accounts[u] EXCEPT !.email = row.email, !.password = row.password])
        /\ Free(w) /\ UNCHANGED <<hashes, links>>

-------------------------------------------------------------------------------
(* The administration's actions *)

\* suspend_user, whose update_fields are constants.
SuspendUser(u) ==
    /\ u \in Registered
    /\ accounts' = [accounts EXCEPT ![u].suspended = TRUE]
    /\ UNCHANGED <<hashes, links, worker>>
UnsuspendUser(u) ==
    /\ u \in Registered
    /\ accounts' = [accounts EXCEPT ![u].suspended = FALSE]
    /\ UNCHANGED <<hashes, links, worker>>

-------------------------------------------------------------------------------
(* Specification *)

RegInit ==
    /\ accounts = [u \in Users |-> Absent] /\ hashes = 0
    /\ links = {}
    /\ worker = [w \in Servers |-> Idling]

RegNext ==
    \/ \E w \in Servers :
        \/ \E a \in Typed : RegisterValidate(w, a) \/ \E u \in Users : UserFormRead(w, u, a)
        \/ \E u \in Users : RegisterInsert(w, u) \/ ChangeRead(w, u) \/ ProfileRead(w, u)
        \/ \E link \in links : VerifyRead(w, link) \/ ResetRead(w, link)
        \/ RegisterRefused(w) \/ VerifySave(w) \/ PasswordSave(w) \/ ProfileSave(w)
        \/ UserFormSave(w) \/ Drop(w)
    \/ \E a \in Typed : RequestReset(a)
    \/ \E u \in Users : SuspendUser(u) \/ UnsuspendUser(u)

RegSpec == RegInit /\ [][RegNext]_regVars

-------------------------------------------------------------------------------
(* Properties *)

\* No two accounts have one mailbox, however it is spelt and whoever saved it;
\* and where the administration has edited no address, a customer's own finds
\* its account and no other, in any spelling.
OneAccountPerAddress ==
    /\ \A u, v \in Registered : iexact(accounts[u].email, accounts[v].email) => u = v
    /\ (\A u \in Registered : accounts[u].email = accounts[u].username) =>
        \A u \in Registered, a \in Typed : iexact(a, accounts[u].email) => Matches(a) = {u}

Lifted(u) == accounts[u].suspended /\ ~accounts'[u].suspended
Unverified(u) == accounts[u].verified /\ ~accounts'[u].verified
PasswordBack(u) == accounts'[u].password < accounts[u].password

\* No request about something else takes a column of an account back: a suspension is
\* lifted by unsuspend_user and a verification lost to nothing, but for a profile that
\* was read before and is saved whole; an old password comes back with a user form only.
OnlyWholeSavesGoBack ==
    [][\A u \in Registered :
        LET Saved(Save(_)) == \E w \in Servers : Save(w) /\ worker[w].user = u
        IN  /\ Lifted(u) => UnsuspendUser(u) \/ Saved(ProfileSave)
            /\ Unverified(u) => Saved(ProfileSave)
            /\ PasswordBack(u) => Saved(UserFormSave)]_regVars

\* A suspension is lifted by unsuspend_user and nothing else.
SuspensionHolds == [][\A u \in Registered : Lifted(u) => UnsuspendUser(u)]_regVars
===============================================================================
