-------------------------------- MODULE Auth --------------------------------
(***************************************************************************)
(* Credentials and sessions (src/modules/auth/auth.service.ts), with the   *)
(* erasure and suspension of accounts (modules/users, modules/admin).      *)
(*                                                                         *)
(* Every handler reads the UserAuth row, awaits (bcrypt, the next query)   *)
(* and writes what it computed from the row it read: a request is a        *)
(* record in authReq, and a read and its write are separate actions.       *)
(***************************************************************************)
EXTENDS Naturals, FiniteSets

CONSTANTS
    Users,
    Passwords,
    Clients,        \* requests in flight at once (a bound)
    MaxAttempts,    \* MAX_LOGIN_ATTEMPTS
    MaxResets,      \* MAX_RESETS
    MaxFailures,    \* failed logins of a user (a bound)
    MaxCodes,       \* reset codes and tokens ever minted (a bound)
    NoRow, NoPassword

ASSUME AuthAssumption ==
    /\ MaxAttempts \in Nat \ {0} /\ MaxResets \in Nat \ {0}
    /\ MaxFailures \in Nat /\ MaxCodes \in Nat
    /\ NoPassword \notin Passwords
    /\ IsFiniteSet(Clients)

VARIABLES
    account,    \* the User row: active, verified, erased
    auth,       \* the UserAuth row
    authReq,    \* the request each client is waiting for
    minted,     \* reset codes and tokens so far
    failures,   \* history: failed password checks
    resets      \* history: password resets of the current window

authVars == <<account, auth, authReq, minted, failures, resets>>

-----------------------------------------------------------------------------
Accounts == [active : BOOLEAN, verified : BOOLEAN, erased : BOOLEAN]

\* passwordResetTokenHash holds an e-mailed code or the token it was exchanged for.
Secrets == [kind : {"none", "code", "token"}, id : Nat]
NoSecret == [kind |-> "none", id |-> 0]

\* refresh: whether a refresh token is stored.
Rows ==
    [password : Passwords \cup {NoPassword}, google : BOOLEAN,
     attempts : Nat, locked : BOOLEAN, refresh : BOOLEAN,
     reset : Secrets, window : BOOLEAN, resetCount : Nat,
     twoFactor : BOOLEAN, secret : BOOLEAN]

ASSUME AuthRowsAssumption == NoRow \notin Accounts \cup Rows

NewRow(password, google) ==
    [password |-> password, google |-> google, attempts |-> 0, locked |-> FALSE,
     refresh |-> FALSE, reset |-> NoSecret,
     window |-> FALSE, resetCount |-> 0, twoFactor |-> FALSE, secret |-> FALSE]

Quiet == [at |-> "idle"]

AuthRequests ==
    {Quiet}
    \cup [at : {"register"}, user : Users, password : Passwords]
    \cup [at : {"failed"}, user : Users, attempts : Nat]
    \cup [at : {"passed"}, user : Users, twoFactor : BOOLEAN]
    \cup [at : {"link"}, user : Users, active : BOOLEAN]
    \cup [at : {"join", "tokens", "pending", "reuse", "exchange",
                "secret", "confirm", "disable"}, user : Users]
    \cup [at : {"code"}, user : Users, window : BOOLEAN, count : Nat]
    \cup [at : {"reset"}, user : Users, password : Passwords,
          window : BOOLEAN, count : Nat]
    \cup [at : {"change"}, user : Users, password : Passwords]

AuthInit ==
    /\ account = [u \in Users |-> NoRow]
    /\ auth = [u \in Users |-> NoRow]
    /\ authReq = [c \in Clients |-> Quiet]
    /\ minted = 0
    /\ failures = [u \in Users |-> 0]
    /\ resets = [u \in Users |-> 0]

Stage(c, at) == authReq[c].at = at
Await(c, request) == authReq' = [authReq EXCEPT ![c] = request]
Answer(c) == Await(c, Quiet)

\* prisma.userAuth.update throws (P2025) when the row is gone.
Update(u, row) == auth[u] # NoRow /\ auth' = [auth EXCEPT ![u] = row]
UpdateFails(c) == auth[authReq[c].user] = NoRow /\ Answer(c) /\ UNCHANGED auth

\* Fault: an upsert brings the row back.
Upsert(u, row) ==
    auth' = [auth EXCEPT ![u] = IF @ = NoRow THEN NewRow(NoPassword, FALSE) ELSE row]

Loaded(u) == account[u] # NoRow /\ auth[u] # NoRow

-----------------------------------------------------------------------------
(* Registration, login and tokens *)

Register(c, u, p) ==
    /\ authReq[c] = Quiet
    /\ account[u] = NoRow
    /\ Await(c, [at |-> "register", user |-> u, password |-> p])
    /\ UNCHANGED <<account, auth, minted, failures, resets>>

\* user.create: the unique e-mail refuses a second one.
CreateUser(c) ==
    /\ Stage(c, "register")
    /\ LET u == authReq[c].user IN
         IF account[u] # NoRow
         THEN Answer(c) /\ UNCHANGED <<account, auth>>
         ELSE /\ account' = [account EXCEPT ![u] =
                     [active |-> TRUE, verified |-> FALSE, erased |-> FALSE]]
              /\ auth' = [auth EXCEPT ![u] = NewRow(authReq[c].password, FALSE)]
              /\ Await(c, [at |-> "tokens", user |-> u])
    /\ UNCHANGED <<minted, failures, resets>>

\* The row is read once: bcrypt compares, and attempts are counted, from it.
Login(c, u, p) ==
    /\ authReq[c] = Quiet
    /\ Loaded(u)
    /\ auth[u].password # NoPassword
    /\ account[u].active
    /\ ~auth[u].locked
    /\ IF p = auth[u].password
       THEN /\ Await(c, [at |-> "passed", user |-> u, twoFactor |-> auth[u].twoFactor])
            /\ UNCHANGED failures
       ELSE /\ failures[u] < MaxFailures
            /\ failures' = [failures EXCEPT ![u] = @ + 1]
            /\ Await(c, [at |-> "failed", user |-> u, attempts |-> auth[u].attempts + 1])
    /\ UNCHANGED <<account, auth, minted, resets>>

\* Fault: an attempt too early.
LocksEarly(attempts) == attempts + 1 >= MaxAttempts
Locks(attempts) == attempts >= MaxAttempts

CountFailure(c) ==
    /\ Stage(c, "failed")
    /\ LET u == authReq[c].user
           n == authReq[c].attempts IN
         \/ UpdateFails(c)
         \/ Update(u, [auth[u] EXCEPT !.attempts = n, !.locked = Locks(n)]) /\ Answer(c)
    /\ UNCHANGED <<account, minted, failures, resets>>

ResetLockout(c) ==
    /\ Stage(c, "passed")
    /\ LET u == authReq[c].user IN
         \/ UpdateFails(c)
         \/ /\ Update(u, [auth[u] EXCEPT !.attempts = 0, !.locked = FALSE])
            /\ Await(c, [at |-> IF authReq[c].twoFactor THEN "pending" ELSE "tokens",
                         user |-> u])
    /\ UNCHANGED <<account, minted, failures, resets>>

\* The temporary token is answered with a code, or expires.
VerifyTwoFactor(c) ==
    /\ Stage(c, "pending")
    /\ LET u == authReq[c].user IN
         \/ Answer(c)
         \/ auth[u] # NoRow /\ auth[u].secret /\ Await(c, [at |-> "tokens", user |-> u])
    /\ UNCHANGED <<account, auth, minted, failures, resets>>

GoogleLogin(c, u) ==
    /\ authReq[c] = Quiet
    /\ \/ /\ Loaded(u) /\ auth[u].google /\ account[u].active
          /\ Await(c, [at |-> "tokens", user |-> u])
       \/ /\ account[u] # NoRow /\ ~account[u].erased
          /\ ~(auth[u] # NoRow /\ auth[u].google)
          /\ Await(c, [at |-> "link", user |-> u, active |-> account[u].active])
       \/ /\ account[u] = NoRow
          /\ Await(c, [at |-> "join", user |-> u])
    /\ UNCHANGED <<account, auth, minted, failures, resets>>

\* An account of that e-mail is linked, active or not, before isActive is tested.
LinkGoogle(c) ==
    /\ Stage(c, "link")
    /\ LET u == authReq[c].user IN
         \/ UpdateFails(c)
         \/ /\ Update(u, [auth[u] EXCEPT !.google = TRUE])
            /\ IF authReq[c].active THEN Await(c, [at |-> "tokens", user |-> u])
                                    ELSE Answer(c)
    /\ UNCHANGED <<account, minted, failures, resets>>

JoinByGoogle(c) ==
    /\ Stage(c, "join")
    /\ LET u == authReq[c].user IN
         IF account[u] # NoRow
         THEN Answer(c) /\ UNCHANGED <<account, auth>>
         ELSE /\ account' = [account EXCEPT ![u] =
                     [active |-> TRUE, verified |-> TRUE, erased |-> FALSE]]
              /\ auth' = [auth EXCEPT ![u] = NewRow(NoPassword, TRUE)]
              /\ Await(c, [at |-> "tokens", user |-> u])
    /\ UNCHANGED <<minted, failures, resets>>

\* Fault: the tokens of a row that is gone are stored in a new one.
GenerateTokensUpserting(c) ==
    /\ Stage(c, "tokens")
    /\ LET u == authReq[c].user IN Upsert(u, [auth[u] EXCEPT !.refresh = TRUE])
    /\ Answer(c)
    /\ UNCHANGED <<account, minted, failures, resets>>

\* Stored over whatever token was there.
GenerateTokens(c) ==
    /\ Stage(c, "tokens")
    /\ LET u == authReq[c].user IN
         \/ UpdateFails(c)
         \/ Update(u, [auth[u] EXCEPT !.refresh = TRUE]) /\ Answer(c)
    /\ UNCHANGED <<account, minted, failures, resets>>

\* The token presented is the stored one, or one that was replaced.
RefreshToken(c, u) ==
    /\ authReq[c] = Quiet
    /\ Loaded(u) /\ account[u].active
    /\ \/ auth[u].refresh /\ Await(c, [at |-> "tokens", user |-> u])
       \/ Await(c, [at |-> "reuse", user |-> u])
    /\ UNCHANGED <<account, auth, minted, failures, resets>>

\* Fault: the session is taken out with the field it is kept in.
EndSessionWithField(c) ==
    /\ Stage(c, "reuse")
    /\ LET u == authReq[c].user IN
         \/ UpdateFails(c)
         \/ Update(u, [auth[u] EXCEPT !.refresh = NoRow]) /\ Answer(c)
    /\ UNCHANGED <<account, minted, failures, resets>>

\* "Refresh token reuse detected": the session ends for everybody.
EndSession(c) ==
    /\ Stage(c, "reuse")
    /\ LET u == authReq[c].user IN
         \/ UpdateFails(c)
         \/ Update(u, [auth[u] EXCEPT !.refresh = FALSE]) /\ Answer(c)
    /\ UNCHANGED <<account, minted, failures, resets>>

Logout(u) ==
    /\ Loaded(u) /\ account[u].active
    /\ Update(u, [auth[u] EXCEPT !.refresh = FALSE])
    /\ UNCHANGED <<account, authReq, minted, failures, resets>>

-----------------------------------------------------------------------------
(* E-mail verification *)

\* The link of the registration, or of a later resend, is used up.
VerifyEmail(u) ==
    /\ Loaded(u)
    /\ ~account[u].verified
    /\ account' = [account EXCEPT ![u].verified = TRUE]
    /\ UNCHANGED <<auth, authReq, minted, failures, resets>>

-----------------------------------------------------------------------------
(* Passwords *)

Count(row) == IF row.window THEN row.resetCount ELSE 0

WithinLimit(row) == Count(row) < MaxResets

ForgotPassword(c, u) ==
    /\ authReq[c] = Quiet
    /\ Loaded(u)
    /\ WithinLimit(auth[u])
    /\ Await(c, [at |-> "code", user |-> u, window |-> auth[u].window,
                 count |-> Count(auth[u])])
    /\ UNCHANGED <<account, auth, minted, failures, resets>>

\* The count that was read is written back with the new code.
StoreCode(c) ==
    /\ Stage(c, "code")
    /\ LET u == authReq[c].user IN
         \/ UpdateFails(c) /\ UNCHANGED minted
         \/ /\ minted < MaxCodes
            /\ minted' = minted + 1
            /\ Update(u, [auth[u] EXCEPT !.reset = [kind |-> "code", id |-> minted'],
                          !.window = TRUE, !.resetCount = authReq[c].count])
            /\ Answer(c)
    /\ UNCHANGED <<account, failures, resets>>

\* Six characters: only a code can be presented.
VerifyResetOtp(c, u) ==
    /\ authReq[c] = Quiet
    /\ Loaded(u)
    /\ auth[u].reset.kind = "code"
    /\ Await(c, [at |-> "exchange", user |-> u])
    /\ UNCHANGED <<account, auth, minted, failures, resets>>

ExchangeCode(c) ==
    /\ Stage(c, "exchange")
    /\ LET u == authReq[c].user IN
         \/ UpdateFails(c) /\ UNCHANGED minted
         \/ /\ minted < MaxCodes
            /\ minted' = minted + 1
            /\ Update(u, [auth[u] EXCEPT !.reset = [kind |-> "token", id |-> minted']])
            /\ Answer(c)
    /\ UNCHANGED <<account, failures, resets>>

\* Whatever passwordResetTokenHash holds is accepted, a code included.
ResetPassword(c, u, p) ==
    /\ authReq[c] = Quiet
    /\ Loaded(u)
    /\ auth[u].reset # NoSecret
    /\ Await(c, [at |-> "reset", user |-> u, password |-> p,
                 window |-> auth[u].window, count |-> Count(auth[u]) + 1])
    /\ UNCHANGED <<account, auth, minted, failures, resets>>

\* Fault: the token is left as it was.
StorePasswordKeepingToken(c) ==
    /\ Stage(c, "reset")
    /\ LET u == authReq[c].user IN
         \/ UpdateFails(c) /\ UNCHANGED resets
         \/ /\ Update(u, [auth[u] EXCEPT !.password = authReq[c].password,
                          !.window = TRUE, !.resetCount = authReq[c].count])
            /\ resets' = [resets EXCEPT ![u] = @ + 1]
            /\ Answer(c)
    /\ UNCHANGED <<account, minted, failures>>

StorePassword(c) ==
    /\ Stage(c, "reset")
    /\ LET u == authReq[c].user IN
         \/ UpdateFails(c) /\ UNCHANGED resets
         \/ /\ Update(u, [auth[u] EXCEPT !.password = authReq[c].password,
                          !.reset = NoSecret, !.refresh = FALSE, !.attempts = 0,
                          !.locked = FALSE, !.window = TRUE,
                          !.resetCount = authReq[c].count])
            /\ resets' = [resets EXCEPT ![u] = @ + 1]
            /\ Answer(c)
    /\ UNCHANGED <<account, minted, failures>>

ChangePassword(c, u, current, p) ==
    /\ authReq[c] = Quiet
    /\ Loaded(u) /\ account[u].active
    /\ current = auth[u].password
    /\ Await(c, [at |-> "change", user |-> u, password |-> p])
    /\ UNCHANGED <<account, auth, minted, failures, resets>>

StoreChange(c) ==
    /\ Stage(c, "change")
    /\ LET u == authReq[c].user IN
         \/ UpdateFails(c)
         \/ Update(u, [auth[u] EXCEPT !.password = authReq[c].password, !.refresh = FALSE])
            /\ Answer(c)
    /\ UNCHANGED <<account, minted, failures, resets>>

-----------------------------------------------------------------------------
(* Two-factor authentication *)

Enable2FA(c, u) ==
    /\ authReq[c] = Quiet
    /\ Loaded(u) /\ account[u].active
    /\ ~auth[u].twoFactor
    /\ Await(c, [at |-> "secret", user |-> u])
    /\ UNCHANGED <<account, auth, minted, failures, resets>>

Confirm2FA(c, u) ==
    /\ authReq[c] = Quiet
    /\ Loaded(u) /\ account[u].active
    /\ auth[u].secret /\ ~auth[u].twoFactor
    /\ Await(c, [at |-> "confirm", user |-> u])
    /\ UNCHANGED <<account, auth, minted, failures, resets>>

Disable2FA(c, u) ==
    /\ authReq[c] = Quiet
    /\ Loaded(u) /\ account[u].active
    /\ auth[u].twoFactor /\ auth[u].secret
    /\ Await(c, [at |-> "disable", user |-> u])
    /\ UNCHANGED <<account, auth, minted, failures, resets>>

\* The three handlers check the row they read and then write their fields.
StoreTwoFactor(c) ==
    /\ authReq[c].at \in {"secret", "confirm", "disable"}
    /\ LET u == authReq[c].user IN
         \/ UpdateFails(c)
         \/ /\ Update(u,
                 CASE Stage(c, "secret")  -> [auth[u] EXCEPT !.secret = TRUE]
                   [] Stage(c, "confirm") -> [auth[u] EXCEPT !.twoFactor = TRUE]
                   [] Stage(c, "disable") -> [auth[u] EXCEPT !.twoFactor = FALSE,
                                                             !.secret = FALSE])
            /\ Answer(c)
    /\ UNCHANGED <<account, minted, failures, resets>>

-----------------------------------------------------------------------------
(* Administration and time *)

\* deleteAccount and deleteUser: the row stays, the credentials go.
Erase(u) ==
    /\ account[u] # NoRow
    /\ account' = [account EXCEPT ![u] =
            [active |-> FALSE, verified |-> FALSE, erased |-> TRUE]]
    /\ auth' = [auth EXCEPT ![u] = NoRow]
    /\ UNCHANGED <<authReq, minted, failures, resets>>

SetActive(u, active) ==
    /\ account[u] # NoRow
    /\ account' = [account EXCEPT ![u].active = active]
    /\ UNCHANGED <<auth, authReq, minted, failures, resets>>

\* lockedUntil passes; loginAttempts stays what it was.
ExpireLock(u) ==
    /\ auth[u] # NoRow /\ auth[u].locked
    /\ Update(u, [auth[u] EXCEPT !.locked = FALSE])
    /\ UNCHANGED <<account, authReq, minted, failures, resets>>

\* An expired code or token is refused like none at all.
ExpireReset(u) ==
    /\ auth[u] # NoRow /\ auth[u].reset # NoSecret
    /\ Update(u, [auth[u] EXCEPT !.reset = NoSecret])
    /\ UNCHANGED <<account, authReq, minted, failures, resets>>

\* Thirty days pass: no request lasts as long.
ExpireWindow(u) ==
    /\ auth[u] # NoRow /\ auth[u].window
    /\ \A c \in Clients : authReq[c] = Quiet
    /\ Update(u, [auth[u] EXCEPT !.window = FALSE])
    /\ resets' = [resets EXCEPT ![u] = 0]
    /\ UNCHANGED <<account, authReq, minted, failures>>

AuthNext ==
    \/ \E c \in Clients, u \in Users :
         \/ \E p \in Passwords : Register(c, u, p) \/ Login(c, u, p) \/ ResetPassword(c, u, p)
         \/ \E p, q \in Passwords : ChangePassword(c, u, p, q)
         \/ RefreshToken(c, u) \/ GoogleLogin(c, u)
         \/ ForgotPassword(c, u) \/ VerifyResetOtp(c, u)
         \/ Enable2FA(c, u) \/ Confirm2FA(c, u) \/ Disable2FA(c, u)
    \/ \E c \in Clients :
         \/ CreateUser(c) \/ CountFailure(c) \/ ResetLockout(c) \/ VerifyTwoFactor(c)
         \/ LinkGoogle(c) \/ JoinByGoogle(c) \/ GenerateTokens(c) \/ EndSession(c)
         \/ StoreCode(c) \/ ExchangeCode(c) \/ StorePassword(c) \/ StoreChange(c)
         \/ StoreTwoFactor(c)
    \/ \E u \in Users :
         \/ Logout(u) \/ VerifyEmail(u)
         \/ Erase(u) \/ \E active \in BOOLEAN : SetActive(u, active)
         \/ ExpireLock(u) \/ ExpireReset(u) \/ ExpireWindow(u)

AuthSpec == AuthInit /\ [][AuthNext]_authVars

-----------------------------------------------------------------------------
(* Properties *)

\* Every variable keeps its type, and every request what its handler carries.
AuthTypeOK ==
    /\ account \in [Users -> Accounts \cup {NoRow}]
    /\ auth \in [Users -> Rows \cup {NoRow}]
    /\ authReq \in [Clients -> AuthRequests]
    /\ minted \in 0..MaxCodes
    /\ failures \in [Users -> 0..MaxFailures]
    /\ resets \in [Users -> Nat]

\* "Erase auth credentials so account cannot be used": once an account is
\* erased no request that was on its way gives it credentials or a session.
ErasedHasNoCredentials ==
    \A u \in Users : account[u] # NoRow /\ account[u].erased => auth[u] = NoRow

\* Nobody is locked out by fewer than MAX_LOGIN_ATTEMPTS wrong passwords,
\* however failures, successes and resets overlap.
LockIsEarned ==
    \A u \in Users : auth[u] # NoRow =>
        /\ auth[u].attempts <= failures[u]
        /\ auth[u].locked => failures[u] >= MaxAttempts

\* A code and the token it is exchanged for are spent by the reset they allow:
\* only requests that overlap can use one twice, each at most once.
ResetsAreSpent ==
    \A u \in Users : resets[u] <= Cardinality(Clients) * minted
=============================================================================
