---------------------------- MODULE AccountsProofs ----------------------------
(***************************************************************************)
(* Proofs about Auth, for any number of users, passwords, requests in      *)
(* flight, failed logins and codes, and any limits; about Onboarding, for  *)
(* any number of persons, applications and requests in flight; and about   *)
(* Totp, for any secret, window and clock.                                 *)
(***************************************************************************)
EXTENDS MCAccounts, SumTheorems, SequenceTheorems, FiniteSetTheorems, TLAPS

-----------------------------------------------------------------------------
(***************************************************************************)
(* Auth                                                                    *)
(***************************************************************************)

\* The failures a login has counted did happen.
FailureIsKnown(j) == j.at = "failed" => j.attempts <= failures[j.user]

AuthInv ==
    /\ AuthTypeOK
    /\ \A c \in Clients : FailureIsKnown(authReq[c])
    /\ ErasedHasNoCredentials
    /\ LockIsEarned

-----------------------------------------------------------------------------
(* Rows and requests *)

LEMMA Numbers ==
    /\ MaxAttempts \in Nat /\ MaxResets \in Nat /\ MaxFailures \in Nat /\ MaxCodes \in Nat
BY AuthAssumption

LEMMA RowFields ==
    ASSUME AuthTypeOK, NEW u \in Users, auth[u] # NoRow
    PROVE  auth[u] \in Rows
BY DEF AuthTypeOK

LEMMA AccountFields ==
    ASSUME AuthTypeOK, NEW u \in Users, account[u] # NoRow
    PROVE  account[u] \in Accounts
BY DEF AuthTypeOK

\* What the stage of a request says of its fields.
LEMMA RequestFields ==
    ASSUME NEW j \in AuthRequests
    PROVE  /\ j.at # "idle" => j.user \in Users
           /\ j.at \in {"register", "reset", "change"} => j.password \in Passwords
           /\ j.at = "failed" => j.attempts \in Nat
           /\ j.at = "passed" => j.twoFactor \in BOOLEAN
           /\ j.at = "link" => j.active \in BOOLEAN
           /\ j.at \in {"code", "reset"} => j.window \in BOOLEAN /\ j.count \in Nat
BY DEF AuthRequests, Quiet

LEMMA PlainRequests ==
    ASSUME NEW u \in Users,
           NEW at \in {"join", "tokens", "pending", "reuse", "exchange",
                       "secret", "confirm", "disable"}
    PROVE  /\ [at |-> at, user |-> u] \in AuthRequests
           /\ [at |-> at, user |-> u].at = at
           /\ [at |-> at, user |-> u].user = u
           /\ Quiet \in AuthRequests /\ Quiet.at = "idle"
BY DEF AuthRequests, Quiet

-----------------------------------------------------------------------------
(* The handlers that read: nothing changes but the request, and the count  *)
(* of failures that it carries on.                                         *)

Asks(c, j) ==
    /\ j \in AuthRequests
    /\ Await(c, j)
    /\ UNCHANGED <<account, auth, minted, resets>>
    /\ failures' \in [Users -> 0..MaxFailures]
    /\ \A u \in Users : failures[u] <= failures'[u]
    /\ j.at = "failed" => j.attempts <= failures'[j.user]
    /\ j.at = "reset" => auth[j.user] # NoRow /\ auth[j.user].reset # NoSecret

\* Handlers that count no failure and present no code.
LEMMA AsksPlainly ==
    ASSUME AuthTypeOK, NEW c \in Clients, NEW j \in AuthRequests, Await(c, j),
           j.at \notin {"failed", "reset"},
           UNCHANGED <<account, auth, minted, failures, resets>>
    PROVE  Asks(c, j)
<1>1. ASSUME NEW u \in Users PROVE failures[u] \in Nat /\ failures[u] <= failures'[u]
  BY Numbers DEF AuthTypeOK
<1> QED
  BY <1>1 DEF Asks, AuthTypeOK

LEMMA RegisterAsks ==
    ASSUME AuthTypeOK, NEW c \in Clients, NEW u \in Users, NEW p \in Passwords,
           Register(c, u, p)
    PROVE  \E j \in AuthRequests : Asks(c, j)
<1> DEFINE j == [at |-> "register", user |-> u, password |-> p]
<1>1. j \in AuthRequests /\ j.at = "register"
  BY DEF AuthRequests
<1>2. Await(c, j) /\ UNCHANGED <<account, auth, minted, failures, resets>>
  BY DEF Register
<1> HIDE DEF j
<1> QED
  BY <1>1, <1>2, AsksPlainly

LEMMA ChangeAsks ==
    ASSUME AuthTypeOK, NEW c \in Clients, NEW u \in Users, NEW p \in Passwords, NEW q,
           ChangePassword(c, u, q, p)
    PROVE  \E j \in AuthRequests : Asks(c, j)
<1> DEFINE j == [at |-> "change", user |-> u, password |-> p]
<1>1. j \in AuthRequests /\ j.at = "change"
  BY DEF AuthRequests
<1>2. Await(c, j) /\ UNCHANGED <<account, auth, minted, failures, resets>>
  BY DEF ChangePassword
<1> HIDE DEF j
<1> QED
  BY <1>1, <1>2, AsksPlainly

LEMMA LoginAsks ==
    ASSUME AuthInv, NEW c \in Clients, NEW u \in Users, NEW p \in Passwords, Login(c, u, p)
    PROVE  \E j \in AuthRequests : Asks(c, j)
<1> USE DEF AuthInv
<1>0. auth[u] \in Rows /\ auth[u].attempts <= failures[u]
  BY RowFields DEF Login, Loaded, LockIsEarned
<1>1. CASE p = auth[u].password
  <2> DEFINE j == [at |-> "passed", user |-> u, twoFactor |-> auth[u].twoFactor]
  <2>1. j \in AuthRequests /\ j.at = "passed"
    BY <1>0 DEF AuthRequests, Rows
  <2>2. Await(c, j) /\ UNCHANGED <<account, auth, minted, failures, resets>>
    BY <1>1 DEF Login
  <2> HIDE DEF j
  <2> QED
    BY <2>1, <2>2, AsksPlainly
<1>2. CASE p # auth[u].password
  <2> DEFINE j == [at |-> "failed", user |-> u, attempts |-> auth[u].attempts + 1]
  <2>0. auth[u].attempts \in Nat
    BY <1>0 DEF Rows
  <2>1. j \in AuthRequests /\ j.at = "failed" /\ j.user = u
        /\ j.attempts = auth[u].attempts + 1
    BY <2>0 DEF AuthRequests
  <2>2. /\ Await(c, j) /\ UNCHANGED <<account, auth, minted, resets>>
        /\ failures[u] < MaxFailures /\ failures' = [failures EXCEPT ![u] = @ + 1]
    BY <1>2 DEF Login
  <2>3. failures \in [Users -> 0..MaxFailures] /\ \A v \in Users : failures[v] \in Nat
    BY Numbers DEF AuthTypeOK
  <2>4. /\ failures'[u] = failures[u] + 1
        /\ \A v \in Users : failures[v] <= failures'[v]
    BY <2>2, <2>3
  <2>5. failures[u] + 1 \in 0..MaxFailures
    BY <2>2, <2>3, Numbers
  <2>6. failures' \in [Users -> 0..MaxFailures]
    BY <2>2, <2>3, <2>5
  <2>7. j.attempts <= failures'[j.user]
    BY <1>0, <2>0, <2>1, <2>3, <2>4
  <2> HIDE DEF j
  <2> QED
    BY <2>1, <2>2, <2>4, <2>6, <2>7 DEF Asks
<1> QED
  BY <1>1, <1>2

\* Codes and tokens are presented before the password is stored.
LEMMA ResetAsks ==
    ASSUME AuthTypeOK, NEW c \in Clients, NEW u \in Users, NEW p \in Passwords,
           ResetPassword(c, u, p)
    PROVE  \E j \in AuthRequests : Asks(c, j)
<1>0. auth[u] # NoRow /\ auth[u].reset # NoSecret /\ auth[u] \in Rows
  BY RowFields DEF ResetPassword, Loaded
<1>1. auth[u].window \in BOOLEAN /\ Count(auth[u]) \in Nat
  BY <1>0 DEF Rows, Count
<1> DEFINE j == [at |-> "reset", user |-> u, password |-> p,
                 window |-> auth[u].window, count |-> Count(auth[u]) + 1]
<1>2. j \in AuthRequests /\ j.at = "reset" /\ j.user = u
  BY <1>1 DEF AuthRequests
<1>3. Await(c, j) /\ UNCHANGED <<account, auth, minted, failures, resets>>
  BY DEF ResetPassword
<1>4. \A v \in Users : failures[v] \in Nat /\ failures[v] <= failures'[v]
  BY <1>3, Numbers DEF AuthTypeOK
<1> HIDE DEF j
<1> QED
  BY <1>0, <1>2, <1>3, <1>4 DEF Asks, AuthTypeOK

LEMMA ForgotAsks ==
    ASSUME AuthTypeOK, NEW c \in Clients, NEW u \in Users, ForgotPassword(c, u)
    PROVE  \E j \in AuthRequests : Asks(c, j)
<1>0. auth[u] \in Rows
  BY RowFields DEF ForgotPassword, Loaded
<1>1. auth[u].window \in BOOLEAN /\ Count(auth[u]) \in Nat
  BY <1>0 DEF Rows, Count
<1> DEFINE j == [at |-> "code", user |-> u, window |-> auth[u].window,
                 count |-> Count(auth[u])]
<1>2. j \in AuthRequests /\ j.at = "code"
  BY <1>1 DEF AuthRequests
<1>3. Await(c, j) /\ UNCHANGED <<account, auth, minted, failures, resets>>
  BY DEF ForgotPassword
<1> HIDE DEF j
<1> QED
  BY <1>2, <1>3, AsksPlainly

LEMMA OthersAsk ==
    ASSUME AuthTypeOK, NEW c \in Clients, NEW u \in Users,
           \/ RefreshToken(c, u) \/ GoogleLogin(c, u) \/ VerifyResetOtp(c, u)
           \/ Enable2FA(c, u) \/ Confirm2FA(c, u) \/ Disable2FA(c, u)
    PROVE  \E j \in AuthRequests : Asks(c, j)
<1>0. UNCHANGED <<account, auth, minted, failures, resets>>
  BY DEF RefreshToken, GoogleLogin, VerifyResetOtp, Enable2FA, Confirm2FA, Disable2FA
<1>1. CASE \E at \in {"join", "tokens", "reuse", "exchange", "secret", "confirm", "disable"} :
             Await(c, [at |-> at, user |-> u])
  <2>1. PICK at \in {"join", "tokens", "reuse", "exchange", "secret", "confirm", "disable"} :
          Await(c, [at |-> at, user |-> u])
    BY <1>1
  <2>2. PICK j \in AuthRequests : j.at = at /\ Await(c, j)
    BY <2>1, PlainRequests
  <2> QED
    BY <1>0, <2>1, <2>2, AsksPlainly
<1>2. CASE account[u] # NoRow
           /\ Await(c, [at |-> "link", user |-> u, active |-> account[u].active])
  <2>1. account[u].active \in BOOLEAN
    BY <1>2, AccountFields DEF Accounts
  <2>2. PICK j \in AuthRequests : j.at = "link" /\ Await(c, j)
    BY <1>2, <2>1 DEF AuthRequests
  <2> QED
    BY <1>0, <2>2, AsksPlainly
<1> QED
  BY <1>1, <1>2
     DEF RefreshToken, GoogleLogin, VerifyResetOtp, Enable2FA, Confirm2FA, Disable2FA

LEMMA VerifyAsks ==
    ASSUME AuthTypeOK, NEW c \in Clients, VerifyTwoFactor(c)
    PROVE  \E j \in AuthRequests : Asks(c, j)
<1>1. PICK u \in Users : u = authReq[c].user
  BY RequestFields DEF VerifyTwoFactor, Stage, AuthTypeOK
<1>2. UNCHANGED <<account, auth, minted, failures, resets>>
  BY DEF VerifyTwoFactor
<1>3. PICK j \in AuthRequests : j.at \in {"idle", "tokens"} /\ Await(c, j)
  BY <1>1, PlainRequests DEF VerifyTwoFactor, Answer
<1> QED
  BY <1>2, <1>3, AsksPlainly

-----------------------------------------------------------------------------
(* The handlers that write one row of credentials, if it is still there     *)

Amends(u, row) ==
    /\ auth[u] # NoRow /\ auth' = [auth EXCEPT ![u] = row]
    /\ UNCHANGED <<account, failures>>
    /\ row.attempts <= failures[u]
    /\ row.locked => failures[u] >= MaxAttempts

\* What becomes of the code or token of the row.
Keeps(u, row) == row.reset \in {auth[u].reset, NoSecret} /\ UNCHANGED <<minted, resets>>
Mints == minted < MaxCodes /\ minted' = minted + 1 /\ UNCHANGED resets
Spends(c, u, row) ==
    /\ authReq[c].at = "reset" /\ authReq[c].user = u
    /\ row.reset = NoSecret
    /\ resets' = [resets EXCEPT ![u] = @ + 1] /\ UNCHANGED minted

Resumes(c) == \E j \in AuthRequests : j.at \in {"idle", "tokens", "pending"} /\ Await(c, j)

Writes(c) ==
    \/ UNCHANGED <<account, auth, minted, failures, resets>>
    \/ \E u \in Users, row \in Rows :
         Amends(u, row) /\ (Keeps(u, row) \/ Mints \/ Spends(c, u, row))

LEMMA RowIsEarned ==
    ASSUME AuthInv, NEW u \in Users, auth[u] # NoRow
    PROVE  /\ auth[u] \in Rows
           /\ auth[u].attempts \in Nat /\ failures[u] \in Nat
           /\ auth[u].attempts <= failures[u]
           /\ auth[u].locked => failures[u] >= MaxAttempts
<1>1. auth[u] \in Rows
  BY RowFields DEF AuthInv
<1>2. failures[u] \in Nat
  BY Numbers DEF AuthInv, AuthTypeOK
<1> QED
  BY <1>1, <1>2 DEF AuthInv, LockIsEarned, Rows

\* Fields other than the failures and the code.
LEMMA PlainAmends ==
    ASSUME AuthInv, NEW u \in Users, auth[u] # NoRow, NEW row \in Rows,
           row.attempts = auth[u].attempts,
           row.locked = auth[u].locked \/ ~row.locked,
           row.reset = auth[u].reset \/ row.reset = NoSecret,
           auth' = [auth EXCEPT ![u] = row],
           UNCHANGED <<account, minted, failures, resets>>
    PROVE  Amends(u, row) /\ Keeps(u, row)
BY RowIsEarned DEF Amends, Keeps

LEMMA Waiting ==
    ASSUME AuthInv, NEW c \in Clients, authReq[c].at # "idle"
    PROVE  authReq[c].user \in Users /\ authReq[c] \in AuthRequests
BY RequestFields DEF AuthInv, AuthTypeOK

LEMMA FailureWrites ==
    ASSUME AuthInv, NEW c \in Clients, CountFailure(c)
    PROVE  Writes(c)
<1>1. PICK u \in Users, n \in Nat :
        u = authReq[c].user /\ n = authReq[c].attempts /\ n <= failures[u]
  BY RequestFields DEF CountFailure, Stage, AuthInv, AuthTypeOK, FailureIsKnown
<1>2. UNCHANGED <<account, minted, failures, resets>>
  BY DEF CountFailure
<1>3. CASE UpdateFails(c)
  BY <1>2, <1>3 DEF UpdateFails, Writes
<1>4. CASE Update(u, [auth[u] EXCEPT !.attempts = n, !.locked = Locks(n)])
  <2>1. auth[u] \in Rows /\ failures[u] \in Nat /\ auth[u] # NoRow
    BY <1>4, RowIsEarned DEF Update
  <2> DEFINE row == [auth[u] EXCEPT !.attempts = n, !.locked = Locks(n)]
  <2>2. Locks(n) \in BOOLEAN
    BY DEF Locks
  <2>3. row \in Rows /\ row.attempts = n /\ row.locked = Locks(n)
        /\ row.reset = auth[u].reset
    BY <1>1, <2>1, <2>2 DEF Rows
  <2>4. auth' = [auth EXCEPT ![u] = row]
    BY <1>4 DEF Update
  <2>5. Locks(n) => failures[u] >= MaxAttempts
    BY <1>1, <2>1, Numbers DEF Locks
  <2> HIDE DEF row
  <2> QED
    BY <1>1, <1>2, <2>1, <2>3, <2>4, <2>5 DEF Writes, Amends, Keeps
<1> QED
  BY <1>1, <1>3, <1>4 DEF CountFailure

LEMMA LockoutWrites ==
    ASSUME AuthInv, NEW c \in Clients, ResetLockout(c)
    PROVE  Writes(c)
<1>1. PICK u \in Users : u = authReq[c].user
  BY Waiting DEF ResetLockout, Stage
<1>2. UNCHANGED <<account, minted, failures, resets>>
  BY DEF ResetLockout
<1>3. CASE UpdateFails(c)
  BY <1>2, <1>3 DEF UpdateFails, Writes
<1>4. CASE Update(u, [auth[u] EXCEPT !.attempts = 0, !.locked = FALSE])
  <2>1. auth[u] \in Rows /\ failures[u] \in Nat /\ auth[u] # NoRow
    BY <1>4, RowIsEarned DEF Update
  <2> DEFINE row == [auth[u] EXCEPT !.attempts = 0, !.locked = FALSE]
  <2>2. row \in Rows /\ row.attempts = 0 /\ ~row.locked /\ row.reset = auth[u].reset
    BY <2>1 DEF Rows
  <2>3. auth' = [auth EXCEPT ![u] = row]
    BY <1>4 DEF Update
  <2> HIDE DEF row
  <2>4. row.attempts <= failures[u]
    BY <2>1, <2>2
  <2>5. Amends(u, row) /\ Keeps(u, row)
    BY <1>2, <2>1, <2>2, <2>3, <2>4 DEF Amends, Keeps
  <2> QED
    BY <2>2, <2>5 DEF Writes
<1> QED
  BY <1>1, <1>3, <1>4 DEF ResetLockout

\* The fields that no property counts.
LEMMA FieldsWrite ==
    ASSUME AuthInv, NEW c \in Clients,
           \/ LinkGoogle(c) \/ GenerateTokens(c) \/ EndSession(c) \/ StoreChange(c)
           \/ StoreTwoFactor(c)
    PROVE  Writes(c)
<1>0. PICK u \in Users : u = authReq[c].user /\ authReq[c] \in AuthRequests
  BY Waiting
     DEF LinkGoogle, GenerateTokens, EndSession, StoreChange, StoreTwoFactor, Stage
<1>1. UNCHANGED <<account, minted, failures, resets>>
  BY DEF LinkGoogle, GenerateTokens, EndSession, StoreChange, StoreTwoFactor
<1>2. CASE UpdateFails(c)
  BY <1>1, <1>2 DEF UpdateFails, Writes
<1>3. ASSUME NEW row, Update(u, row), row \in Rows, row.attempts = auth[u].attempts,
             row.locked = auth[u].locked, row.reset = auth[u].reset
      PROVE  Writes(c)
  BY <1>1, <1>3, PlainAmends DEF Update, Writes
<1>4. ASSUME auth[u] # NoRow
      PROVE  auth[u] \in Rows
  BY <1>4, RowIsEarned
<1>5. CASE LinkGoogle(c) /\ ~UpdateFails(c)
  <2> DEFINE row == [auth[u] EXCEPT !.google = TRUE]
  <2>1. Update(u, row)
    BY <1>0, <1>5 DEF LinkGoogle
  <2>2. row \in Rows /\ row.attempts = auth[u].attempts
        /\ row.locked = auth[u].locked /\ row.reset = auth[u].reset
    BY <1>4, <2>1 DEF Rows, Update
  <2> HIDE DEF row
  <2> QED
    BY <1>3, <2>1, <2>2
<1>6. CASE (GenerateTokens(c) \/ EndSession(c)) /\ ~UpdateFails(c)
  <2>1. PICK refresh \in BOOLEAN : Update(u, [auth[u] EXCEPT !.refresh = refresh])
    BY <1>0, <1>6 DEF GenerateTokens, EndSession
  <2> DEFINE row == [auth[u] EXCEPT !.refresh = refresh]
  <2>2. row \in Rows /\ row.attempts = auth[u].attempts
        /\ row.locked = auth[u].locked /\ row.reset = auth[u].reset
    BY <1>4, <2>1 DEF Rows, Update
  <2> HIDE DEF row
  <2> QED
    BY <1>3, <2>1, <2>2 DEF row
<1>7. CASE StoreChange(c) /\ ~UpdateFails(c)
  <2> DEFINE row == [auth[u] EXCEPT !.password = authReq[c].password, !.refresh = FALSE]
  <2>1. Update(u, row)
    BY <1>0, <1>7 DEF StoreChange
  <2>2. authReq[c].password \in Passwords
    BY <1>0, <1>7, RequestFields DEF StoreChange, Stage
  <2>3. row \in Rows /\ row.attempts = auth[u].attempts
        /\ row.locked = auth[u].locked /\ row.reset = auth[u].reset
    BY <1>4, <2>1, <2>2 DEF Rows, Update
  <2> HIDE DEF row
  <2> QED
    BY <1>3, <2>1, <2>3
<1>8. CASE StoreTwoFactor(c) /\ ~UpdateFails(c)
  <2>1. PICK row :
          /\ Update(u, row)
          /\ \/ row = [auth[u] EXCEPT !.secret = TRUE]
             \/ row = [auth[u] EXCEPT !.twoFactor = TRUE]
             \/ row = [auth[u] EXCEPT !.twoFactor = FALSE, !.secret = FALSE]
    BY <1>0, <1>8 DEF StoreTwoFactor, Stage
  <2>2. row \in Rows /\ row.attempts = auth[u].attempts
        /\ row.locked = auth[u].locked /\ row.reset = auth[u].reset
    BY <1>4, <2>1 DEF Rows, Update
  <2> QED
    BY <1>3, <2>1, <2>2
<1> QED
  BY <1>2, <1>5, <1>6, <1>7, <1>8

\* A code is stored, or exchanged for a token.
LEMMA CodeWrites ==
    ASSUME AuthInv, NEW c \in Clients, StoreCode(c) \/ ExchangeCode(c)
    PROVE  Writes(c)
<1>0. PICK u \in Users : u = authReq[c].user /\ authReq[c] \in AuthRequests
  BY Waiting DEF StoreCode, ExchangeCode, Stage
<1>1. UNCHANGED <<account, failures, resets>>
  BY DEF StoreCode, ExchangeCode
<1>2. CASE UpdateFails(c) /\ UNCHANGED minted
  BY <1>1, <1>2 DEF UpdateFails, Writes
<1>3. CASE ~(UpdateFails(c) /\ UNCHANGED minted)
  <2>1. Mints /\ minted' \in Nat
    BY <1>1, <1>3 DEF StoreCode, ExchangeCode, Mints, AuthInv, AuthTypeOK
  <2>2. PICK row :
          /\ Update(u, row)
          /\ \/ row = [auth[u] EXCEPT !.reset = [kind |-> "code", id |-> minted'],
                          !.window = TRUE, !.resetCount = authReq[c].count]
                /\ authReq[c].count \in Nat
             \/ row = [auth[u] EXCEPT !.reset = [kind |-> "token", id |-> minted']]
    BY <1>0, <1>3, RequestFields DEF StoreCode, ExchangeCode, Stage
  <2>3. auth[u] \in Rows /\ auth[u] # NoRow
    BY <2>2, RowIsEarned DEF Update
  <2>4. /\ [kind |-> "code", id |-> minted'] \in Secrets
        /\ [kind |-> "token", id |-> minted'] \in Secrets
    BY <2>1 DEF Secrets
  <2>5. row \in Rows /\ row.attempts = auth[u].attempts /\ row.locked = auth[u].locked
    BY <2>2, <2>3, <2>4 DEF Rows
  <2>6. Amends(u, row)
    BY <1>1, <2>2, <2>3, <2>5, RowIsEarned DEF Amends, Update
  <2> QED
    BY <2>1, <2>5, <2>6 DEF Writes
<1> QED
  BY <1>2, <1>3

LEMMA PasswordWrites ==
    ASSUME AuthInv, NEW c \in Clients, StorePassword(c)
    PROVE  Writes(c)
<1>0. PICK u \in Users : u = authReq[c].user /\ authReq[c] \in AuthRequests
  BY Waiting DEF StorePassword, Stage
<1>1. UNCHANGED <<account, minted, failures>> /\ authReq[c].at = "reset"
  BY DEF StorePassword, Stage
<1>2. CASE UpdateFails(c) /\ UNCHANGED resets
  BY <1>1, <1>2 DEF UpdateFails, Writes
<1>3. CASE ~(UpdateFails(c) /\ UNCHANGED resets)
  <2> DEFINE row == [auth[u] EXCEPT !.password = authReq[c].password,
                          !.reset = NoSecret, !.refresh = FALSE, !.attempts = 0,
                          !.locked = FALSE, !.window = TRUE,
                          !.resetCount = authReq[c].count]
  <2>1. Update(u, row) /\ resets' = [resets EXCEPT ![u] = @ + 1]
    BY <1>0, <1>3 DEF StorePassword
  <2>2. auth[u] \in Rows /\ auth[u] # NoRow /\ failures[u] \in Nat
    BY <2>1, RowIsEarned DEF Update
  <2>3. authReq[c].password \in Passwords /\ authReq[c].count \in Nat
    BY <1>0, <1>1, RequestFields
  <2>4. NoSecret \in Secrets
    BY DEF NoSecret, Secrets
  <2>5. row \in Rows /\ row.attempts = 0 /\ ~row.locked /\ row.reset = NoSecret
    BY <2>2, <2>3, <2>4 DEF Rows
  <2>6. auth' = [auth EXCEPT ![u] = row]
    BY <2>1 DEF Update
  <2> HIDE DEF row
  <2>7. Amends(u, row) /\ Spends(c, u, row)
    BY <1>0, <1>1, <2>1, <2>2, <2>5, <2>6 DEF Amends, Spends
  <2> QED
    BY <2>5, <2>7 DEF Writes
<1> QED
  BY <1>2, <1>3

\* Whatever is written, the request is answered or goes on to a session.
LEMMA WritersResume ==
    ASSUME AuthInv, NEW c \in Clients,
           \/ CreateUser(c) \/ JoinByGoogle(c) \/ CountFailure(c) \/ ResetLockout(c)
           \/ LinkGoogle(c) \/ GenerateTokens(c) \/ EndSession(c) \/ StoreCode(c)
           \/ ExchangeCode(c) \/ StorePassword(c) \/ StoreChange(c) \/ StoreTwoFactor(c)
    PROVE  Resumes(c)
<1>1. PICK u \in Users : u = authReq[c].user
  BY Waiting
     DEF CreateUser, JoinByGoogle, CountFailure, ResetLockout, LinkGoogle, GenerateTokens,
         EndSession, StoreCode, ExchangeCode, StorePassword, StoreChange, StoreTwoFactor,
         Stage
<1>2. \/ Await(c, Quiet) \/ Await(c, [at |-> "tokens", user |-> u])
      \/ Await(c, [at |-> "pending", user |-> u])
  BY <1>1
     DEF CreateUser, JoinByGoogle, CountFailure, ResetLockout, LinkGoogle, GenerateTokens,
         EndSession, StoreCode, ExchangeCode, StorePassword, StoreChange, StoreTwoFactor,
         UpdateFails, Answer
<1> QED
  BY <1>2, PlainRequests DEF Resumes

\* A new account has a row that is neither locked nor asked to be reset.
Creates ==
    \/ UNCHANGED <<account, auth>>
    \/ \E u \in Users, new \in Accounts, row \in Rows :
         /\ account[u] = NoRow /\ ~new.erased
         /\ account' = [account EXCEPT ![u] = new]
         /\ auth' = [auth EXCEPT ![u] = row]
         /\ row.attempts = 0 /\ ~row.locked /\ row.reset = NoSecret

LEMMA CreatorsCreate ==
    ASSUME AuthInv, NEW c \in Clients, CreateUser(c) \/ JoinByGoogle(c)
    PROVE  Creates /\ UNCHANGED <<minted, failures, resets>>
<1>1. PICK u \in Users : u = authReq[c].user /\ authReq[c] \in AuthRequests
  BY Waiting DEF CreateUser, JoinByGoogle, Stage
<1>2. ASSUME NEW p \in Passwords \cup {NoPassword}, NEW google \in BOOLEAN
      PROVE  /\ NewRow(p, google) \in Rows
             /\ NewRow(p, google).attempts = 0 /\ ~NewRow(p, google).locked
             /\ NewRow(p, google).reset = NoSecret
  BY DEF NewRow, Rows, NoSecret, Secrets
<1>3. ASSUME NEW verified \in BOOLEAN
      PROVE  /\ [active |-> TRUE, verified |-> verified, erased |-> FALSE] \in Accounts
             /\ ~[active |-> TRUE, verified |-> verified, erased |-> FALSE].erased
  BY DEF Accounts
<1>4. UNCHANGED <<minted, failures, resets>>
  BY DEF CreateUser, JoinByGoogle
<1>5. CASE UNCHANGED <<account, auth>>
  BY <1>4, <1>5 DEF Creates
<1>6. CASE CreateUser(c) /\ account[u] = NoRow
  <2>1. authReq[c].password \in Passwords
    BY <1>1, <1>6, RequestFields DEF CreateUser, Stage
  <2>2. /\ account' = [account EXCEPT ![u] =
                     [active |-> TRUE, verified |-> FALSE, erased |-> FALSE]]
        /\ auth' = [auth EXCEPT ![u] = NewRow(authReq[c].password, FALSE)]
    BY <1>1, <1>6 DEF CreateUser
  <2> QED
    BY <1>2, <1>3, <1>4, <1>6, <2>1, <2>2 DEF Creates
<1>7. CASE JoinByGoogle(c) /\ account[u] = NoRow
  <2>1. /\ account' = [account EXCEPT ![u] =
                     [active |-> TRUE, verified |-> TRUE, erased |-> FALSE]]
        /\ auth' = [auth EXCEPT ![u] = NewRow(NoPassword, TRUE)]
    BY <1>1, <1>7 DEF JoinByGoogle
  <2> QED
    BY <1>2, <1>3, <1>4, <1>7, <2>1 DEF Creates
<1> QED
  BY <1>1, <1>5, <1>6, <1>7 DEF CreateUser, JoinByGoogle

-----------------------------------------------------------------------------
(* Administration and time *)

LEMMA TimersAmend ==
    ASSUME AuthInv, NEW u \in Users,
           Logout(u) \/ ExpireLock(u) \/ ExpireReset(u) \/ ExpireWindow(u)
    PROVE  \E row \in Rows :
             /\ Amends(u, row) /\ UNCHANGED <<authReq, minted>>
             /\ row.reset \in {auth[u].reset, NoSecret}
             /\ \/ UNCHANGED resets
                \/ /\ \A c \in Clients : authReq[c] = Quiet
                   /\ resets' = [resets EXCEPT ![u] = 0]
<1>1. auth[u] # NoRow /\ auth[u] \in Rows /\ NoSecret \in Secrets
  BY RowIsEarned
     DEF Logout, ExpireLock, ExpireReset, ExpireWindow, Loaded, Update, NoSecret, Secrets
<1>2. PICK row :
        /\ auth' = [auth EXCEPT ![u] = row]
        /\ \/ row = [auth[u] EXCEPT !.refresh = FALSE]
           \/ row = [auth[u] EXCEPT !.locked = FALSE]
           \/ row = [auth[u] EXCEPT !.reset = NoSecret]
           \/ row = [auth[u] EXCEPT !.window = FALSE]
  BY DEF Logout, ExpireLock, ExpireReset, ExpireWindow, Update
<1>3. /\ row \in Rows /\ row.attempts = auth[u].attempts
      /\ row.locked => auth[u].locked
      /\ row.reset \in {auth[u].reset, NoSecret}
  BY <1>1, <1>2 DEF Rows
<1>4. UNCHANGED <<account, authReq, minted, failures>>
  BY DEF Logout, ExpireLock, ExpireReset, ExpireWindow
<1>5. \/ UNCHANGED resets
      \/ /\ \A c \in Clients : authReq[c] = Quiet
         /\ resets' = [resets EXCEPT ![u] = 0]
  BY DEF Logout, ExpireLock, ExpireReset, ExpireWindow
<1>6. Amends(u, row)
  BY <1>1, <1>2, <1>3, <1>4, RowIsEarned DEF Amends
<1> QED
  BY <1>3, <1>4, <1>5, <1>6

\* Only the account changes, and never back from erased; credentials may go.
Administers ==
    /\ UNCHANGED <<authReq, minted, failures, resets>>
    /\ \E u \in Users, new \in Accounts :
         /\ account[u] # NoRow
         /\ account' = [account EXCEPT ![u] = new]
         /\ \/ UNCHANGED auth /\ new.erased = account[u].erased
            \/ auth' = [auth EXCEPT ![u] = NoRow]

LEMMA AdminAdministers ==
    ASSUME AuthInv, NEW u \in Users,
           VerifyEmail(u) \/ Erase(u) \/ \E active \in BOOLEAN : SetActive(u, active)
    PROVE  Administers
<1>1. account[u] # NoRow /\ account[u] \in Accounts
  BY AccountFields DEF VerifyEmail, Erase, SetActive, Loaded, AuthInv
<1>2. account \in [Users -> Accounts \cup {NoRow}]
  BY DEF AuthInv, AuthTypeOK
<1>3. CASE VerifyEmail(u)
  <2> DEFINE new == [account[u] EXCEPT !.verified = TRUE]
  <2>1. new \in Accounts /\ new.erased = account[u].erased
    BY <1>1 DEF Accounts
  <2>2. account' = [account EXCEPT ![u] = new]
        /\ UNCHANGED <<auth, authReq, minted, failures, resets>>
    BY <1>2, <1>3 DEF VerifyEmail
  <2> HIDE DEF new
  <2> QED
    BY <1>1, <2>1, <2>2 DEF Administers
<1>4. CASE Erase(u)
  <2>1. [active |-> FALSE, verified |-> FALSE, erased |-> TRUE] \in Accounts
    BY DEF Accounts
  <2> QED
    BY <1>1, <1>4, <2>1 DEF Administers, Erase
<1>5. ASSUME NEW active \in BOOLEAN, SetActive(u, active) PROVE Administers
  <2> DEFINE new == [account[u] EXCEPT !.active = active]
  <2>1. new \in Accounts /\ new.erased = account[u].erased
    BY <1>1 DEF Accounts
  <2>2. account' = [account EXCEPT ![u] = new]
        /\ UNCHANGED <<auth, authReq, minted, failures, resets>>
    BY <1>2, <1>5 DEF SetActive
  <2> HIDE DEF new
  <2> QED
    BY <1>1, <2>1, <2>2 DEF Administers
<1> QED
  BY <1>3, <1>4, <1>5

-----------------------------------------------------------------------------
(* Every step *)

\* Accounts and credentials, whoever changes them.
RowsHold ==
    /\ account \in [Users -> Accounts \cup {NoRow}]
    /\ auth \in [Users -> Rows \cup {NoRow}]
    /\ ErasedHasNoCredentials
    /\ LockIsEarned

\* Requests keep what they know while failures only grow.
LEMMA RequestsHold ==
    ASSUME AuthInv, NEW c \in Clients, NEW j \in AuthRequests, Await(c, j),
           failures' \in [Users -> 0..MaxFailures],
           \A u \in Users : failures[u] <= failures'[u],
           j.at = "failed" => j.attempts <= failures'[j.user]
    PROVE  /\ authReq' \in [Clients -> AuthRequests]
           /\ \A d \in Clients : FailureIsKnown(authReq[d])'
<1>1. authReq' = [authReq EXCEPT ![c] = j] /\ authReq \in [Clients -> AuthRequests]
  BY DEF Await, AuthInv, AuthTypeOK
<1>2. ASSUME NEW d \in Clients PROVE FailureIsKnown(authReq[d])'
  <2>1. CASE d = c
    BY <1>1, <2>1 DEF FailureIsKnown
  <2>2. CASE d # c
    <3>1. PICK i \in AuthRequests : i = authReq[d] /\ i = authReq'[d]
      BY <1>1, <2>2
    <3>2. CASE i.at = "failed"
      <4>1. i.user \in Users /\ i.attempts \in Nat /\ i.attempts <= failures[i.user]
        BY <3>1, <3>2, RequestFields DEF AuthInv, FailureIsKnown
      <4>2. failures[i.user] \in Nat /\ failures'[i.user] \in Nat
        BY <4>1, Numbers DEF AuthInv, AuthTypeOK
      <4>3. i.attempts <= failures'[i.user]
        BY <4>1, <4>2
      <4> QED
        BY <3>1, <4>3 DEF FailureIsKnown
    <3> QED
      BY <3>1, <3>2 DEF FailureIsKnown
  <2> QED
    BY <2>1, <2>2
<1> QED
  BY <1>1, <1>2

LEMMA SameFailures ==
    ASSUME AuthInv, UNCHANGED failures
    PROVE  /\ failures' \in [Users -> 0..MaxFailures]
           /\ \A u \in Users : failures[u] <= failures'[u]
BY Numbers DEF AuthInv, AuthTypeOK

LEMMA AmendedRows ==
    ASSUME AuthInv, NEW u \in Users, NEW row \in Rows, Amends(u, row)
    PROVE  RowsHold'
<1>1. row # NoRow
  BY AuthRowsAssumption
<1>2. /\ auth \in [Users -> Rows \cup {NoRow}] /\ account \in [Users -> Accounts \cup {NoRow}]
      /\ ErasedHasNoCredentials /\ LockIsEarned
  BY DEF AuthInv, AuthTypeOK
<1> QED
  BY <1>1, <1>2 DEF RowsHold, Amends, ErasedHasNoCredentials, LockIsEarned

LEMMA CreatedRows ==
    ASSUME AuthInv, Creates, UNCHANGED failures
    PROVE  RowsHold'
<1>1. /\ auth \in [Users -> Rows \cup {NoRow}] /\ account \in [Users -> Accounts \cup {NoRow}]
      /\ ErasedHasNoCredentials /\ LockIsEarned
  BY DEF AuthInv, AuthTypeOK
<1>2. CASE UNCHANGED <<account, auth>>
  BY <1>1, <1>2 DEF RowsHold, ErasedHasNoCredentials, LockIsEarned
<1>3. CASE \E u \in Users, new \in Accounts, row \in Rows :
             /\ account[u] = NoRow /\ ~new.erased
             /\ account' = [account EXCEPT ![u] = new]
             /\ auth' = [auth EXCEPT ![u] = row]
             /\ row.attempts = 0 /\ ~row.locked /\ row.reset = NoSecret
  <2>1. PICK u \in Users, new \in Accounts, row \in Rows :
             /\ account[u] = NoRow /\ ~new.erased
             /\ account' = [account EXCEPT ![u] = new]
             /\ auth' = [auth EXCEPT ![u] = row]
             /\ row.attempts = 0 /\ ~row.locked /\ row.reset = NoSecret
    BY <1>3
  <2>2. failures'[u] \in Nat
    BY Numbers DEF AuthInv, AuthTypeOK
  <2>3. LockIsEarned'
    BY <1>1, <2>1, <2>2 DEF LockIsEarned
  <2> QED
    BY <1>1, <2>1, <2>3 DEF RowsHold, ErasedHasNoCredentials
<1> QED
  BY <1>2, <1>3 DEF Creates

LEMMA AdministeredRows ==
    ASSUME AuthInv, Administers
    PROVE  RowsHold'
<1>1. /\ auth \in [Users -> Rows \cup {NoRow}] /\ account \in [Users -> Accounts \cup {NoRow}]
      /\ ErasedHasNoCredentials /\ LockIsEarned
  BY DEF AuthInv, AuthTypeOK
<1>2. PICK u \in Users, new \in Accounts :
         /\ account[u] # NoRow
         /\ account' = [account EXCEPT ![u] = new]
         /\ \/ UNCHANGED auth /\ new.erased = account[u].erased
            \/ auth' = [auth EXCEPT ![u] = NoRow]
  BY DEF Administers
<1>3. UNCHANGED failures
  BY DEF Administers
<1> QED
  BY <1>1, <1>2, <1>3 DEF RowsHold, ErasedHasNoCredentials, LockIsEarned

LEMMA AuthHolds ==
    ASSUME RowsHold', authReq' \in [Clients -> AuthRequests],
           \A c \in Clients : FailureIsKnown(authReq[c])',
           minted' \in 0..MaxCodes, failures' \in [Users -> 0..MaxFailures],
           resets' \in [Users -> Nat]
    PROVE  AuthInv'
BY DEF RowsHold, AuthInv, AuthTypeOK

LEMMA AsksStep ==
    ASSUME AuthInv, NEW c \in Clients, NEW j \in AuthRequests, Asks(c, j)
    PROVE  AuthInv'
<1>1. RowsHold'
  <2>1. /\ account' = account /\ auth' = auth
        /\ \A u \in Users : failures[u] \in Nat /\ failures'[u] \in Nat
                            /\ failures[u] <= failures'[u]
    BY Numbers DEF Asks, AuthInv, AuthTypeOK
  <2>2. LockIsEarned'
    <3> SUFFICES ASSUME NEW u \in Users, auth[u] # NoRow
                 PROVE  /\ auth[u].attempts <= failures'[u]
                        /\ auth[u].locked => failures'[u] >= MaxAttempts
      BY <2>1 DEF LockIsEarned
    <3> QED
      BY <2>1, RowIsEarned, Numbers
  <2> QED
    BY <2>1, <2>2 DEF RowsHold, AuthInv, AuthTypeOK, ErasedHasNoCredentials
<1>2. /\ authReq' \in [Clients -> AuthRequests]
      /\ \A d \in Clients : FailureIsKnown(authReq[d])'
  BY RequestsHold DEF Asks
<1> QED
  BY <1>1, <1>2, AuthHolds DEF Asks, AuthInv, AuthTypeOK

LEMMA ResumesStep ==
    ASSUME AuthInv, NEW c \in Clients, Resumes(c), RowsHold', UNCHANGED failures,
           minted' \in 0..MaxCodes, resets' \in [Users -> Nat]
    PROVE  AuthInv'
<1>1. PICK j \in AuthRequests : j.at # "failed" /\ Await(c, j)
  BY DEF Resumes
<1> QED
  BY <1>1, SameFailures, RequestsHold, AuthHolds

LEMMA WritesStep ==
    ASSUME AuthInv, NEW c \in Clients, Resumes(c), Writes(c)
    PROVE  AuthInv'
<1>1. RowsHold' /\ UNCHANGED failures
  <2>1. CASE UNCHANGED <<account, auth, minted, failures, resets>>
    BY <2>1, CreatedRows DEF Creates
  <2>2. CASE \E u \in Users, row \in Rows : Amends(u, row)
    BY <2>2, AmendedRows DEF Amends
  <2> QED
    BY <2>1, <2>2 DEF Writes
<1>2. minted' \in 0..MaxCodes /\ resets' \in [Users -> Nat]
  BY Numbers DEF Writes, Keeps, Mints, Spends, AuthInv, AuthTypeOK
<1> QED
  BY <1>1, <1>2, ResumesStep

LEMMA AuthStep ==
    ASSUME AuthInv, [AuthNext]_authVars
    PROVE  AuthInv'
<1>1. ASSUME NEW c \in Clients, NEW u \in Users,
             \/ \E p \in Passwords : Register(c, u, p) \/ Login(c, u, p) \/ ResetPassword(c, u, p)
             \/ \E p, q \in Passwords : ChangePassword(c, u, p, q)
             \/ RefreshToken(c, u) \/ GoogleLogin(c, u)
             \/ ForgotPassword(c, u) \/ VerifyResetOtp(c, u)
             \/ Enable2FA(c, u) \/ Confirm2FA(c, u) \/ Disable2FA(c, u)
      PROVE  \E j \in AuthRequests : Asks(c, j)
  BY <1>1, RegisterAsks, LoginAsks, ResetAsks, ChangeAsks, OthersAsk, ForgotAsks DEF AuthInv
<1>2. ASSUME NEW c \in Clients, VerifyTwoFactor(c)
      PROVE  \E j \in AuthRequests : Asks(c, j)
  BY <1>2, VerifyAsks DEF AuthInv
<1>3. ASSUME NEW c \in Clients, \E j \in AuthRequests : Asks(c, j) PROVE AuthInv'
  BY <1>3, AsksStep
<1>4. ASSUME NEW c \in Clients, CreateUser(c) \/ JoinByGoogle(c) PROVE AuthInv'
  <2>1. RowsHold' /\ UNCHANGED <<minted, failures, resets>>
    BY <1>4, CreatorsCreate, CreatedRows
  <2> QED
    BY <1>4, <2>1, WritersResume, ResumesStep DEF AuthInv, AuthTypeOK
<1>5. ASSUME NEW c \in Clients,
             \/ CountFailure(c) \/ ResetLockout(c) \/ LinkGoogle(c) \/ GenerateTokens(c)
             \/ EndSession(c) \/ StoreCode(c) \/ ExchangeCode(c) \/ StorePassword(c)
             \/ StoreChange(c) \/ StoreTwoFactor(c)
      PROVE  AuthInv'
  <2>1. Writes(c)
    BY <1>5, FailureWrites, LockoutWrites, FieldsWrite, CodeWrites, PasswordWrites
  <2> QED
    BY <1>5, <2>1, WritersResume, WritesStep
<1>6. ASSUME NEW u \in Users,
             Logout(u) \/ ExpireLock(u) \/ ExpireReset(u) \/ ExpireWindow(u)
      PROVE  AuthInv'
  <2>1. PICK row \in Rows :
             /\ Amends(u, row) /\ UNCHANGED <<authReq, minted>>
             /\ resets' = resets \/ resets' = [resets EXCEPT ![u] = 0]
    BY <1>6, TimersAmend
  <2>2. RowsHold' /\ UNCHANGED failures
    BY <2>1, AmendedRows DEF Amends
  <2>3. \A c \in Clients : FailureIsKnown(authReq[c])'
    BY <2>1, <2>2 DEF AuthInv, FailureIsKnown
  <2> QED
    BY <2>1, <2>2, <2>3, AuthHolds DEF AuthInv, AuthTypeOK
<1>7. ASSUME NEW u \in Users,
             VerifyEmail(u) \/ Erase(u) \/ \E active \in BOOLEAN : SetActive(u, active)
      PROVE  AuthInv'
  <2>1. RowsHold' /\ UNCHANGED <<authReq, minted, failures, resets>>
    BY <1>7, AdminAdministers, AdministeredRows DEF Administers
  <2>2. \A c \in Clients : FailureIsKnown(authReq[c])'
    BY <2>1 DEF AuthInv, FailureIsKnown
  <2> QED
    BY <2>1, <2>2, AuthHolds DEF AuthInv, AuthTypeOK
<1>8. CASE UNCHANGED authVars
  BY <1>8 DEF authVars, AuthInv, AuthTypeOK, FailureIsKnown, ErasedHasNoCredentials,
              LockIsEarned
<1> QED
  BY <1>1, <1>2, <1>3, <1>4, <1>5, <1>6, <1>7, <1>8 DEF AuthNext

LEMMA AuthInvariance == AuthSpec => []AuthInv
<1>1. AuthInit => AuthInv
  <2>1. Quiet \in AuthRequests /\ Quiet.at # "failed"
    BY DEF AuthRequests, Quiet
  <2> QED
    BY <2>1, Numbers
       DEF AuthInit, AuthInv, AuthTypeOK, FailureIsKnown, ErasedHasNoCredentials,
           LockIsEarned
<1>2. AuthInv /\ [AuthNext]_authVars => AuthInv'
  BY AuthStep
<1> QED
  BY <1>1, <1>2, PTL DEF AuthSpec

\* Accounts, credentials and requests keep their types.
THEOREM AuthTypes == AuthSpec => []AuthTypeOK
<1>1. AuthInv => AuthTypeOK
  BY DEF AuthInv
<1> QED
  BY <1>1, AuthInvariance, PTL

\* No request that was on its way when an account was erased gives it a
\* password or a session again.
THEOREM ErasedStaysOut == AuthSpec => []ErasedHasNoCredentials
<1>1. AuthInv => ErasedHasNoCredentials
  BY DEF AuthInv
<1> QED
  BY <1>1, AuthInvariance, PTL

\* Nobody is locked out by fewer wrong passwords than the limit.
THEOREM LocksAreEarned == AuthSpec => []LockIsEarned
<1>1. AuthInv => LockIsEarned
  BY DEF AuthInv
<1> QED
  BY <1>1, AuthInvariance, PTL

-----------------------------------------------------------------------------
(* How often codes are spent: a request in flight has found one, and each   *)
(* of them spends it once.                                                  *)

Resetting(u) == {c \in Clients : authReq[c].at = "reset" /\ authReq[c].user = u}
Spendable == Cardinality(Clients) * minted
HasSecret(u) == auth[u] # NoRow /\ auth[u].reset # NoSecret

Spent(u) ==
    /\ resets[u] + Cardinality(Resetting(u)) <= Spendable
    /\ HasSecret(u) => resets[u] + Cardinality(Clients) <= Spendable

SpentInv == \A u \in Users : Spent(u)

LEMMA ResettingIsFinite ==
    ASSUME NEW u
    PROVE  /\ IsFiniteSet(Resetting(u)) /\ Cardinality(Resetting(u)) \in Nat
           /\ Cardinality(Resetting(u)) <= Cardinality(Clients)
           /\ IsFiniteSet((Resetting(u))') /\ Cardinality((Resetting(u))') \in Nat
           /\ Cardinality((Resetting(u))') <= Cardinality(Clients)
           /\ Cardinality(Clients) \in Nat
<1>1. Resetting(u) \subseteq Clients /\ (Resetting(u))' \subseteq Clients
  BY DEF Resetting
<1> QED
  BY <1>1, AuthAssumption, FS_Subset, FS_CardinalityType

LEMMA SpendableGrows ==
    ASSUME AuthInv
    PROVE  /\ Spendable \in Nat
           /\ minted' = minted => Spendable' = Spendable
           /\ minted' = minted + 1 => Spendable' = Spendable + Cardinality(Clients)
<1>1. Cardinality(Clients) \in Nat
  BY AuthAssumption, FS_CardinalityType
<1>2. minted \in Nat
  BY Numbers DEF AuthInv, AuthTypeOK
<1> QED
  BY <1>1, <1>2 DEF Spendable

LEMMA ResetsAreNumbers ==
    ASSUME AuthInv, NEW u \in Users
    PROVE  resets[u] \in Nat
BY DEF AuthInv, AuthTypeOK

\* Requests are answered, windows and codes expire.
LEMMA SpentStays ==
    ASSUME AuthInv, AuthInv', NEW u \in Users, Spent(u),
           (Resetting(u))' \subseteq Resetting(u),
           resets'[u] <= resets[u], minted' = minted,
           HasSecret(u)' => HasSecret(u)
    PROVE  Spent(u)'
<1>1. Cardinality((Resetting(u))') <= Cardinality(Resetting(u))
  BY ResettingIsFinite, FS_Subset
<1>2. resets[u] \in Nat /\ resets'[u] \in Nat
  BY DEF AuthInv, AuthTypeOK
<1> QED
  BY <1>1, <1>2, ResettingIsFinite, SpendableGrows DEF Spent

\* Who asks: a request that presents a code has found one.
LEMMA AsksSpent ==
    ASSUME AuthInv, AuthInv', SpentInv, NEW c \in Clients, NEW j \in AuthRequests, Asks(c, j)
    PROVE  SpentInv'
<1> SUFFICES ASSUME NEW u \in Users PROVE Spent(u)'
  BY DEF SpentInv
<1>1. /\ authReq' = [authReq EXCEPT ![c] = j] /\ authReq \in [Clients -> AuthRequests]
      /\ UNCHANGED <<auth, minted, resets>>
  BY DEF Asks, Await, AuthInv, AuthTypeOK
<1>2. HasSecret(u)' <=> HasSecret(u)
  BY <1>1 DEF HasSecret
<1>3. CASE j.at = "reset" /\ j.user = u
  <2>1. HasSecret(u)
    BY <1>3 DEF Asks, HasSecret
  <2>2. resets[u] + Cardinality(Clients) <= Spendable
    BY <2>1 DEF SpentInv, Spent
  <2> QED
    BY <1>1, <2>2, ResettingIsFinite, ResetsAreNumbers, SpendableGrows DEF Spent
<1>4. CASE ~(j.at = "reset" /\ j.user = u)
  <2>1. (Resetting(u))' \subseteq Resetting(u)
    BY <1>1, <1>4 DEF Resetting
  <2>2. resets'[u] <= resets[u]
    BY <1>1, ResetsAreNumbers
  <2> QED
    BY <1>1, <1>2, <2>1, <2>2, SpentStays DEF SpentInv
<1> QED
  BY <1>3, <1>4

LEMMA ResumedResetting ==
    ASSUME AuthInv, NEW c \in Clients, Resumes(c), NEW u \in Users
    PROVE  (Resetting(u))' \subseteq Resetting(u) \ {c}
BY DEF Resumes, Await, Resetting, AuthInv, AuthTypeOK

LEMMA WritesSpent ==
    ASSUME AuthInv, AuthInv', SpentInv, NEW c \in Clients, Resumes(c), Writes(c)
    PROVE  SpentInv'
<1> SUFFICES ASSUME NEW u \in Users PROVE Spent(u)'
  BY DEF SpentInv
<1>0. /\ (Resetting(u))' \subseteq Resetting(u) \ {c} /\ Spent(u)
      /\ resets[u] \in Nat /\ resets[u] <= resets[u]
  BY ResumedResetting, ResetsAreNumbers DEF SpentInv
<1>1. CASE UNCHANGED <<account, auth, minted, failures, resets>>
  BY <1>0, <1>1, SpentStays DEF HasSecret
<1>2. ASSUME NEW v \in Users, NEW row \in Rows, Amends(v, row), Keeps(v, row)
      PROVE  Spent(u)'
  <2>1. HasSecret(u)' => HasSecret(u)
    BY <1>2 DEF Amends, Keeps, HasSecret, AuthInv, AuthTypeOK
  <2> QED
    BY <1>0, <1>2, <2>1, SpentStays DEF Keeps
<1>3. CASE Mints
  <2>1. Spendable' = Spendable + Cardinality(Clients) /\ resets' = resets
    BY <1>3, SpendableGrows DEF Mints
  <2>2. resets[u] <= Spendable
    BY <1>0, ResettingIsFinite, SpendableGrows DEF Spent
  <2>3. resets[u] + Cardinality((Resetting(u))') <= Spendable + Cardinality(Clients)
    BY <1>0, <2>2, ResettingIsFinite, SpendableGrows
  <2> QED
    BY <1>0, <2>1, <2>2, <2>3, ResettingIsFinite, SpendableGrows DEF Spent
<1>4. ASSUME NEW v \in Users, NEW row \in Rows, Amends(v, row), Spends(c, v, row)
      PROVE  Spent(u)'
  <2>1. HasSecret(u)' => HasSecret(u) /\ u # v
    BY <1>4 DEF Amends, Spends, HasSecret, AuthInv, AuthTypeOK
  <2>2. CASE u # v
    <3>1. resets'[u] = resets[u] /\ minted' = minted
      BY <1>4, <2>2 DEF Spends, AuthInv, AuthTypeOK
    <3> QED
      BY <1>0, <2>1, <3>1, SpentStays
  <2>3. CASE u = v
    <3>1. resets'[u] = resets[u] + 1 /\ minted' = minted
      BY <1>4, <2>3 DEF Spends, AuthInv, AuthTypeOK
    <3>2. c \in Resetting(u)
      BY <1>4, <2>3 DEF Spends, Resetting
    <3>3. /\ IsFiniteSet(Resetting(u) \ {c})
          /\ Cardinality(Resetting(u) \ {c}) = Cardinality(Resetting(u)) - 1
      BY <3>2, ResettingIsFinite, FS_RemoveElement
    <3>4. Cardinality((Resetting(u))') <= Cardinality(Resetting(u)) - 1
      BY <1>0, <3>3, FS_Subset
    <3> QED
      BY <1>0, <2>1, <2>3, <3>1, <3>4, ResettingIsFinite, SpendableGrows DEF Spent
  <2> QED
    BY <2>2, <2>3
<1> QED
  BY <1>1, <1>2, <1>3, <1>4 DEF Writes

LEMMA OthersSpent ==
    ASSUME AuthInv, AuthInv', SpentInv, minted' = minted,
           \A u \in Users : /\ (Resetting(u))' \subseteq Resetting(u)
                            /\ resets'[u] = resets[u] \/ resets'[u] = 0
                            /\ HasSecret(u)' => HasSecret(u)
    PROVE  SpentInv'
<1> SUFFICES ASSUME NEW u \in Users PROVE Spent(u)'
  BY DEF SpentInv
<1>1. resets'[u] <= resets[u]
  BY ResetsAreNumbers
<1> QED
  BY <1>1, SpentStays DEF SpentInv

LEMMA SpentStep ==
    ASSUME AuthInv, AuthInv', SpentInv, [AuthNext]_authVars
    PROVE  SpentInv'
<1>1. ASSUME NEW c \in Clients, NEW u \in Users,
             \/ \E p \in Passwords : Register(c, u, p) \/ Login(c, u, p) \/ ResetPassword(c, u, p)
             \/ \E p, q \in Passwords : ChangePassword(c, u, p, q)
             \/ RefreshToken(c, u) \/ GoogleLogin(c, u)
             \/ ForgotPassword(c, u) \/ VerifyResetOtp(c, u)
             \/ Enable2FA(c, u) \/ Confirm2FA(c, u) \/ Disable2FA(c, u)
      PROVE  \E j \in AuthRequests : Asks(c, j)
  BY <1>1, RegisterAsks, LoginAsks, ResetAsks, ChangeAsks, OthersAsk, ForgotAsks DEF AuthInv
<1>2. ASSUME NEW c \in Clients, VerifyTwoFactor(c)
      PROVE  \E j \in AuthRequests : Asks(c, j)
  BY <1>2, VerifyAsks DEF AuthInv
<1>3. ASSUME NEW c \in Clients, \E j \in AuthRequests : Asks(c, j) PROVE SpentInv'
  BY <1>3, AsksSpent
<1>4. ASSUME NEW c \in Clients, CreateUser(c) \/ JoinByGoogle(c) PROVE SpentInv'
  <2>1. Creates /\ UNCHANGED <<minted, resets>> /\ Resumes(c)
    BY <1>4, CreatorsCreate, WritersResume
  <2>2. \A u \in Users : HasSecret(u)' => HasSecret(u)
    BY <2>1 DEF Creates, HasSecret, AuthInv, AuthTypeOK
  <2>3. \A u \in Users : (Resetting(u))' \subseteq Resetting(u)
    BY <2>1, ResumedResetting
  <2> QED
    BY <2>1, <2>2, <2>3, OthersSpent
<1>5. ASSUME NEW c \in Clients,
             \/ CountFailure(c) \/ ResetLockout(c) \/ LinkGoogle(c) \/ GenerateTokens(c)
             \/ EndSession(c) \/ StoreCode(c) \/ ExchangeCode(c) \/ StorePassword(c)
             \/ StoreChange(c) \/ StoreTwoFactor(c)
      PROVE  SpentInv'
  <2>1. Writes(c)
    BY <1>5, FailureWrites, LockoutWrites, FieldsWrite, CodeWrites, PasswordWrites
  <2> QED
    BY <1>5, <2>1, WritersResume, WritesSpent
<1>6. ASSUME NEW u \in Users,
             Logout(u) \/ ExpireLock(u) \/ ExpireReset(u) \/ ExpireWindow(u)
      PROVE  SpentInv'
  <2>1. PICK row \in Rows :
             /\ Amends(u, row) /\ UNCHANGED <<authReq, minted>>
             /\ row.reset \in {auth[u].reset, NoSecret}
             /\ resets' = resets \/ resets' = [resets EXCEPT ![u] = 0]
    BY <1>6, TimersAmend
  <2>2. \A v \in Users : HasSecret(v)' => HasSecret(v)
    BY <2>1 DEF Amends, HasSecret, AuthInv, AuthTypeOK
  <2>3. \A v \in Users : resets'[v] = resets[v] \/ resets'[v] = 0
    BY <2>1 DEF AuthInv, AuthTypeOK
  <2>4. \A v \in Users : (Resetting(v))' \subseteq Resetting(v)
    BY <2>1 DEF Resetting
  <2> QED
    BY <2>1, <2>2, <2>3, <2>4, OthersSpent
<1>7. ASSUME NEW u \in Users,
             VerifyEmail(u) \/ Erase(u) \/ \E active \in BOOLEAN : SetActive(u, active)
      PROVE  SpentInv'
  <2>1. Administers
    BY <1>7, AdminAdministers
  <2>2. \A v \in Users : HasSecret(v)' => HasSecret(v)
    BY <2>1 DEF Administers, HasSecret, AuthInv, AuthTypeOK
  <2>3. \A v \in Users : (Resetting(v))' \subseteq Resetting(v)
    BY <2>1 DEF Administers, Resetting
  <2> QED
    BY <2>1, <2>2, <2>3, OthersSpent DEF Administers
<1>8. CASE UNCHANGED authVars
  BY <1>8, OthersSpent DEF authVars, Resetting, HasSecret
<1> QED
  BY <1>1, <1>2, <1>3, <1>4, <1>5, <1>6, <1>7, <1>8 DEF AuthNext

\* A code and the token it is exchanged for are spent by one reset for each
\* request that overlaps, at most: none is left for a later one.
THEOREM CodesAreSpent == AuthSpec => []ResetsAreSpent
<1>1. AuthInit /\ AuthInv => SpentInv
  <2> SUFFICES ASSUME AuthInit, AuthInv, NEW u \in Users PROVE Spent(u)
    BY DEF SpentInv
  <2>1. resets[u] = 0 /\ Resetting(u) = {} /\ ~HasSecret(u)
    BY DEF AuthInit, Resetting, HasSecret, Quiet
  <2> QED
    BY <2>1, FS_EmptySet, SpendableGrows DEF Spent
<1>2. AuthInv /\ AuthInv' /\ SpentInv /\ [AuthNext]_authVars => SpentInv'
  BY SpentStep
<1>3. AuthInv /\ SpentInv => ResetsAreSpent
  <2> SUFFICES ASSUME AuthInv, SpentInv, NEW u \in Users
               PROVE  resets[u] <= Cardinality(Clients) * minted
    BY DEF ResetsAreSpent
  <2>1. resets[u] + Cardinality(Resetting(u)) <= Spendable
    BY DEF SpentInv, Spent
  <2>2. resets[u] <= Spendable
    BY <2>1, ResettingIsFinite, ResetsAreNumbers, SpendableGrows
  <2> QED
    BY <2>2 DEF Spendable
<1> QED
  BY <1>1, <1>2, <1>3, AuthInvariance, PTL DEF AuthSpec

-----------------------------------------------------------------------------
(***************************************************************************)
(* Onboarding                                                              *)
(***************************************************************************)

\* What a request in flight relies on since it read it, or did it.
Sound(j) ==
    /\ j.at \in {"promote", "provision", "approve", "reject"} => Filed(j.application)
    /\ j.at \in {"submit", "promote", "approve", "profile", "deactivate", "erase"} =>
         j.user \in Persons /\ Known(j.user)
    /\ j.at = "approve" => user[j.user].profile

DesksAreSound == \A d \in Desks : Sound(desk[d])

\* An application names an account that is there, or an e-mail to reach.
ApplicantsExist ==
    \A a \in Applications : Filed(a) =>
        IF application[a].user = NoUser THEN application[a].email \in Emails
                                        ELSE Known(application[a].user)

\* OneApplicationPerAccount, without counting.
ApplicationsAreApart ==
    \A a, b \in Applications :
        Filed(a) /\ Filed(b) /\ application[a].user # NoUser
            /\ application[a].user = application[b].user => a = b

OnboardingInv ==
    /\ OnboardingTypeOK
    /\ DesksAreSound
    /\ ApplicantsExist
    /\ ApplicationsAreApart
    /\ ApprovedHaveProfiles

-----------------------------------------------------------------------------
(* Rows and jobs *)

LEMMA UserFields ==
    ASSUME OnboardingTypeOK, NEW u \in Persons, Known(u)
    PROVE  user[u] \in UserRows
BY DEF OnboardingTypeOK, Known

LEMMA ApplicationFields ==
    ASSUME OnboardingTypeOK, NEW a \in Applications, Filed(a)
    PROVE  /\ application[a] \in ApplicationRows
           /\ application[a].user \in Persons \cup {NoUser}
           /\ application[a].email \in Emails \cup {Deleted}
BY DEF OnboardingTypeOK, Filed, ApplicationRows

LEMMA JobFields ==
    ASSUME NEW j \in DeskJobs
    PROVE  /\ j.at \in {"apply", "provision"} => j.email \in Emails
           /\ j.at \in {"submit", "promote", "approve", "profile", "deactivate", "erase"} =>
                j.user \in Persons
           /\ j.at = "submit" => j.found \in BOOLEAN
           /\ j.at \in {"promote", "provision", "approve", "reject"} =>
                j.application \in Applications
BY DEF DeskJobs, Free

LEMMA FreeIsSound == Free \in DeskJobs /\ Sound(Free) /\ Free.at = "free"
BY DEF DeskJobs, Free, Sound

-----------------------------------------------------------------------------
(* Accounts and applications are never unmade, nor is a profile             *)

Lasting ==
    /\ \A u \in Persons : Known(u) =>
         /\ Known(u)'
         /\ user[u].profile => user'[u].profile
    /\ \A a \in Applications : Filed(a) => Filed(a)'

LEMMA SoundStays ==
    ASSUME Lasting, NEW j \in DeskJobs, Sound(j)
    PROVE  Sound(j)'
<1>1. /\ j.at \in {"submit", "promote", "approve", "profile", "deactivate", "erase"} =>
           j.user \in Persons
      /\ j.at \in {"promote", "provision", "approve", "reject"} =>
           j.application \in Applications
  BY JobFields
<1> QED
  BY <1>1 DEF Lasting, Sound, Known, Filed

\* A step of a desk that goes on with a sound job.
LEMMA DeskStep ==
    ASSUME OnboardingTypeOK, DesksAreSound, Lasting,
           NEW d \in Desks, NEW j \in DeskJobs, Sound(j)', Go(d, j)
    PROVE  desk' \in [Desks -> DeskJobs] /\ DesksAreSound'
<1>1. desk' = [desk EXCEPT ![d] = j] /\ desk \in [Desks -> DeskJobs]
  BY DEF Go, OnboardingTypeOK
<1>2. ASSUME NEW e \in Desks, e # d PROVE Sound(desk[e])'
  <2>1. PICK i \in DeskJobs : i = desk[e] /\ i = desk'[e] /\ Sound(i)
    BY <1>1, <1>2 DEF DesksAreSound
  <2>2. Sound(i)'
    BY <2>1, SoundStays
  <2> QED
    BY <2>1, <2>2 DEF Sound
<1>3. Sound(desk[d])'
  BY <1>1 DEF Sound
<1> QED
  BY <1>1, <1>2, <1>3 DEF DesksAreSound

LEMMA OtherStep ==
    ASSUME OnboardingTypeOK, DesksAreSound, Lasting, UNCHANGED desk
    PROVE  desk' \in [Desks -> DeskJobs] /\ DesksAreSound'
<1>1. ASSUME NEW e \in Desks PROVE Sound(desk[e])'
  <2>1. PICK i \in DeskJobs : i = desk[e] /\ Sound(i)
    BY DEF DesksAreSound, OnboardingTypeOK
  <2>2. Sound(i)'
    BY <2>1, SoundStays
  <2> QED
    BY <2>1, <2>2 DEF Sound
<1> QED
  BY <1>1 DEF OnboardingTypeOK, DesksAreSound

\* Everything of OnboardingInv but the desks.
ApplicationsHold ==
    /\ user \in [Persons -> UserRows \cup {NoUser}]
    /\ application \in [Applications -> ApplicationRows \cup {NoApplication}]
    /\ edits \in 0..MaxEdits
    /\ ApplicantsExist /\ ApplicationsAreApart /\ ApprovedHaveProfiles

LEMMA Together ==
    OnboardingInv <=> ApplicationsHold /\ desk \in [Desks -> DeskJobs] /\ DesksAreSound
BY DEF OnboardingInv, ApplicationsHold, OnboardingTypeOK

LEMMA GoesOn ==
    ASSUME OnboardingInv, ApplicationsHold', Lasting,
           \/ UNCHANGED desk
           \/ \E d \in Desks, j \in DeskJobs : Sound(j)' /\ Go(d, j)
    PROVE  OnboardingInv'
<1>1. desk' \in [Desks -> DeskJobs] /\ DesksAreSound'
  BY OtherStep, DeskStep DEF OnboardingInv
<1> QED
  BY <1>1, Together DEF OnboardingInv, OnboardingTypeOK, ApplicationsHold

\* Going on with what is sound already, or with nothing.
LEMMA Proceeds ==
    ASSUME OnboardingInv, ApplicationsHold', Lasting, NEW d \in Desks, NEW j \in DeskJobs,
           Sound(j), Go(d, j)
    PROVE  OnboardingInv'
BY SoundStays, GoesOn

-----------------------------------------------------------------------------
(* Steps that change no application *)

UsersGrow ==
    /\ UNCHANGED application
    /\ edits' \in 0..MaxEdits
    /\ user' \in [Persons -> UserRows \cup {NoUser}]
    /\ \A u \in Persons : Known(u) => Known(u)' /\ (user[u].profile => user'[u].profile)

LEMMA UsersGrowStep ==
    ASSUME OnboardingInv, UsersGrow
    PROVE  ApplicationsHold' /\ Lasting
<1> USE DEF OnboardingInv, OnboardingTypeOK, UsersGrow
<1>1. Lasting
  BY DEF Lasting, Filed
<1>2. ASSUME NEW a \in Applications, Filed(a)
      PROVE  application[a].user \in Persons \cup {NoUser}
  BY <1>2, ApplicationFields
<1>3. ApplicantsExist'
  BY <1>2 DEF ApplicantsExist, Filed, Known
<1>4. ApplicationsAreApart'
  BY DEF ApplicationsAreApart, Filed
<1>5. ApprovedHaveProfiles'
  BY <1>2 DEF ApprovedHaveProfiles, ApplicantsExist, Filed
<1> QED
  BY <1>1, <1>3, <1>4, <1>5 DEF ApplicationsHold

LEMMA SameUsers ==
    ASSUME OnboardingInv, UNCHANGED <<user, application>>, edits' \in 0..MaxEdits
    PROVE  UsersGrow
BY DEF UsersGrow, OnboardingInv, OnboardingTypeOK, Known

\* One row is written that keeps its profile.
LEMMA OneUserGrows ==
    ASSUME OnboardingInv, NEW u \in Persons, NEW row \in UserRows,
           Known(u) => (user[u].profile => row.profile),
           user' = [user EXCEPT ![u] = row], UNCHANGED application, edits' \in 0..MaxEdits
    PROVE  UsersGrow /\ Known(u)' /\ user'[u] = row
<1>1. row # NoUser
  BY OnboardingRowsAssumption
<1>2. user \in [Persons -> UserRows \cup {NoUser}]
  BY DEF OnboardingInv, OnboardingTypeOK
<1>3. user'[u] = row /\ \A v \in Persons : v # u => user'[v] = user[v]
  BY <1>2
<1>4. user' \in [Persons -> UserRows \cup {NoUser}]
  BY <1>2
<1> QED
  BY <1>1, <1>2, <1>3, <1>4 DEF UsersGrow, Known

-----------------------------------------------------------------------------
(* The actions that read, or give up                                        *)

LEMMA EditsStay ==
    ASSUME OnboardingTypeOK, Edit \/ UNCHANGED edits
    PROVE  edits' \in 0..MaxEdits
BY OnboardingAssumption DEF OnboardingTypeOK, Edit

LEMMA ReadStep ==
    ASSUME OnboardingInv, NEW d \in Desks, NEW j \in DeskJobs, Sound(j), Go(d, j),
           UNCHANGED <<user, application>>, Edit \/ UNCHANGED edits
    PROVE  OnboardingInv'
<1>1. ApplicationsHold' /\ Lasting
  BY EditsStay, SameUsers, UsersGrowStep DEF OnboardingInv
<1> QED
  BY <1>1, Proceeds

LEMMA ApplyingStep ==
    ASSUME OnboardingInv, NEW d \in Desks,
           \/ \E email \in Emails : ApplyPublic(d, email)
           \/ \E u \in Persons : Submit(d, u) \/ DeactivateUser(d, u) \/ DeleteUser(d, u)
           \/ Abandon(d)
    PROVE  OnboardingInv'
<1>1. ASSUME NEW email \in Emails, ApplyPublic(d, email) PROVE OnboardingInv'
  <2> DEFINE j == [at |-> "apply", email |-> email]
  <2>1. j \in DeskJobs /\ Sound(j)
    BY DEF DeskJobs, Sound
  <2>2. Go(d, j) /\ UNCHANGED <<user, application, edits>>
    BY <1>1 DEF ApplyPublic
  <2> HIDE DEF j
  <2> QED
    BY <2>1, <2>2, ReadStep
<1>2. ASSUME NEW u \in Persons, Submit(d, u) PROVE OnboardingInv'
  <2> DEFINE j == [at |-> "submit", user |-> u, found |-> OfUser(u) # {}]
  <2>1. j \in DeskJobs /\ Sound(j)
    BY <1>2 DEF DeskJobs, Sound, Submit
  <2>2. Go(d, j) /\ UNCHANGED <<user, application, edits>>
    BY <1>2 DEF Submit
  <2> HIDE DEF j
  <2> QED
    BY <2>1, <2>2, ReadStep
<1>3. ASSUME NEW u \in Persons, DeactivateUser(d, u) \/ DeleteUser(d, u) PROVE OnboardingInv'
  <2>1. ASSUME NEW at \in {"deactivate", "erase"}
        PROVE  [at |-> at, user |-> u] \in DeskJobs /\ Sound([at |-> at, user |-> u])
    BY <1>3 DEF DeskJobs, Sound, DeactivateUser, DeleteUser
  <2>2. PICK at \in {"deactivate", "erase"} :
          Go(d, [at |-> at, user |-> u]) /\ UNCHANGED <<user, application>> /\ Edit
    BY <1>3 DEF DeactivateUser, DeleteUser
  <2> QED
    BY <2>1, <2>2, ReadStep
<1>4. CASE Abandon(d)
  BY <1>4, FreeIsSound, ReadStep DEF Abandon, Leave
<1> QED
  BY <1>1, <1>2, <1>3, <1>4

\* A pending application names an account that is there, or an e-mail.
LEMMA ReviewStep ==
    ASSUME OnboardingInv, NEW d \in Desks, NEW a \in Applications, Review(d, a)
    PROVE  OnboardingInv'
<1>0. /\ Filed(a) /\ UNCHANGED <<user, application, edits>>
      /\ application[a].user \in Persons \cup {NoUser}
      /\ application[a].user = NoUser => application[a].email \in Emails
      /\ application[a].user # NoUser => Known(application[a].user)
  BY ApplicationFields DEF Review, OnboardingInv, ApplicantsExist
<1>1. CASE Go(d, [at |-> "reject", application |-> a])
  <2>1. /\ [at |-> "reject", application |-> a] \in DeskJobs
        /\ Sound([at |-> "reject", application |-> a])
    BY <1>0 DEF DeskJobs, Sound
  <2> QED
    BY <1>0, <1>1, <2>1, ReadStep
<1>2. CASE /\ application[a].user # NoUser
           /\ Go(d, [at |-> "promote", application |-> a, user |-> application[a].user])
  <2>1. /\ [at |-> "promote", application |-> a, user |-> application[a].user] \in DeskJobs
        /\ Sound([at |-> "promote", application |-> a, user |-> application[a].user])
    BY <1>0, <1>2 DEF DeskJobs, Sound
  <2> QED
    BY <1>0, <1>2, <2>1, ReadStep
<1>3. CASE /\ application[a].user = NoUser
           /\ Go(d, [at |-> "provision", application |-> a, email |-> application[a].email])
  <2>1. /\ [at |-> "provision", application |-> a, email |-> application[a].email] \in DeskJobs
        /\ Sound([at |-> "provision", application |-> a, email |-> application[a].email])
    BY <1>0, <1>3 DEF DeskJobs, Sound
  <2> QED
    BY <1>0, <1>3, <2>1, ReadStep
<1> QED
  BY <1>1, <1>2, <1>3 DEF Review

-----------------------------------------------------------------------------
(* The actions that write accounts                                          *)

LEMMA DeskJob ==
    ASSUME OnboardingInv, NEW d \in Desks
    PROVE  desk[d] \in DeskJobs /\ Sound(desk[d])
BY DEF OnboardingInv, OnboardingTypeOK, DesksAreSound

LEMMA InsertGrows ==
    ASSUME OnboardingInv, NEW u \in Persons, NEW email \in Emails, NEW role \in Roles,
           NEW profile \in BOOLEAN, Insert(u, email, role, profile),
           UNCHANGED application, Edit \/ UNCHANGED edits
    PROVE  UsersGrow /\ Known(u)' /\ (profile => user'[u].profile)
<1> DEFINE row == [email |-> email, role |-> role, profile |-> profile, active |-> TRUE]
<1>1. row \in UserRows /\ row.profile = profile
  BY DEF UserRows
<1>2. ~Known(u) /\ user' = [user EXCEPT ![u] = row] /\ edits' \in 0..MaxEdits
  BY EditsStay DEF Insert, OnboardingInv
<1> HIDE DEF row
<1> QED
  BY <1>1, <1>2, OneUserGrows

LEMMA PromoteStep ==
    ASSUME OnboardingInv, NEW d \in Desks, Promote(d)
    PROVE  OnboardingInv'
<1>1. PICK u \in Persons, a \in Applications :
        u = desk[d].user /\ a = desk[d].application /\ Known(u) /\ Filed(a)
  BY DeskJob, JobFields DEF Promote, Step, Sound
<1>2. user[u] \in UserRows
  BY <1>1, UserFields DEF OnboardingInv
<1> DEFINE row == [user[u] EXCEPT !.role = "INSTRUCTOR", !.profile = TRUE]
           j == [at |-> "approve", application |-> a, user |-> u]
<1>3. row \in UserRows /\ row.profile
  BY <1>2 DEF UserRows, Roles
<1>4. user' = [user EXCEPT ![u] = row] /\ Go(d, j) /\ UNCHANGED <<application, edits>>
  BY <1>1 DEF Promote, OnboardingInv, OnboardingTypeOK
<1>5. j \in DeskJobs
  BY DEF DeskJobs
<1> HIDE DEF row
<1>6. UsersGrow /\ Known(u)' /\ user'[u].profile
  BY <1>3, <1>4, EditsStay, OneUserGrows DEF OnboardingInv
<1>7. Filed(a)'
  BY <1>1, <1>4 DEF Filed
<1>8. Sound(j)'
  BY <1>6, <1>7 DEF Sound
<1> HIDE DEF j
<1> QED
  BY <1>4, <1>5, <1>6, <1>8, UsersGrowStep, GoesOn

LEMMA ProvisionStep ==
    ASSUME OnboardingInv, NEW d \in Desks, Provision(d)
    PROVE  OnboardingInv'
<1>1. PICK email \in Emails, a \in Applications :
        email = desk[d].email /\ a = desk[d].application /\ Filed(a)
  BY DeskJob, JobFields DEF Provision, Step, Sound
<1>2. CASE Leave(d) /\ UNCHANGED user
  BY <1>2, FreeIsSound, ReadStep DEF Provision, Leave
<1>3. ASSUME NEW u \in Persons, Insert(u, email, "INSTRUCTOR", TRUE),
             Go(d, [at |-> "approve", application |-> a, user |-> u])
      PROVE  OnboardingInv'
  <2> DEFINE j == [at |-> "approve", application |-> a, user |-> u]
  <2>1. UsersGrow /\ Known(u)' /\ user'[u].profile
    BY <1>3, InsertGrows DEF Provision, Roles
  <2>2. Filed(a)' /\ j \in DeskJobs
    BY <1>1, <2>1 DEF Filed, UsersGrow, DeskJobs
  <2>3. Sound(j)'
    BY <2>1, <2>2 DEF Sound
  <2>4. Go(d, j)
    BY <1>3
  <2> HIDE DEF j
  <2> QED
    BY <2>1, <2>2, <2>3, <2>4, UsersGrowStep, GoesOn
<1> QED
  BY <1>1, <1>2, <1>3 DEF Provision

LEMMA CreatingStep ==
    ASSUME OnboardingInv, NEW d \in Desks, NEW u \in Persons, NEW email \in Emails,
           \/ SignUp(u, email)
           \/ \E role \in Roles : AdminCreateUser(d, u, email, role)
    PROVE  OnboardingInv'
<1>1. UsersGrow /\ Known(u)'
  BY InsertGrows DEF SignUp, AdminCreateUser, Roles
<1>2. CASE UNCHANGED desk
  BY <1>1, <1>2, UsersGrowStep, GoesOn
<1>3. CASE Go(d, [at |-> "profile", user |-> u])
  <2> DEFINE j == [at |-> "profile", user |-> u]
  <2>1. j \in DeskJobs /\ Sound(j)'
    BY <1>1 DEF DeskJobs, Sound
  <2>2. Go(d, j)
    BY <1>3
  <2> HIDE DEF j
  <2> QED
    BY <1>1, <2>1, <2>2, UsersGrowStep, GoesOn
<1> QED
  BY <1>2, <1>3 DEF SignUp, AdminCreateUser

\* One row of an account that is there is changed, and the desk is free after.
LEMMA AmendStep ==
    ASSUME OnboardingInv, NEW u \in Persons, NEW row \in UserRows,
           user[u].profile => row.profile, user' = [user EXCEPT ![u] = row],
           UNCHANGED application, Edit \/ UNCHANGED edits,
           UNCHANGED desk \/ \E d \in Desks : Leave(d)
    PROVE  OnboardingInv'
<1>1. UsersGrow
  BY EditsStay, OneUserGrows DEF OnboardingInv
<1>2. ApplicationsHold' /\ Lasting
  BY <1>1, UsersGrowStep
<1>3. CASE UNCHANGED desk
  BY <1>2, <1>3, GoesOn
<1>4. CASE \E d \in Desks : Leave(d)
  BY <1>2, <1>4, FreeIsSound, Proceeds DEF Leave
<1> QED
  BY <1>3, <1>4

LEMMA DesksAmend ==
    ASSUME OnboardingInv, NEW d \in Desks, CreateProfile(d) \/ TakeOut(d)
    PROVE  OnboardingInv'
<1>1. PICK u \in Persons : u = desk[d].user /\ Known(u)
  BY DeskJob, JobFields DEF CreateProfile, TakeOut, Step, Sound
<1>2. user[u] \in UserRows /\ user \in [Persons -> UserRows \cup {NoUser}]
  BY <1>1, UserFields DEF OnboardingInv, OnboardingTypeOK
<1>3. UNCHANGED <<application, edits>> /\ Leave(d)
  BY DEF CreateProfile, TakeOut
<1>4. PICK row :
        /\ user' = [user EXCEPT ![u] = row]
        /\ \/ row = [user[u] EXCEPT !.profile = TRUE]
           \/ row = [user[u] EXCEPT !.active = FALSE, !.email = Deleted]
           \/ row = [user[u] EXCEPT !.active = FALSE]
  BY <1>1, <1>2 DEF CreateProfile, TakeOut
<1>5. row \in UserRows /\ (user[u].profile => row.profile)
  BY <1>2, <1>4 DEF UserRows
<1> QED
  BY <1>3, <1>4, <1>5, AmendStep

LEMMA AdminsAmend ==
    ASSUME OnboardingInv, NEW u \in Persons,
           \/ \E email \in Emails : UpdateEmail(u, email)
           \/ \E role \in Roles : ChangeUserRole(u, role)
           \/ ActivateUser(u) \/ UpdateInstructorProfile(u)
    PROVE  OnboardingInv'
<1>1. Known(u) /\ UNCHANGED <<application, desk>> /\ (Edit \/ UNCHANGED edits)
  BY DEF UpdateEmail, ChangeUserRole, ActivateUser, UpdateInstructorProfile
<1>2. user[u] \in UserRows /\ user \in [Persons -> UserRows \cup {NoUser}]
  BY <1>1, UserFields DEF OnboardingInv, OnboardingTypeOK
<1>3. PICK row :
        /\ user' = [user EXCEPT ![u] = row]
        /\ \/ \E email \in Emails : row = [user[u] EXCEPT !.email = email]
           \/ \E role \in Roles : row = [user[u] EXCEPT !.role = role]
           \/ row = [user[u] EXCEPT !.active = TRUE]
           \/ row = [user[u] EXCEPT !.profile = TRUE]
  BY <1>2 DEF UpdateEmail, ChangeUserRole, ActivateUser, UpdateInstructorProfile
<1>4. row \in UserRows /\ (user[u].profile => row.profile)
  BY <1>2, <1>3 DEF UserRows
<1> QED
  BY <1>1, <1>3, <1>4, AmendStep

-----------------------------------------------------------------------------
(* The actions that write applications                                      *)

\* One application is filed or decided.
LEMMA FileStep ==
    ASSUME OnboardingInv, NEW d \in Desks, NEW a \in Applications,
           NEW row \in ApplicationRows, application' = [application EXCEPT ![a] = row],
           IF row.user = NoUser THEN row.email \in Emails ELSE Known(row.user),
           row.user # NoUser => OfUser(row.user) \subseteq {a},
           row.status = "approved" => row.user # NoUser /\ user[row.user].profile,
           UNCHANGED <<user, edits>>, Leave(d)
    PROVE  OnboardingInv'
<1> USE DEF OnboardingInv, OnboardingTypeOK
<1>1. row # NoApplication
  BY OnboardingRowsAssumption
<1>2. /\ application'[a] = row
      /\ \A b \in Applications : b # a => application'[b] = application[b]
      /\ application' \in [Applications -> ApplicationRows \cup {NoApplication}]
  OBVIOUS
<1>3. Lasting
  BY <1>1, <1>2 DEF Lasting, Filed, Known
<1>4. ApplicantsExist'
  BY <1>1, <1>2 DEF ApplicantsExist, Filed, Known
<1>5. ApplicationsAreApart'
  BY <1>1, <1>2 DEF ApplicationsAreApart, Filed, OfUser
<1>6. ApprovedHaveProfiles'
  BY <1>1, <1>2 DEF ApprovedHaveProfiles, Filed
<1>7. ApplicationsHold'
  BY <1>2, <1>4, <1>5, <1>6 DEF ApplicationsHold
<1> QED
  BY <1>3, <1>7, FreeIsSound, Proceeds DEF Leave

LEMMA FilePublicStep ==
    ASSUME OnboardingInv, NEW d \in Desks, FilePublic(d)
    PROVE  OnboardingInv'
<1>1. PICK email \in Emails : email = desk[d].email
  BY DeskJob, JobFields DEF FilePublic, Step
<1> DEFINE row == [user |-> NoUser, email |-> email, status |-> "pending"]
<1>2. row \in ApplicationRows /\ row.user = NoUser /\ row.email = email
      /\ row.status = "pending"
  BY DEF ApplicationRows
<1>3. /\ \E a \in Applications : application' = [application EXCEPT ![a] = row]
      /\ UNCHANGED <<user, edits>> /\ Leave(d)
  BY <1>1 DEF FilePublic
<1> HIDE DEF row
<1> QED
  BY <1>2, <1>3, FileStep

\* The status of an application changes, and nothing else of it.
LEMMA StatusStep ==
    ASSUME OnboardingInv, NEW d \in Desks, NEW a \in Applications, Filed(a),
           NEW status \in {"pending", "rejected"},
           application' = [application EXCEPT ![a].status = status],
           UNCHANGED <<user, edits>>, Leave(d)
    PROVE  OnboardingInv'
<1>0. application[a] \in ApplicationRows
  BY ApplicationFields DEF OnboardingInv
<1> DEFINE row == [application[a] EXCEPT !.status = status]
<1>1. /\ row \in ApplicationRows /\ row.status = status
      /\ row.user = application[a].user /\ row.email = application[a].email
  BY <1>0 DEF ApplicationRows
<1>2. application' = [application EXCEPT ![a] = row]
  BY DEF OnboardingInv, OnboardingTypeOK
<1> HIDE DEF row
<1>3. IF row.user = NoUser THEN row.email \in Emails ELSE Known(row.user)
  BY <1>1 DEF OnboardingInv, ApplicantsExist
<1>4. row.user # NoUser => OfUser(row.user) \subseteq {a}
  BY <1>1 DEF OnboardingInv, ApplicationsAreApart, OfUser
<1> QED
  BY <1>1, <1>2, <1>3, <1>4, FileStep

LEMMA FileOwnStep ==
    ASSUME OnboardingInv, NEW d \in Desks, FileOwn(d)
    PROVE  OnboardingInv'
<1>1. PICK u \in Persons : u = desk[d].user /\ Known(u)
  BY DeskJob, JobFields DEF FileOwn, Step, Sound
<1>2. UNCHANGED <<user, edits>> /\ Leave(d)
  BY DEF FileOwn
<1>3. CASE UNCHANGED application
  BY <1>2, <1>3, FreeIsSound, ReadStep DEF Leave
<1>4. CASE \E a \in OfUser(u) : application' = [application EXCEPT ![a].status = "pending"]
  BY <1>2, <1>4, StatusStep DEF OfUser
<1>5. ASSUME NEW a \in Applications, OfUser(u) = {},
             application' = [application EXCEPT ![a] =
                        [user |-> u, email |-> Deleted, status |-> "pending"]]
      PROVE  OnboardingInv'
  <2> DEFINE row == [user |-> u, email |-> Deleted, status |-> "pending"]
  <2>1. /\ row \in ApplicationRows /\ row.user = u /\ row.status = "pending"
        /\ application' = [application EXCEPT ![a] = row]
    BY <1>5 DEF ApplicationRows
  <2>2. u # NoUser
    BY OnboardingAssumption
  <2> HIDE DEF row
  <2> QED
    BY <1>1, <1>2, <1>5, <2>1, <2>2, FileStep
<1> QED
  BY <1>1, <1>3, <1>4, <1>5 DEF FileOwn

LEMMA ApproveStep ==
    ASSUME OnboardingInv, NEW d \in Desks, Approve(d)
    PROVE  OnboardingInv'
<1>1. PICK u \in Persons, a \in Applications :
        /\ u = desk[d].user /\ a = desk[d].application
        /\ Known(u) /\ user[u].profile /\ Filed(a)
  BY DeskJob, JobFields DEF Approve, Step, Sound
<1>2. UNCHANGED <<user, edits>> /\ Leave(d)
  BY DEF Approve
<1>3. CASE UNCHANGED application
  BY <1>2, <1>3, FreeIsSound, ReadStep DEF Leave
<1>4. CASE OfUser(u) \subseteq {a}
  <2>0. application[a] \in ApplicationRows
    BY <1>1, ApplicationFields DEF OnboardingInv
  <2> DEFINE row == [application[a] EXCEPT !.status = "approved", !.user = u]
  <2>1. row \in ApplicationRows /\ row.user = u /\ row.status = "approved"
    BY <2>0 DEF ApplicationRows
  <2>2. application' = [application EXCEPT ![a] = row]
    BY <1>1, <1>4 DEF Approve, OnboardingInv, OnboardingTypeOK
  <2>3. u # NoUser
    BY OnboardingAssumption
  <2> HIDE DEF row
  <2> QED
    BY <1>1, <1>2, <1>4, <2>1, <2>2, <2>3, FileStep
<1> QED
  BY <1>1, <1>3, <1>4 DEF Approve

LEMMA RejectStep ==
    ASSUME OnboardingInv, NEW d \in Desks, Reject(d)
    PROVE  OnboardingInv'
<1>1. PICK a \in Applications : a = desk[d].application /\ Filed(a)
  BY DeskJob, JobFields DEF Reject, Step, Sound
<1> QED
  BY <1>1, StatusStep DEF Reject

-----------------------------------------------------------------------------
(* Every step *)

LEMMA OnboardingStep ==
    ASSUME OnboardingInv, [OnboardingNext]_onboardingVars
    PROVE  OnboardingInv'
<1>1. ASSUME NEW d \in Desks,
             \/ \E email \in Emails : ApplyPublic(d, email)
             \/ \E u \in Persons : Submit(d, u) \/ DeactivateUser(d, u) \/ DeleteUser(d, u)
             \/ Abandon(d)
      PROVE  OnboardingInv'
  BY <1>1, ApplyingStep
<1>2. ASSUME NEW d \in Desks, NEW email \in Emails, NEW u \in Persons, NEW role \in Roles,
             AdminCreateUser(d, u, email, role)
      PROVE  OnboardingInv'
  BY <1>2, CreatingStep
<1>3. ASSUME NEW u \in Persons, NEW email \in Emails, SignUp(u, email) PROVE OnboardingInv'
  <2>1. UsersGrow
    BY <1>3, InsertGrows DEF SignUp, Roles
  <2> QED
    BY <1>3, <2>1, UsersGrowStep, GoesOn DEF SignUp
<1>4. ASSUME NEW d \in Desks, NEW a \in Applications, Review(d, a) PROVE OnboardingInv'
  BY <1>4, ReviewStep
<1>5. ASSUME NEW d \in Desks,
             \/ FilePublic(d) \/ FileOwn(d)
             \/ Promote(d) \/ Provision(d) \/ Approve(d) \/ Reject(d)
             \/ CreateProfile(d) \/ TakeOut(d)
      PROVE  OnboardingInv'
  BY <1>5, FilePublicStep, FileOwnStep, PromoteStep, ProvisionStep, ApproveStep,
     RejectStep, DesksAmend
<1>6. ASSUME NEW u \in Persons,
             \/ \E email \in Emails : UpdateEmail(u, email)
             \/ \E role \in Roles : ChangeUserRole(u, role)
             \/ ActivateUser(u) \/ UpdateInstructorProfile(u)
      PROVE  OnboardingInv'
  BY <1>6, AdminsAmend
<1>7. CASE UNCHANGED onboardingVars
  <2>1. ApplicationsHold' /\ Lasting
    BY <1>7, EditsStay, SameUsers, UsersGrowStep DEF onboardingVars, OnboardingInv
  <2> QED
    BY <1>7, <2>1, GoesOn DEF onboardingVars
<1> QED
  BY <1>1, <1>2, <1>3, <1>4, <1>5, <1>6, <1>7 DEF OnboardingNext

LEMMA OnboardingInvariance == OnboardingSpec => []OnboardingInv
<1>1. OnboardingInit => OnboardingInv
  BY FreeIsSound, OnboardingAssumption
     DEF OnboardingInit, OnboardingInv, OnboardingTypeOK, DesksAreSound, ApplicantsExist,
         ApplicationsAreApart, ApprovedHaveProfiles, Filed
<1>2. OnboardingInv /\ [OnboardingNext]_onboardingVars => OnboardingInv'
  BY OnboardingStep
<1> QED
  BY <1>1, <1>2, PTL DEF OnboardingSpec

\* Accounts, applications and the requests about them keep their types.
THEOREM OnboardingTypes == OnboardingSpec => []OnboardingTypeOK
<1>1. OnboardingInv => OnboardingTypeOK
  BY DEF OnboardingInv
<1> QED
  BY <1>1, OnboardingInvariance, PTL

\* An approval leaves an account that has its instructor profile and no second
\* application, whatever other reviews and edits overlapped it.
THEOREM WholeInstructors == OnboardingSpec => []InstructorsAreWhole
<1>1. OnboardingInv => InstructorsAreWhole
  <2> SUFFICES ASSUME OnboardingInv, NEW u \in Persons
               PROVE  Cardinality(OfUser(u)) <= 1
    BY DEF InstructorsAreWhole, OneApplicationPerAccount, OnboardingInv
  <2>1. u # NoUser
    BY OnboardingAssumption
  <2>2. \A a, b \in OfUser(u) : a = b
    BY <2>1 DEF OfUser, OnboardingInv, ApplicationsAreApart
  <2>3. OfUser(u) = {} \/ \E a : OfUser(u) = {a}
    BY <2>2
  <2> QED
    BY <2>3, FS_EmptySet, FS_Singleton
<1> QED
  BY <1>1, OnboardingInvariance, PTL
-----------------------------------------------------------------------------
(***************************************************************************)
(* Totp                                                                    *)
(***************************************************************************)

(* Time *)

LEMMA StepsAreInts ==
    ASSUME NEW s \in Nat
    PROVE  StepAt(s) \in Nat
BY TotpAssumption DEF StepAt

LEMMA StepsGrow ==
    ASSUME NEW s \in Nat, NEW t \in Nat, s <= t
    PROVE  StepAt(s) <= StepAt(t)
<1> DEFINE k == StepSeconds
           a == s \div k
           b == t \div k
<1>1. k \in Nat \ {0}
  BY TotpAssumption
<1>2. a \in Nat /\ k * a <= s
  BY <1>1
<1>3. b \in Nat /\ t < k * (b + 1)
  BY <1>1
<1> HIDE DEF k, a, b
<1>4. k * a < k * (b + 1)
  BY <1>1, <1>2, <1>3
<1>5. a < b + 1
  BY <1>1, <1>2, <1>3, <1>4
<1> QED
  BY <1>2, <1>3, <1>5 DEF StepAt, a, b, k

-----------------------------------------------------------------------------
(* A verification *)

Near(step, t) == StepAt(t) - Window <= step /\ step <= StepAt(t) + Window

\* What was compared so far did not match, if it was compared in one step.
LoginFits(l) ==
    /\ l \in [step : Int, from : Nat, window : Int, accepted : BOOLEAN]
    /\ l.from <= now
    /\ -Window <= l.window /\ l.window <= Window + 1
    /\ l.accepted => \E t \in l.from..now : Near(l.step, t)
    /\ ~l.accepted /\ StepAt(l.from) = StepAt(now) =>
           \A w \in -Window..(l.window - 1) : l.step # StepAt(now) + w

TotpInv ==
    /\ secret \in Seq(Bytes) /\ Len(secret) <= MaxLength
    /\ now \in 0..MaxClock
    /\ login = NoCode \/ LoginFits(login)

LEMMA TotpInvariance == TotpSpec => []TotpInv
<1>0. Window \in Nat /\ MaxClock \in Nat /\ MaxLength \in Nat
  BY TotpAssumption
<1>1. TotpInit => TotpInv
  <2> SUFFICES ASSUME TotpInit PROVE TotpInv
    OBVIOUS
  <2>1. PICK n \in 0..MaxLength : secret \in [1..n -> Bytes]
    BY DEF TotpInit, SeqOf
  <2>2. secret \in Seq(Bytes) /\ Len(secret) = n
    BY <1>0, <2>1
  <2> QED
    BY <1>0, <2>2 DEF TotpInit, TotpInv
<1>2. ASSUME TotpInv, [TotpNext]_totpVars
      PROVE  TotpInv'
  <2>0. now \in Nat /\ now <= MaxClock
    BY <1>0, <1>2 DEF TotpInv
  <2>1. ASSUME NEW step \in -1..(StepAt(MaxClock) + 1), EnterCode(step)
        PROVE  TotpInv'
    <3>1. step \in Int
      BY <1>0, StepsAreInts
    <3>2. /\ login' = [step |-> step, from |-> now, window |-> -Window, accepted |-> FALSE]
          /\ secret' = secret /\ now' = now
      BY <2>1 DEF EnterCode
    <3>3. LoginFits(login)'
      BY <1>0, <2>0, <3>1, <3>2 DEF LoginFits
    <3> QED
      BY <1>2, <3>2, <3>3 DEF TotpInv
  <2>2. CASE CompareCode
    <3>1. LoginFits(login) /\ ~login.accepted /\ login.window <= Window
      BY <1>2, <2>2 DEF CompareCode, Verifying, TotpInv
    <3>2. secret' = secret /\ now' = now
      BY <2>2 DEF CompareCode
    <3>3. StepAt(now) \in Nat
      BY <2>0, StepsAreInts
    <3>4. CASE Matches(login.step)
      <4>1. login' = [login EXCEPT !.accepted = TRUE]
        BY <2>2, <3>4 DEF CompareCode
      <4>2. Near(login.step, now)
        BY <1>0, <3>1, <3>3, <3>4 DEF Matches, Near, LoginFits
      <4>3. \E t \in login.from..now : Near(login.step, t)
        BY <2>0, <3>1, <4>2 DEF LoginFits
      <4>4. LoginFits(login)'
        BY <3>1, <3>2, <4>1, <4>3 DEF LoginFits, Near
      <4> QED
        BY <1>2, <3>2, <4>4 DEF TotpInv
    <3>5. CASE ~Matches(login.step)
      <4>1. login' = [login EXCEPT !.window = @ + 1]
        BY <2>2, <3>5 DEF CompareCode
      <4>2. login.step # StepAt(now) + login.window
        BY <3>5 DEF Matches
      <4>3. LoginFits(login)'
        BY <1>0, <3>1, <3>2, <4>1, <4>2 DEF LoginFits
      <4> QED
        BY <1>2, <3>2, <4>3 DEF TotpInv
    <3> QED
      BY <3>4, <3>5
  <2>3. CASE Conclude
    BY <1>2, <2>3 DEF Conclude, TotpInv
  <2>4. CASE Tick
    <3>1. now' = now + 1 /\ now' <= MaxClock /\ secret' = secret /\ login' = login
      BY <1>0, <2>0, <2>4 DEF Tick
    <3>2. CASE login = NoCode
      BY <1>0, <1>2, <2>0, <3>1, <3>2 DEF TotpInv
    <3>3. CASE login # NoCode
      <4>1. LoginFits(login)
        BY <1>2, <3>3 DEF TotpInv
      <4>2. StepAt(login.from) = StepAt(now + 1) => StepAt(now) = StepAt(login.from)
        <5>1. login.from \in Nat /\ login.from <= now
          BY <4>1 DEF LoginFits
        <5>2. StepAt(login.from) <= StepAt(now) /\ StepAt(now) <= StepAt(now + 1)
          BY <2>0, <5>1, StepsGrow
        <5>3. StepAt(login.from) \in Nat /\ StepAt(now) \in Nat /\ StepAt(now + 1) \in Nat
          BY <2>0, <5>1, StepsAreInts
        <5> QED
          BY <5>2, <5>3
      <4>3. login.accepted => \E t \in login.from..(now + 1) : Near(login.step, t)
        BY <2>0, <4>1 DEF LoginFits
      <4>4. LoginFits(login)'
        BY <2>0, <3>1, <4>1, <4>2, <4>3 DEF LoginFits, Near
      <4> QED
        BY <1>0, <1>2, <2>0, <3>1, <4>4 DEF TotpInv
    <3> QED
      BY <3>2, <3>3
  <2>5. CASE UNCHANGED totpVars
    BY <1>2, <2>5 DEF totpVars, TotpInv, LoginFits, Near
  <2> QED
    BY <1>2, <2>1, <2>2, <2>3, <2>4, <2>5 DEF TotpNext
<1> QED
  BY <1>1, <1>2, PTL DEF TotpSpec

\* The secret, the clock and a code under verification keep their types.
THEOREM TotpTypes == TotpSpec => []TotpTypeOK
<1>1. TotpInv => TotpTypeOK
  BY TotpAssumption DEF TotpInv, TotpTypeOK, LoginFits
<1> QED
  BY <1>1, TotpInvariance, PTL

\* A code is accepted only if its step was within the window at some moment of
\* its verification, and refused only if it is not, or a step began meanwhile;
\* for steps and windows of any length.
THEOREM TimelyCodes == TotpSpec => []CodesAreTimely
<1>1. ASSUME TotpInv
      PROVE  CodesAreTimely
  <2> SUFFICES ASSUME login # NoCode
               PROVE  /\ login.accepted => \E t \in login.from..now : Near(login.step, t)
                      /\ ~login.accepted /\ ~Verifying =>
                             StepAt(login.from) # StepAt(now) \/ ~Near(login.step, now)
    BY DEF CodesAreTimely, Near
  <2>1. LoginFits(login)
    BY <1>1 DEF TotpInv
  <2>2. ASSUME ~login.accepted, ~Verifying, StepAt(login.from) = StepAt(now)
        PROVE  ~Near(login.step, now)
    <3>1. Window \in Nat /\ now \in Nat
      BY <1>1, TotpAssumption DEF TotpInv
    <3>2. StepAt(now) \in Nat
      BY <3>1, StepsAreInts
    <3>3. login.window = Window + 1 /\ login.step \in Int
      BY <2>1, <2>2, <3>1 DEF Verifying, LoginFits
    <3>4. \A w \in -Window..Window : login.step # StepAt(now) + w
      BY <2>1, <2>2, <3>1, <3>3 DEF LoginFits
    <3>5. ASSUME Near(login.step, now)
          PROVE  FALSE
      <4>1. login.step - StepAt(now) \in -Window..Window
        BY <3>1, <3>2, <3>3, <3>5 DEF Near
      <4> QED
        BY <3>2, <3>3, <3>4, <4>1
    <3> QED
      BY <3>5
  <2> QED
    BY <2>1, <2>2 DEF LoginFits
<1> QED
  BY <1>1, TotpInvariance, PTL

(***************************************************************************)
(* Base 32.  Both conversions are one machine: it reads numbers of w1 bits *)
(* into an accumulator and puts out numbers of w2 bits, and what it has    *)
(* put out and still keeps are the bits of what it has read (Packed).  The *)
(* accumulator is a signed integer of 32 bits that nobody clears; shifting *)
(* it loses multiples of 2^32 (ShiftIs), never one of the twelve low bits  *)
(* that may still be needed (BitsShifted).                                 *)
(***************************************************************************)

\* A quotient is known by its rest.
LEMMA QuotientIs ==
    ASSUME NEW d \in Nat \ {0}, NEW q \in Int, NEW r \in 0..(d - 1)
    PROVE  (d * q + r) \div d = q
<1> DEFINE a == d * q + r
           p == a \div d
<1>1. a \in Int /\ p \in Int /\ d * p <= a /\ a < d * (p + 1)
  BY SMT
<1>2. d * q <= a /\ a < d * (q + 1)
  BY SMT
<1> HIDE DEF a, p
<1>3. d * p < d * (q + 1) /\ d * q < d * (p + 1)
  BY <1>1, <1>2, SMT
<1>4. p < q + 1 /\ q < p + 1
  BY <1>1, <1>3, SMT
<1>5. p = q
  BY <1>1, <1>4
<1> QED
  BY <1>5 DEF p, a

\* A number is the quotient, times the divisor, and the rest.
LEMMA QuotientAndRest ==
    ASSUME NEW d \in Nat \ {0}, NEW x \in Int
    PROVE  /\ x \div d \in Int /\ x % d \in 0..(d - 1)
           /\ x = d * (x \div d) + (x % d)
<1>1. x \div d \in Int
  BY SMT
<1>2. x % d \in 0..(d - 1)
  BY SMT
<1>3. x = d * (x \div d) + (x % d)
  BY SMT
<1> QED
  BY <1>1, <1>2, <1>3

\* Dividing twice is dividing by the product.
LEMMA QuotientTwice ==
    ASSUME NEW A \in Nat \ {0}, NEW B \in Nat \ {0}, NEW x \in Int
    PROVE  (x \div A) \div B = x \div (A * B)
<1> DEFINE q == x \div A
           r == x % A
           p == q \div B
           t == q % B
<1>1. q \in Int /\ r \in 0..(A - 1) /\ x = A * q + r
  BY QuotientAndRest
<1>2. p \in Int /\ t \in 0..(B - 1) /\ q = B * p + t
  BY <1>1, QuotientAndRest
<1> HIDE DEF q, r, p, t
<1>3. x = (A * B) * p + (A * t + r)
  BY <1>1, <1>2, SMT
<1>4. A * t <= A * (B - 1) /\ 0 <= A * t
  BY <1>2, SMT
<1>5. A * t + r \in 0..(A * B - 1) /\ A * B \in Nat \ {0}
  BY <1>1, <1>2, <1>4, SMT
<1>6. x \div (A * B) = p
  BY <1>2, <1>3, <1>5, QuotientIs
<1> QED
  BY <1>6 DEF p, q

\* A bit of a rest.
LEMMA LowBit ==
    ASSUME NEW P \in Nat \ {0}, NEW K \in Nat \ {0}, NEW y \in Int
    PROVE  ((y % (P * (2 * K))) \div P) % 2 = (y \div P) % 2
<1> DEFINE M == P * (2 * K)
           z == y \div M
           u == y % M
           q == u \div P
           r == u % P
<1>1. M \in Nat \ {0}
  BY SMT
<1> HIDE DEF M
<1>2. z \in Int /\ u \in Int /\ y = M * z + u
  BY <1>1, QuotientAndRest
<1>3. q \in Int /\ r \in 0..(P - 1) /\ u = P * q + r
  BY <1>2, QuotientAndRest
<1> USE DEF M
<1> HIDE DEF z, u, q, r
<1>4. M * z = P * (2 * (K * z)) /\ K * z \in Int
  BY <1>2, SMT
<1>5. y = P * (q + 2 * (K * z)) + r
  BY <1>2, <1>3, <1>4, SMT
<1>6. q + 2 * (K * z) \in Int
  BY <1>3, <1>4
<1>7. y \div P = q + 2 * (K * z)
  BY <1>3, <1>5, <1>6, QuotientIs
<1>8. (q + 2 * (K * z)) % 2 = q % 2
  <2> DEFINE c == K * z
  <2>1. c \in Int
    BY <1>4
  <2> HIDE DEF c
  <2>2. (q + 2 * c) % 2 = q % 2
    BY <1>3, <2>1, SMT
  <2> QED
    BY <2>2 DEF c
<1> QED
  BY <1>7, <1>8 DEF q, u

\* y is v moved up by a factor of W, above b, with an error above all bits of interest.
IsShiftedSum(y, d, W, P, K, v, m, b) ==
    /\ P \in Nat \ {0} /\ W \in Nat \ {0} /\ K \in Nat
    /\ v \in Int /\ m \in Int /\ b \in 0..(W - 1)
    /\ d = W * P /\ y = W * v + (d * (2 * K)) * m + b

\* A bit of a sum whose terms do not meet.
LEMMA HighBit ==
    ASSUME NEW P, NEW W, NEW K, NEW v, NEW m, NEW b, NEW d, NEW y,
           IsShiftedSum(y, d, W, P, K, v, m, b)
    PROVE  (y \div d) % 2 = (v \div P) % 2
<1> DEFINE q == v \div P
           r == v % P
           n == W * v + ((W * P) * (2 * K)) * m + b
           low == W * r + b
<1>0. P \in Nat \ {0} /\ W \in Nat \ {0} /\ K \in Nat /\ v \in Int /\ m \in Int /\ b \in 0..(W - 1)
  BY DEF IsShiftedSum
<1>10. d = W * P /\ n = y
  BY DEF IsShiftedSum
<1> HIDE DEF IsShiftedSum
<1>1. v = P * q + r /\ q \in Int /\ r \in Int /\ 0 <= r /\ r <= P - 1
  BY <1>0, SMT
<1> HIDE DEF q, r
<1>2. W * v = (W * P) * q + W * r
  BY <1>0, <1>1, SMT
<1>3. ((W * P) * (2 * K)) * m = (W * P) * (2 * (K * m))
  BY <1>0, SMT
<1>4. n = (W * P) * (q + 2 * (K * m)) + low
  BY <1>0, <1>1, <1>2, <1>3, SMT
<1>5. W * r <= W * (P - 1) /\ 0 <= W * r
  BY <1>0, <1>1, SMT
<1>6. low \in 0..(W * P - 1) /\ W * P \in Nat \ {0}
  BY <1>0, <1>1, <1>5, SMT
<1>7. q + 2 * (K * m) \in Int /\ K * m \in Int
  BY <1>0, <1>1, SMT
<1> HIDE DEF low, n
<1>8. n \div (W * P) = q + 2 * (K * m)
  BY <1>4, <1>6, <1>7, QuotientIs
<1>9. (q + 2 * (K * m)) % 2 = q % 2
  BY <1>1, <1>7, SMT
<1> QED
  BY <1>8, <1>9, <1>10 DEF q

\* The powers of two that occur.
Two == [k \in 0..12 |->
    IF k < 4 THEN IF k < 2 THEN IF k = 0 THEN 1 ELSE 2 ELSE IF k = 2 THEN 4 ELSE 8
    ELSE IF k < 8 THEN IF k < 6 THEN IF k = 4 THEN 16 ELSE 32 ELSE IF k = 6 THEN 64 ELSE 128
    ELSE IF k < 10 THEN IF k = 8 THEN 256 ELSE 512
         ELSE IF k = 10 THEN 1024 ELSE IF k = 11 THEN 2048 ELSE 4096]

\* They are the powers of two.
LEMMA PowerIs ==
    ASSUME NEW k \in 0..12
    PROVE  2^k = Two[k]
<1>1. CASE k = 0
  BY <1>1, SMT DEF Two
<1>2. CASE k = 1
  BY <1>2, SMT DEF Two
<1>3. CASE k = 2
  BY <1>3, SMT DEF Two
<1>4. CASE k = 3
  BY <1>4, SMT DEF Two
<1>5. CASE k = 4
  BY <1>5, SMT DEF Two
<1>6. CASE k = 5
  BY <1>6, SMT DEF Two
<1>7. CASE k = 6
  BY <1>7, SMT DEF Two
<1>8. CASE k = 7
  BY <1>8, SMT DEF Two
<1>9. CASE k = 8
  BY <1>9, SMT DEF Two
<1>10. CASE k = 9
  BY <1>10, SMT DEF Two
<1>11. CASE k = 10
  BY <1>11, SMT DEF Two
<1>12. CASE k = 11
  BY <1>12, SMT DEF Two
<1>13. CASE k = 12
  BY <1>13, SMT DEF Two
<1> QED
  BY <1>1, <1>2, <1>3, <1>4, <1>5, <1>6, <1>7, <1>8, <1>9, <1>10, <1>11, <1>12, <1>13

\* Exponents add up.
LEMMA PowersMultiply ==
    ASSUME NEW a \in 0..12, NEW b \in 0..12, a + b \in 0..12
    PROVE  2^(a + b) = 2^a * 2^b /\ 2^a \in Nat \ {0}
<1>1. Two[a + b] = Two[a] * Two[b] /\ Two[a] \in Nat \ {0}
  BY SMT DEF Two
<1> QED
  BY <1>1, PowerIs

\* Those that the code writes as numbers.
LEMMA SmallPowers ==
    /\ 2^0 = 1 /\ 2^1 = 2 /\ 2^5 = 32 /\ 2^8 = 256 /\ 2^12 = 4096
BY SMT

-----------------------------------------------------------------------------
(* Bits *)

\* A bit of a field is a bit of the number.
LEMMA FieldBit ==
    ASSUME NEW x \in Int, NEW k \in 0..7, NEW w \in 1..8, k + w <= 12, NEW i \in 0..(w - 1)
    PROVE  Field(Field(x, k, w), i, 1) = Field(x, k + i, 1)
<1> DEFINE A == 2^k
           P == 2^i
           K == 2^(w - 1 - i)
           y == x \div A
<1>1. A \in Nat \ {0} /\ P \in Nat \ {0} /\ K \in Nat \ {0} /\ 2^(k + i) = A * P
  <2>1. k \in 0..12 /\ i \in 0..12 /\ w - 1 - i \in 0..12 /\ k + i \in 0..12 /\ 0 \in 0..12
    OBVIOUS
  <2>2. k + 0 \in 0..12 /\ i + 0 \in 0..12 /\ (w - 1 - i) + 0 \in 0..12
    OBVIOUS
  <2> QED
    BY <2>1, <2>2, PowersMultiply
<1>2. 2^w = P * (2 * K)
  <2>1. 2^(w - 1 - i + 1) = 2^(w - 1 - i) * 2^1
    <3>1. w - 1 - i \in 0..12 /\ 1 \in 0..12 /\ (w - 1 - i) + 1 \in 0..12
      OBVIOUS
    <3> QED
      BY <3>1, PowersMultiply
  <2>2. 2^(i + (w - 1 - i + 1)) = 2^i * 2^(w - 1 - i + 1)
    <3>1. i \in 0..12 /\ w - 1 - i + 1 \in 0..12 /\ i + (w - 1 - i + 1) \in 0..12
      OBVIOUS
    <3> QED
      BY <3>1, PowersMultiply
  <2>3. i + (w - 1 - i + 1) = w
    OBVIOUS
  <2>4. K \in Nat
    BY <1>1
  <2> QED
    BY <2>1, <2>2, <2>3, <2>4, SmallPowers
<1>3. y \in Int
  BY <1>1, QuotientAndRest
<1>4. Field(x, k, w) = y % (P * (2 * K))
  BY <1>2 DEF Field
<1>5. Field(x, k + i, 1) = (y \div P) % 2
  <2>1. x \div (A * P) = y \div P
    BY <1>1, QuotientTwice
  <2> QED
    BY <1>1, <2>1, SmallPowers DEF Field
<1>6. Field(Field(x, k, w), i, 1) = ((y % (P * (2 * K))) \div P) % 2
  <2>1. \A z : Field(z, i, 1) = (z \div P) % 2
    BY SmallPowers DEF Field
  <2> HIDE DEF P
  <2> QED
    BY <1>4, <2>1
<1> HIDE DEF A, P, K, y
<1> QED
  BY <1>1, <1>3, <1>5, <1>6, LowBit

\* A field of w bits is a number of w bits.
LEMMA FieldSize ==
    ASSUME NEW x \in Int, NEW k \in 0..7, NEW w \in 1..8
    PROVE  Field(x, k, w) \in 0..(2^w - 1)
<1>1. 2^k \in Nat \ {0} /\ 2^w \in Nat \ {0}
  <2>1. k \in 0..12 /\ w \in 0..12 /\ 0 \in 0..12 /\ k + 0 \in 0..12 /\ w + 0 \in 0..12
    OBVIOUS
  <2> QED
    BY <2>1, PowersMultiply
<1>2. x \div 2^k \in Int
  BY <1>1, QuotientAndRest
<1> QED
  BY <1>1, <1>2, QuotientAndRest DEF Field

\* Of a letter and of a byte.
Widths == {5, 8}

\* What a number of 32 bits does not tell apart.
Wrap == 4294967296

\* What a shift loses is a multiple of each power of two at hand.
LEMMA WrapIs ==
    /\ Wrap \in Nat
    /\ \A k \in {5, 8, 12} : \E c \in Nat : Wrap = 2^k * c
<1>1. Wrap \in Nat
  BY SMT DEF Wrap
<1>2. \E c \in Nat : Wrap = 2^5 * c
  <2> DEFINE c == 134217728
  <2>1. c \in Nat /\ Wrap = 2^5 * c
    BY SMT DEF Wrap
  <2> HIDE DEF c
  <2> QED
    BY <2>1, Zenon
<1>3. \E c \in Nat : Wrap = 2^8 * c
  <2> DEFINE c == 16777216
  <2>1. c \in Nat /\ Wrap = 2^8 * c
    BY SMT DEF Wrap
  <2> HIDE DEF c
  <2> QED
    BY <2>1, Zenon
<1>4. \E c \in Nat : Wrap = 2^12 * c
  <2> DEFINE c == 1048576
  <2>1. c \in Nat /\ Wrap = 2^12 * c
    BY SMT DEF Wrap
  <2> HIDE DEF c
  <2> QED
    BY <2>1, Zenon
<1> QED
  BY <1>1, <1>2, <1>3, <1>4, Zenon

\* What a shift by a byte loses, and the sign it gives, is a multiple of 2^32.
LEMMA ShiftedByEight ==
    ASSUME NEW v \in Int
    PROVE  \E m \in Int : ShiftLeft(v, 8) = 2^8 * v + Wrap * m
<1> DEFINE d == 2^(32 - 8)
           h == 2^(31 - 8)
           q == v \div d
           r == v % d
<1>1. d = 2 * h /\ d * 2^8 = Wrap /\ h \in Nat \ {0}
  BY SMT DEF Wrap
<1> HIDE DEF d, h
<1>2. q \in Int /\ r \in 0..(d - 1) /\ v = d * q + r
  <2>1. d \in Nat \ {0}
    BY <1>1
  <2> QED
    BY <2>1, QuotientAndRest
<1>3. ShiftLeft(v, 8) = (IF r >= h THEN r - d ELSE r) * 2^8
  BY <1>1, Zenon DEF ShiftLeft, d, h, r
<1> HIDE DEF q, r
<1>4. CASE r >= h
  <2>1. ShiftLeft(v, 8) = 2^8 * v + Wrap * (-q - 1) /\ -q - 1 \in Int
    BY <1>1, <1>2, <1>3, <1>4, SMT DEF Wrap
  <2> QED
    BY <2>1, Zenon
<1>5. CASE ~ (r >= h)
  <2>1. ShiftLeft(v, 8) = 2^8 * v + Wrap * (-q) /\ -q \in Int
    BY <1>1, <1>2, <1>3, <1>5, SMT DEF Wrap
  <2> QED
    BY <2>1, Zenon
<1> QED
  BY <1>4, <1>5

\* The same of a letter.
LEMMA ShiftedByFive ==
    ASSUME NEW v \in Int
    PROVE  \E m \in Int : ShiftLeft(v, 5) = 2^5 * v + Wrap * m
<1> DEFINE d == 2^(32 - 5)
           h == 2^(31 - 5)
           q == v \div d
           r == v % d
<1>1. d = 2 * h /\ d * 2^5 = Wrap /\ h \in Nat \ {0}
  BY SMT DEF Wrap
<1> HIDE DEF d, h
<1>2. q \in Int /\ r \in 0..(d - 1) /\ v = d * q + r
  <2>1. d \in Nat \ {0}
    BY <1>1
  <2> QED
    BY <2>1, QuotientAndRest
<1>3. ShiftLeft(v, 5) = (IF r >= h THEN r - d ELSE r) * 2^5
  BY <1>1, Zenon DEF ShiftLeft, d, h, r
<1> HIDE DEF q, r
<1>4. CASE r >= h
  <2>1. ShiftLeft(v, 5) = 2^5 * v + Wrap * (-q - 1) /\ -q - 1 \in Int
    BY <1>1, <1>2, <1>3, <1>4, SMT DEF Wrap
  <2> QED
    BY <2>1, Zenon
<1>5. CASE ~ (r >= h)
  <2>1. ShiftLeft(v, 5) = 2^5 * v + Wrap * (-q) /\ -q \in Int
    BY <1>1, <1>2, <1>3, <1>5, SMT DEF Wrap
  <2> QED
    BY <2>1, Zenon
<1> QED
  BY <1>4, <1>5

\* Of either.
LEMMA ShiftIs ==
    ASSUME NEW w \in Widths, NEW v \in Int
    PROVE  \E m \in Int : ShiftLeft(v, w) = 2^w * v + Wrap * m
<1>1. CASE w = 5
  BY <1>1, ShiftedByFive, Zenon
<1>2. CASE w = 8
  BY <1>2, ShiftedByEight, Zenon
<1> QED
  BY <1>1, <1>2 DEF Widths

\* The number shifted in has the low bits, the old ones stand above them.
LEMMA BitsShifted ==
    ASSUME NEW w \in Widths, NEW v \in Int, NEW b \in 0..(2^w - 1), NEW j \in 0..11
    PROVE  /\ ShiftLeft(v, w) + b \in Int
           /\ Field(ShiftLeft(v, w) + b, j, 1) =
                  IF j < w THEN Field(b, j, 1) ELSE Field(v, j - w, 1)
<1> DEFINE W == 2^w
<1>1. PICK m \in Int : ShiftLeft(v, w) = W * v + Wrap * m
  BY ShiftIs
<1>2. w \in 5..8 /\ W \in Nat \ {0}
  <2>1. w \in 5..8
    BY DEF Widths
  <2>2. w \in 0..12 /\ 0 \in 0..12 /\ w + 0 \in 0..12
    BY <2>1
  <2> QED
    BY <2>1, <2>2, PowersMultiply
<1> DEFINE y == ShiftLeft(v, w) + b
<1>3. b \in 0..(W - 1) /\ b \in Int
  BY <1>2
<1>4. y = W * v + Wrap * m + b
  BY <1>1
<1> HIDE DEF W, y
<1>5. y \in Int
  <2>1. W * v \in Int
    BY <1>2
  <2> DEFINE c == W * v
  <2> HIDE DEF c
  <2>2. c \in Int /\ y = c + Wrap * m + b
    BY <1>4, <2>1 DEF c
  <2> QED
    BY <1>3, <2>2, SMT
<1>6. \A z, i : Field(z, i, 1) = (z \div 2^i) % 2
  BY SmallPowers DEF Field
<1>7. CASE j < w
  <2> DEFINE P == 2^j
             K == 2^(w - 1 - j)
  <2>1. /\ j \in 0..12 /\ w - 1 - j \in 0..12 /\ 1 \in 0..12 /\ (w - 1 - j) + 1 \in 0..12
        /\ j + ((w - 1 - j) + 1) \in 0..12 /\ 0 \in 0..12 /\ j + 0 \in 0..12
        /\ (w - 1 - j) + 0 \in 0..12
    BY <1>2, <1>7
  <2>2. P \in Nat \ {0} /\ K \in Nat \ {0}
    BY <2>1, PowersMultiply
  <2>3. 2^((w - 1 - j) + 1) = K * 2^1
    BY <2>1, PowersMultiply
  <2>4. 2^(j + ((w - 1 - j) + 1)) = P * 2^((w - 1 - j) + 1)
    BY <2>1, PowersMultiply
  <2>5. j + ((w - 1 - j) + 1) = w
    BY <1>2
  <2>6. W = P * (2 * K)
    BY <2>2, <2>3, <2>4, <2>5, SmallPowers DEF W
  <2>7. \E c \in Int : Wrap * m = W * c
    <3>1. \E n \in Nat : Wrap = W * n
      BY WrapIs, Zenon DEF Widths, W
    <3>2. PICK n \in Nat : Wrap = W * n
      BY <3>1
    <3>3. (W * n) * m = W * (n * m) /\ n * m \in Int
      BY <1>2, SMT
    <3> QED
      BY <3>2, <3>3, Zenon
  <2>8. PICK c \in Int : Wrap * m = W * c
    BY <2>7
  <2>9. y = W * (v + c) + b /\ v + c \in Int
    <3>1. y = W * v + W * c + b
      BY <1>4, <2>8, Zenon
    <3>2. W * (v + c) = W * v + W * c
      BY <1>2
    <3> QED
      BY <3>1, <3>2
  <2>10. y \div W = v + c
    BY <1>2, <1>3, <2>9, QuotientIs
  <2>11. y % W = b
    <3>1. y = W * (v + c) + (y % W) /\ y % W \in Int
      <4>1. y = W * (y \div W) + (y % W) /\ y % W \in 0..(W - 1)
        BY <1>2, <1>5, QuotientAndRest, Zenon
      <4>2. y % W \in Int
        BY <4>1
      <4> QED
        BY <2>10, <4>1, <4>2, Zenon
    <3> DEFINE d == W * (v + c)
    <3>2. d \in Int
      BY <1>2, <2>9
    <3> HIDE DEF d
    <3>3. y = d + (y % W) /\ y = d + b
      BY <2>9, <3>1 DEF d
    <3> DEFINE e == y % W
    <3> HIDE DEF e
    <3>4. y = d + e /\ e \in Int
      BY <3>1, <3>3 DEF e
    <3>5. e = b
      BY <1>3, <3>2, <3>3, <3>4
    <3> QED
      BY <3>5 DEF e
  <2> HIDE DEF P, K
  <2>12. ((y % (P * (2 * K))) \div P) % 2 = (y \div P) % 2
    BY <1>5, <2>2, LowBit
  <2>13. (b \div P) % 2 = (y \div P) % 2
    BY <2>6, <2>11, <2>12
  <2>14. Field(y, j, 1) = Field(b, j, 1)
    BY <1>6, <2>13, Zenon DEF P
  <2> QED
    BY <1>5, <1>7, <2>14, Zenon DEF y
<1>8. CASE ~ (j < w)
  <2> DEFINE P == 2^(j - w)
             H == 2^(11 - j)
  <2>1. /\ j - w \in 0..12 /\ w \in 0..12 /\ w + (j - w) \in 0..12 /\ 11 - j \in 0..12
        /\ 0 \in 0..12 /\ (j - w) + 0 \in 0..12 /\ (11 - j) + 0 \in 0..12
        /\ 1 \in 0..12 /\ (11 - j) + 1 \in 0..12
        /\ (w + (j - w)) + ((11 - j) + 1) \in 0..12
        /\ w + (j - w) = j /\ j + ((11 - j) + 1) = 12
    BY <1>2, <1>8
  <2>2. P \in Nat \ {0} /\ H \in Nat \ {0}
    BY <2>1, PowersMultiply
  <2>3. 2^j = W * P
    <3>1. 2^(w + (j - w)) = 2^w * 2^(j - w)
      BY <2>1, PowersMultiply
    <3> QED
      BY <2>1, <3>1, Zenon DEF W
  <2>4. 2^((11 - j) + 1) = H * 2
    <3>1. 2^((11 - j) + 1) = H * 2^1
      BY <2>1, PowersMultiply
    <3> QED
      BY <3>1, SmallPowers
  <2>5. 2^(j + ((11 - j) + 1)) = 2^j * 2^((11 - j) + 1)
    BY <2>1, PowersMultiply
  <2>6. 2^12 = (W * P) * (H * 2)
    BY <2>1, <2>3, <2>4, <2>5, SmallPowers
  <2> HIDE DEF P, H
  <2> DEFINE d == W * P
  <2>7. d \in Nat \ {0}
    BY <1>2, <2>2
  <2> HIDE DEF d
  <2>8. PICK K \in Nat : Wrap = d * (2 * K)
    <3>1. 2^12 = d * (H * 2)
      BY <2>6 DEF d
    <3>2. PICK c \in Nat : Wrap = 2^12 * c
      BY WrapIs, Zenon
    <3>3. d * (2 * (H * c)) = (d * (H * 2)) * c /\ H * c \in Nat
      BY <2>2, <2>7, SMT
    <3>4. Wrap = d * (2 * (H * c))
      BY <3>1, <3>2, <3>3, Zenon
    <3> QED
      BY <3>3, <3>4, Zenon
  <2>9. y = W * v + (d * (2 * K)) * m + b
    BY <1>4, <2>8, Zenon
  <2>10. (y \div d) % 2 = (v \div P) % 2
    <3>1. IsShiftedSum(y, d, W, P, K, v, m, b)
      BY <1>2, <1>3, <2>2, <2>9, Zenon DEF d, IsShiftedSum
    <3> QED
      BY <3>1, HighBit
  <2>11. Field(y, j, 1) = Field(v, j - w, 1)
    <3>1. Field(y, j, 1) = (y \div d) % 2
      BY <1>6, <2>3, Zenon DEF d
    <3>2. Field(v, j - w, 1) = (v \div P) % 2
      BY <1>6, Zenon DEF P
    <3> QED
      BY <2>10, <3>1, <3>2, Zenon
  <2> QED
    BY <1>5, <1>8, <2>11, Zenon DEF y
<1> QED
  BY <1>7, <1>8

\* The bits of a sequence are those of its numbers.
LEMMA BitAt ==
    ASSUME NEW numbers, NEW w \in Widths, NEW m \in Nat, NEW i \in 0..(w - 1)
    PROVE  Bit(numbers, w, w * m + i) = Field(numbers[m + 1], w - 1 - i, 1)
<1>1. (w * m + i) \div w = m /\ (w * m + i) % w = i
  <2>1. CASE w = 5
    BY <2>1, SMT
  <2>2. CASE w = 8
    BY <2>2, SMT
  <2> QED
    BY <2>1, <2>2 DEF Widths
<1> QED
  BY <1>1, Zenon DEF Bit

\* Each bit is one of some number.
LEMMA BitPlace ==
    ASSUME NEW w \in Widths, NEW n \in Nat
    PROVE  \E m \in Nat : \E i \in 0..(w - 1) : n = w * m + i
<1>1. w \in Nat \ {0}
  BY DEF Widths
<1>2. n \div w \in Int /\ n % w \in 0..(w - 1) /\ n = w * (n \div w) + (n % w)
  BY <1>1, QuotientAndRest
<1>3. n \div w \in Nat
  <2> DEFINE q == n \div w
             r == n % w
  <2>1. q \in Int /\ r \in 0..(w - 1) /\ n = w * q + r
    BY <1>2
  <2> HIDE DEF q, r
  <2>2. q >= 0
    <3>1. CASE w = 5
      BY <2>1, <3>1
    <3>2. CASE w = 8
      BY <2>1, <3>2
    <3> QED
      BY <3>1, <3>2 DEF Widths
  <2>3. q \in Nat
    BY <2>1, <2>2
  <2> QED
    BY <2>3 DEF q
<1> QED
  BY <1>2, <1>3

\* A number has its bits only.
LEMMA SameBits ==
    ASSUME NEW x \in 0..255, NEW y \in 0..255, \A i \in 0..7 : Field(x, i, 1) = Field(y, i, 1)
    PROVE  x = y
<1>1. ASSUME NEW i \in 0..7
      PROVE  (x \div 2^i) % 2 = (y \div 2^i) % 2
  <2>1. \A z : Field(z, i, 1) = (z \div 2^i) % 2
    BY SmallPowers DEF Field
  <2> QED
    BY <2>1
<1>2. x \div 256 = y \div 256
  BY SMT
<1>3. x \div 128 = y \div 128
  <2>1. (x \div 128) % 2 = (y \div 128) % 2
    <3>1. 2^7 = 128 /\ 7 \in 0..7
      BY SMT
    <3>2. (x \div 2^7) % 2 = (y \div 2^7) % 2
      BY <1>1, <3>1, Zenon
    <3> QED
      BY <3>1, <3>2, SMT
  <2> QED
    BY <1>2, <2>1, SMT
<1>4. x \div 64 = y \div 64
  <2>1. (x \div 64) % 2 = (y \div 64) % 2
    <3>1. 2^6 = 64 /\ 6 \in 0..7
      BY SMT
    <3>2. (x \div 2^6) % 2 = (y \div 2^6) % 2
      BY <1>1, <3>1, Zenon
    <3> QED
      BY <3>1, <3>2, SMT
  <2> QED
    BY <1>3, <2>1, SMT
<1>5. x \div 32 = y \div 32
  <2>1. (x \div 32) % 2 = (y \div 32) % 2
    <3>1. 2^5 = 32 /\ 5 \in 0..7
      BY SMT
    <3>2. (x \div 2^5) % 2 = (y \div 2^5) % 2
      BY <1>1, <3>1, Zenon
    <3> QED
      BY <3>1, <3>2, SMT
  <2> QED
    BY <1>4, <2>1, SMT
<1>6. x \div 16 = y \div 16
  <2>1. (x \div 16) % 2 = (y \div 16) % 2
    <3>1. 2^4 = 16 /\ 4 \in 0..7
      BY SMT
    <3>2. (x \div 2^4) % 2 = (y \div 2^4) % 2
      BY <1>1, <3>1, Zenon
    <3> QED
      BY <3>1, <3>2, SMT
  <2> QED
    BY <1>5, <2>1, SMT
<1>7. x \div 8 = y \div 8
  <2>1. (x \div 8) % 2 = (y \div 8) % 2
    <3>1. 2^3 = 8 /\ 3 \in 0..7
      BY SMT
    <3>2. (x \div 2^3) % 2 = (y \div 2^3) % 2
      BY <1>1, <3>1, Zenon
    <3> QED
      BY <3>1, <3>2, SMT
  <2> QED
    BY <1>6, <2>1, SMT
<1>8. x \div 4 = y \div 4
  <2>1. (x \div 4) % 2 = (y \div 4) % 2
    <3>1. 2^2 = 4 /\ 2 \in 0..7
      BY SMT
    <3>2. (x \div 2^2) % 2 = (y \div 2^2) % 2
      BY <1>1, <3>1, Zenon
    <3> QED
      BY <3>1, <3>2, SMT
  <2> QED
    BY <1>7, <2>1, SMT
<1>9. x \div 2 = y \div 2
  <2>1. (x \div 2) % 2 = (y \div 2) % 2
    <3>1. 2^1 = 2 /\ 1 \in 0..7
      BY SMT
    <3>2. (x \div 2^1) % 2 = (y \div 2^1) % 2
      BY <1>1, <3>1, Zenon
    <3> QED
      BY <3>1, <3>2, SMT
  <2> QED
    BY <1>8, <2>1, SMT
<1>10. x \div 1 = y \div 1
  <2>1. (x \div 1) % 2 = (y \div 1) % 2
    <3>1. 2^0 = 1 /\ 0 \in 0..7
      BY SMT
    <3>2. (x \div 2^0) % 2 = (y \div 2^0) % 2
      BY <1>1, <3>1, Zenon
    <3> QED
      BY <3>1, <3>2, SMT
  <2> QED
    BY <1>9, <2>1, SMT
<1> QED
  BY <1>10, SMT

-----------------------------------------------------------------------------
(* Both conversions take numbers of w1 bits and put out numbers of w2. *)

\* After k numbers: what is put out and what is kept are their bits.
Packed(numbers, w1, w2, k, out, bits, value) ==
    /\ out \in Seq(0..(2^w2 - 1)) /\ bits \in 0..12 /\ value \in Int
    /\ w2 * Len(out) + bits = w1 * k
    /\ \A n \in 0..(w2 * Len(out) - 1) : Bit(out, w2, n) = Bit(numbers, w1, n)
    /\ \A j \in 0..(bits - 1) : Field(value, j, 1) = Bit(numbers, w1, w1 * k - 1 - j)

\* Both widths are small, and each is what the other leaves of thirteen.
LEMMA WidthsAre ==
    ASSUME NEW w \in Widths
    PROVE  w \in 5..8 /\ 13 - w \in Widths
BY DEF Widths

\* What it takes to be packed.
LEMMA IsPacked ==
    ASSUME NEW numbers, NEW w1, NEW w2, NEW k, NEW out, NEW bits, NEW value,
           out \in Seq(0..(2^w2 - 1)), bits \in 0..12, value \in Int,
           w2 * Len(out) + bits = w1 * k,
           \A n \in 0..(w2 * Len(out) - 1) : Bit(out, w2, n) = Bit(numbers, w1, n),
           \A j \in 0..(bits - 1) : Field(value, j, 1) = Bit(numbers, w1, w1 * k - 1 - j)
    PROVE  Packed(numbers, w1, w2, k, out, bits, value)
BY Zenon DEF Packed

\* A number more is read.
LEMMA ReadIn ==
    ASSUME NEW w1 \in Widths, NEW w2, w2 = 13 - w1,
           NEW numbers \in Seq(0..(2^w1 - 1)), NEW k \in 0..(Len(numbers) - 1),
           NEW out, NEW bits, NEW value,
           Packed(numbers, w1, w2, k, out, bits, value), bits < w2
    PROVE  Packed(numbers, w1, w2, k + 1, out, bits + w1, ShiftLeft(value, w1) + numbers[k + 1])
<1> DEFINE b == numbers[k + 1]
           v == ShiftLeft(value, w1) + b
<1>1. w1 \in 5..8 /\ w2 \in 5..8 /\ k \in Nat /\ Len(numbers) \in Nat
  BY WidthsAre
<1>2. b \in 0..(2^w1 - 1)
  <2>1. k + 1 \in 1..Len(numbers)
    BY <1>1
  <2> QED
    BY <2>1, ElementOfSeq
<1>3. /\ out \in Seq(0..(2^w2 - 1)) /\ bits \in 0..12 /\ value \in Int
      /\ w2 * Len(out) + bits = w1 * k
      /\ \A n \in 0..(w2 * Len(out) - 1) : Bit(out, w2, n) = Bit(numbers, w1, n)
  BY DEF Packed
<1>4. \A j \in 0..(bits - 1) : Field(value, j, 1) = Bit(numbers, w1, w1 * k - 1 - j)
  BY DEF Packed
<1>5. bits + w1 \in 0..12
  BY <1>1, <1>3
<1>6. v \in Int /\ \A j \in 0..11 :
          Field(v, j, 1) = IF j < w1 THEN Field(b, j, 1) ELSE Field(value, j - w1, 1)
  <2> HIDE DEF b
  <2>1. 0 \in 0..11
    OBVIOUS
  <2> QED
    BY <1>2, <1>3, <2>1, BitsShifted, Zenon
<1> HIDE DEF b, v
<1>7. w1 * (k + 1) = w1 * k + w1 /\ w1 * k \in Int
  BY <1>1
<1>8. w2 * Len(out) + (bits + w1) = w1 * (k + 1)
  <2>1. w2 * Len(out) \in Int
    BY <1>1, <1>3
  <2> DEFINE p == w2 * Len(out)
             q == w1 * k
  <2>2. p \in Int /\ q \in Int /\ p + bits = q /\ w1 * (k + 1) = q + w1
    BY <1>3, <1>7, <2>1
  <2> HIDE DEF p, q
  <2>3. p + (bits + w1) = w1 * (k + 1)
    BY <1>1, <1>3, <2>2
  <2> QED
    BY <2>3 DEF p
<1>9. ASSUME NEW j \in 0..((bits + w1) - 1)
      PROVE  Field(v, j, 1) = Bit(numbers, w1, w1 * (k + 1) - 1 - j)
  <2>0. j \in 0..11
    BY <1>1, <1>3
  <2>1. CASE j < w1
    <3>1. w1 * (k + 1) - 1 - j = w1 * k + (w1 - 1 - j)
      BY <1>1, <1>7
    <3>2. w1 - 1 - j \in 0..(w1 - 1) /\ w1 - 1 - (w1 - 1 - j) = j
      BY <1>1, <2>1
    <3>3. Bit(numbers, w1, w1 * k + (w1 - 1 - j)) = Field(b, j, 1)
      BY <1>1, <3>2, BitAt DEF b
    <3> QED
      BY <1>6, <2>0, <2>1, <3>1, <3>3
  <2>2. CASE ~ (j < w1)
    <3>1. j - w1 \in 0..(bits - 1)
      BY <1>1, <1>3, <2>2
    <3>2. w1 * k - 1 - (j - w1) = w1 * (k + 1) - 1 - j
      BY <1>1, <1>7
    <3>3. Field(value, j - w1, 1) = Bit(numbers, w1, w1 * k - 1 - (j - w1))
      BY <1>4, <3>1
    <3> QED
      BY <1>6, <2>0, <2>2, <3>2, <3>3, Zenon
  <2> QED
    BY <2>1, <2>2
<1> QED
  <2>1. Packed(numbers, w1, w2, k + 1, out, bits + w1, v)
    <3>1. v \in Int
      BY <1>6
    <3>2. \A j \in 0..((bits + w1) - 1) : Field(v, j, 1) = Bit(numbers, w1, w1 * (k + 1) - 1 - j)
      BY <1>9
    <3>4. out \in Seq(0..(2^w2 - 1))
      BY <1>3
    <3>5. bits + w1 \in 0..12
      BY <1>5
    <3>6. w2 * Len(out) + (bits + w1) = w1 * (k + 1)
      BY <1>8
    <3>7. \A n \in 0..(w2 * Len(out) - 1) : Bit(out, w2, n) = Bit(numbers, w1, n)
      BY <1>3
    <3> QED
      BY <3>1, <3>2, <3>4, <3>5, <3>6, <3>7, IsPacked
  <2> QED
    BY <2>1 DEF v, b

\* A number more is put out, when its bits are there.
LEMMA PutOut ==
    ASSUME NEW w1 \in Widths, NEW w2, w2 = 13 - w1,
           NEW numbers, NEW k \in Nat,
           NEW out, NEW bits, NEW value,
           Packed(numbers, w1, w2, k, out, bits, value), ~ (bits < w2)
    PROVE  Packed(numbers, w1, w2, k, Append(out, Field(value, bits - w2, w2)), bits - w2, value)
<1> DEFINE x == Field(value, bits - w2, w2)
           new == Append(out, x)
           m == Len(out)
<1>1. w1 \in 5..8 /\ w2 \in 5..8 /\ w2 \in Widths /\ w1 * k \in Int
  BY WidthsAre
<1>2. /\ out \in Seq(0..(2^w2 - 1)) /\ bits \in 0..12 /\ value \in Int
      /\ w2 * m + bits = w1 * k
      /\ \A n \in 0..(w2 * m - 1) : Bit(out, w2, n) = Bit(numbers, w1, n)
  BY DEF Packed
<1>3. \A j \in 0..(bits - 1) : Field(value, j, 1) = Bit(numbers, w1, w1 * k - 1 - j)
  BY DEF Packed
<1>4. bits - w2 \in 0..7 /\ (bits - w2) + w2 = bits
  BY <1>1, <1>2
<1>5. x \in 0..(2^w2 - 1)
  <2>1. w2 \in 1..8
    BY <1>1
  <2> QED
    BY <1>2, <1>4, <2>1, FieldSize
<1> HIDE DEF x
<1>6. new \in Seq(0..(2^w2 - 1)) /\ Len(new) = m + 1 /\ new[m + 1] = x
      /\ \A i \in 1..m : new[i] = out[i]
  <2> DEFINE S == 0..(2^w2 - 1)
  <2>1. out \in Seq(S) /\ x \in S
    BY <1>2, <1>5
  <2> HIDE DEF S
  <2>2. new \in Seq(S) /\ Len(new) = m + 1 /\ new[m + 1] = x /\ \A i \in 1..m : new[i] = out[i]
    BY <2>1
  <2> QED
    BY <2>2 DEF S
<1>7. m \in Nat
  BY <1>2
<1> HIDE DEF new, m
<1>8. w2 * (m + 1) = w2 * m + w2 /\ w2 * m \in Nat
  <2>1. w2 \in Nat
    BY <1>1
  <2> QED
    BY <1>7, <2>1
<1>9. w2 * Len(new) + (bits - w2) = w1 * k
  BY <1>1, <1>2, <1>4, <1>6, <1>8
<1>10. ASSUME NEW n \in 0..(w2 * Len(new) - 1)
       PROVE  Bit(new, w2, n) = Bit(numbers, w1, n)
  <2>1. PICK p \in Nat, i \in 0..(w2 - 1) : n = w2 * p + i
    <3>1. n \in Nat
      BY <1>1, <1>2, <1>4, <1>6, <1>8
    <3> QED
      BY <1>1, <3>1, BitPlace
  <2>2. Bit(new, w2, n) = Field(new[p + 1], w2 - 1 - i, 1)
    BY <1>1, <2>1, BitAt
  <2>3. p <= m
    <3>1. w2 * p + i <= w2 * m + w2 - 1
      BY <1>6, <1>8, <2>1, w2 * p + i \in Int
    <3> QED
      <4>1. CASE w2 = 5
        BY <1>7, <2>1, <3>1, <4>1
      <4>2. CASE w2 = 8
        BY <1>7, <2>1, <3>1, <4>2
      <4> QED
        BY <1>1, <4>1, <4>2 DEF Widths
  <2>4. CASE p < m
    <3>1. p + 1 \in 1..m
      BY <1>7, <2>1, <2>4
    <3>2. new[p + 1] = out[p + 1]
      BY <1>6, <3>1
    <3>3. Bit(out, w2, n) = Field(out[p + 1], w2 - 1 - i, 1)
      BY <1>1, <2>1, BitAt
    <3>4. n \in 0..(w2 * m - 1)
      <4>1. n <= w2 * m - 1
        <5>1. CASE w2 = 5
          BY <1>7, <2>1, <2>4, <5>1
        <5>2. CASE w2 = 8
          BY <1>7, <2>1, <2>4, <5>2
        <5> QED
          BY <1>1, <5>1, <5>2 DEF Widths
      <4> QED
        BY <1>8, <4>1
    <3>5. Bit(out, w2, n) = Bit(numbers, w1, n)
      BY <1>2, <3>4
    <3> QED
      BY <2>2, <3>2, <3>3, <3>5
  <2>5. CASE p = m
    <3>1. Bit(new, w2, n) = Field(x, w2 - 1 - i, 1)
      BY <1>6, <2>2, <2>5
    <3>2. Field(x, w2 - 1 - i, 1) = Field(value, (bits - w2) + (w2 - 1 - i), 1)
      <4>1. w2 \in 1..8 /\ (bits - w2) + w2 <= 12 /\ w2 - 1 - i \in 0..(w2 - 1)
        BY <1>1, <1>2, <1>4, <2>1
      <4> QED
        BY <1>2, <1>4, <4>1, FieldBit DEF x
    <3>3. (bits - w2) + (w2 - 1 - i) \in 0..(bits - 1)
      BY <1>1, <1>2, <1>4, <2>1
    <3>4. Field(value, (bits - w2) + (w2 - 1 - i), 1) =
              Bit(numbers, w1, w1 * k - 1 - ((bits - w2) + (w2 - 1 - i)))
      BY <1>3, <3>3
    <3>5. w1 * k - 1 - ((bits - w2) + (w2 - 1 - i)) = n
      <4>1. n = w2 * m + i
        BY <2>1, <2>5
      <4> QED
        BY <1>1, <1>2, <1>8, <2>1, <4>1
    <3> QED
      BY <3>1, <3>2, <3>4, <3>5
  <2> QED
    BY <1>7, <2>1, <2>3, <2>4, <2>5
<1>11. \A j \in 0..(bits - w2 - 1) : Field(value, j, 1) = Bit(numbers, w1, w1 * k - 1 - j)
  <2>1. \A j \in 0..(bits - w2 - 1) : j \in 0..(bits - 1)
    BY <1>1, <1>2
  <2> QED
    BY <1>3, <2>1
<1>12. bits - w2 \in 0..12
  BY <1>4
<1> QED
  BY <1>2, <1>6, <1>9, <1>10, <1>11, <1>12 DEF Packed, new, x

\* f is what a conversion of s has after each of the first k numbers.
Encodes(f, s, k) ==
    f = [n \in 0..k |-> IF n = 0 THEN Empty ELSE EncodeByte(f[n - 1], s[n])]
Decodes(f, s, k) ==
    f = [n \in 0..k |-> IF n = 0 THEN Empty ELSE DecodeLetter(f[n - 1], s[n])]

\* A byte after another, the encoder gets through all of them,
LEMMA EncodingExists ==
    ASSUME NEW s, NEW k \in Nat
    PROVE  \E f : Encodes(f, s, k)
<1> DEFINE T == {n \in Nat : \E f : Encodes(f, s, n)}
<1>1. 0 \in T
  <2>1. Encodes([n \in 0..0 |-> Empty], s, 0)
    BY DEF Encodes
  <2> QED
    BY <2>1
<1>2. ASSUME NEW n \in T
      PROVE  n + 1 \in T
  <2>1. n \in Nat
    OBVIOUS
  <2>2. PICK f : Encodes(f, s, n)
    OBVIOUS
  <2> DEFINE F == [i \in 0..(n + 1) |-> IF i = 0 THEN Empty ELSE EncodeByte(f[i - 1], s[i])]
  <2>3. \A i \in 0..n : F[i] = f[i]
    BY <2>1, <2>2 DEF Encodes
  <2>4. \A i \in 0..(n + 1) : i # 0 => F[i - 1] = f[i - 1]
    <3>1. \A i \in 0..(n + 1) : i # 0 => i - 1 \in 0..n
      BY <2>1
    <3> HIDE DEF F
    <3> QED
      BY <2>3, <3>1
  <2>5. Encodes(F, s, n + 1)
    BY <2>4, Zenon DEF Encodes
  <2> QED
    BY <2>1, <2>5
<1>3. T = Nat
  <2> HIDE DEF T
  <2>1. T \in SUBSET Nat
    BY DEF T
  <2> QED
    BY <1>1, <1>2, <2>1, AllNumbers
<1> QED
  BY <1>3

\* so Encoding is what it says.
LEMMA EncodingIs ==
    ASSUME NEW s, Len(s) \in Nat
    PROVE  /\ Encoding(s)[0] = Empty
           /\ \A n \in 1..Len(s) : Encoding(s)[n] = EncodeByte(Encoding(s)[n - 1], s[n])
<1>1. Encodes(Encoding(s), s, Len(s))
  <2> DEFINE C(f) == f = [n \in 0..Len(s) |-> IF n = 0 THEN Empty ELSE EncodeByte(f[n - 1], s[n])]
             g == CHOOSE f : C(f)
  <2>1. Encoding(s) = g
    BY DEF Encoding
  <2>2. \E f : C(f)
    BY EncodingExists DEF Encodes
  <2> HIDE DEF C
  <2>3. C(g)
    BY <2>2
  <2> QED
    BY <2>1, <2>3 DEF Encodes, C
<1>2. \A n \in 1..Len(s) : n \in 0..Len(s) /\ n # 0
  OBVIOUS
<1>3. 0 \in 0..Len(s)
  OBVIOUS
<1> QED
  BY <1>1, <1>2, <1>3, Zenon DEF Encodes

\* Putting out one number or two.
LEMMA LettersAppended ==
    ASSUME NEW S, NEW s \in Seq(S), NEW x \in S, NEW y \in S
    PROVE  /\ \A f : f = [n \in 1..1 |-> x] => s \o f = Append(s, x)
           /\ \A f : f = [n \in 1..2 |-> IF n = 1 THEN x ELSE y]
                      => s \o f = Append(Append(s, x), y)
<1>1. <<x>> = [n \in 1..1 |-> x]
  OBVIOUS
<1>2. <<x, y>> = [n \in 1..2 |-> IF n = 1 THEN x ELSE y]
  OBVIOUS
<1>3. s \o <<x>> = Append(s, x)
  OBVIOUS
<1>4. s \o <<x, y>> = Append(Append(s, x), y)
  OBVIOUS
<1> QED
  BY <1>1, <1>2, <1>3, <1>4

\* One letter or two.
LEMMA EncodeByteIs ==
    ASSUME NEW a, a.out \in Seq(0..(2^5 - 1)), a.bits \in 0..4, NEW byte, NEW v \in Int,
           v = ShiftLeft(a.value, 8) + byte
    PROVE  EncodeByte(a, byte) =
               IF a.bits + 8 < 10
               THEN [out |-> Append(a.out, Field(v, (a.bits + 8) - 5, 5)),
                     bits |-> (a.bits + 8) - 5, value |-> v]
               ELSE [out |-> Append(Append(a.out, Field(v, (a.bits + 8) - 5, 5)),
                                    Field(v, ((a.bits + 8) - 5) - 5, 5)),
                     bits |-> ((a.bits + 8) - 5) - 5, value |-> v]
<1> DEFINE bits == a.bits + 8
           n == bits \div 5
           S == 0..(2^5 - 1)
           x == Field(v, bits - 5, 5)
           y == Field(v, (bits - 5) - 5, 5)
           f == [i \in 1..n |-> Field(v, bits - 5 * i, 5)]
<1>1. bits \in 8..12 /\ n = IF bits < 10 THEN 1 ELSE 2
  BY SMT
<1>2. x \in S
  <2>1. bits - 5 \in 0..7 /\ 5 \in 1..8
    BY <1>1
  <2> QED
    BY <2>1, FieldSize
<1>3. EncodeByte(a, byte) = [out |-> a.out \o f, bits |-> bits - 5 * n, value |-> v]
  BY Zenon DEF EncodeByte
<1>4. CASE bits < 10
  <2>1. n = 1 /\ bits - 5 * n = bits - 5
    BY <1>1, <1>4
  <2>2. f = [i \in 1..1 |-> x]
    <3>1. \A i \in 1..1 : bits - 5 * i = bits - 5
      BY <1>1
    <3> HIDE DEF n, bits
    <3> QED
      BY <2>1, <3>1
  <2> HIDE DEF f, x, n, bits, S
  <2>3. a.out \in Seq(S)
    BY DEF S
  <2>4. a.out \o f = Append(a.out, x)
    BY <1>2, <2>2, <2>3, LettersAppended
  <2> QED
    BY <1>3, <1>4, <2>1, <2>4, Zenon DEF bits, x
<1>5. CASE ~ (bits < 10)
  <2>1. n = 2 /\ bits - 5 * n = (bits - 5) - 5
    BY <1>1, <1>5
  <2>2. f = [i \in 1..2 |-> IF i = 1 THEN x ELSE y]
    <3>1. \A i \in 1..2 : bits - 5 * i = IF i = 1 THEN bits - 5 ELSE (bits - 5) - 5
      BY <1>1
    <3>2. \A i \in 1..2 : Field(v, bits - 5 * i, 5) = IF i = 1 THEN x ELSE y
      <4> HIDE DEF n, bits
      <4> QED
        BY <3>1
    <3> HIDE DEF n, bits, x, y
    <3> QED
      BY <2>1, <3>2
  <2>3. y \in S
    <3>1. (bits - 5) - 5 \in 0..7 /\ 5 \in 1..8
      BY <1>1, <1>5
    <3> QED
      BY <3>1, FieldSize
  <2> HIDE DEF f, x, y, n, bits, S
  <2>4. a.out \in Seq(S)
    BY DEF S
  <2>5. a.out \o f = Append(Append(a.out, x), y)
    BY <1>2, <2>2, <2>3, <2>4, LettersAppended
  <2> QED
    BY <1>3, <1>5, <2>1, <2>5, Zenon DEF bits, x, y
<1> QED
  BY <1>4, <1>5

\* What a conversion has after k numbers holds their bits, and less than a number is left.
Holds(a, numbers, w1, w2, k) ==
    Packed(numbers, w1, w2, k, a.out, a.bits, a.value) /\ a.bits < w2

\* A conversion starts with nothing.
LEMMA EmptyHolds ==
    ASSUME NEW numbers, NEW w1 \in Widths, NEW w2 \in Widths
    PROVE  Holds(Empty, numbers, w1, w2, 0)
<1> DEFINE out == Empty.out
           bits == Empty.bits
           value == Empty.value
<1>1. out = <<>> /\ bits = 0 /\ value = 0
  BY DEF Empty
<1>2. out \in Seq(0..(2^w2 - 1)) /\ Len(out) = 0
  BY <1>1, EmptySeq
<1> HIDE DEF out, bits, value
<1>3. w1 \in 5..8 /\ w2 \in 5..8 /\ w2 * 0 = 0 /\ w1 * 0 = 0
  BY WidthsAre
<1>4. bits \in 0..12 /\ value \in Int /\ bits < w2
  BY <1>1, <1>3
<1>5. w2 * Len(out) + bits = w1 * 0
  BY <1>1, <1>2, <1>3
<1>6. w2 * Len(out) - 1 < 0 /\ bits - 1 < 0
  BY <1>1, <1>2, <1>3
<1>7. 0..(w2 * Len(out) - 1) = {} /\ 0..(bits - 1) = {}
  BY <1>1, <1>2, <1>3, <1>6
<1>8. Packed(numbers, w1, w2, 0, out, bits, value)
  BY <1>2, <1>4, <1>5, <1>7, IsPacked
<1> QED
  BY <1>4, <1>8, Zenon DEF Holds, out, bits, value

\* A byte more,
LEMMA EncodeHolds ==
    ASSUME NEW s \in Seq(0..(2^8 - 1)), NEW k \in 0..(Len(s) - 1), NEW a, Holds(a, s, 8, 5, k)
    PROVE  Holds(EncodeByte(a, s[k + 1]), s, 8, 5, k + 1)
<1> DEFINE b == s[k + 1]
           v == ShiftLeft(a.value, 8) + b
           bits == a.bits + 8
           w1 == 8
           w2 == 5
           out == a.out
           e == EncodeByte(a, b)
<1>1. w1 \in Widths /\ w2 = 13 - w1 /\ w2 = 5 /\ w1 = 8
  BY DEF Widths
<1>2. Packed(s, w1, w2, k, out, a.bits, a.value) /\ a.bits < w2
  BY DEF Holds
<1>3. Packed(s, w1, w2, k + 1, out, bits, v)
  BY <1>1, <1>2, ReadIn
<1>4. out \in Seq(0..(2^5 - 1)) /\ v \in Int /\ a.bits \in 0..4
  <2>1. out \in Seq(0..(2^w2 - 1)) /\ v \in Int
    BY <1>3, Zenon DEF Packed
  <2>2. a.bits \in 0..12
    BY <1>2, Zenon DEF Packed
  <2> QED
    BY <1>1, <1>2, <2>1, <2>2
<1>5. k + 1 \in Nat
  OBVIOUS
<1>6. e = IF bits < 10
          THEN [out |-> Append(out, Field(v, bits - w2, w2)), bits |-> bits - w2, value |-> v]
          ELSE [out |-> Append(Append(out, Field(v, bits - w2, w2)),
                               Field(v, (bits - w2) - w2, w2)),
                bits |-> (bits - w2) - w2, value |-> v]
  <2> HIDE DEF v
  <2> QED
    BY <1>4, EncodeByteIs, Zenon DEF v
<1>7. bits \in 8..12
  BY <1>4
<1> DEFINE out1 == Append(out, Field(v, bits - w2, w2))
           bits1 == bits - w2
<1> HIDE DEF w1, w2, out, v, bits, e
<1>8. Packed(s, w1, w2, k + 1, out1, bits1, v)
  <2>1. ~ (bits < w2)
    BY <1>1, <1>7
  <2> QED
    BY <1>1, <1>3, <1>5, <2>1, PutOut
<1> HIDE DEF bits1, out1
<1>9. Holds(e, s, w1, w2, k + 1)
  <2>1. CASE bits < 10
    <3>1. e.out = out1 /\ e.bits = bits1 /\ e.value = v
      BY <1>6, <2>1 DEF out1, bits1
    <3>2. bits1 < w2
      BY <1>1, <1>7, <2>1 DEF bits1
    <3> QED
      BY <1>8, <3>1, <3>2 DEF Holds
  <2>2. CASE ~ (bits < 10)
    <3> DEFINE out2 == Append(out1, Field(v, bits1 - w2, w2))
               bits2 == bits1 - w2
    <3>1. e.out = out2 /\ e.bits = bits2 /\ e.value = v
      BY <1>6, <2>2 DEF out1, bits1
    <3>2. ~ (bits1 < w2) /\ bits2 < w2
      BY <1>1, <1>7, <2>2 DEF bits1
    <3>3. Packed(s, w1, w2, k + 1, out2, bits2, v)
      BY <1>1, <1>5, <1>8, <3>2, PutOut
    <3> HIDE DEF out2, bits2
    <3> QED
      BY <3>1, <3>2, <3>3 DEF Holds
  <2> QED
    BY <2>1, <2>2
<1> QED
  BY <1>9 DEF e, w1, w2

\* and all of them.
LEMMA EncodingHolds ==
    ASSUME NEW s \in Seq(0..(2^8 - 1))
    PROVE  Holds(Encoding(s)[Len(s)], s, 8, 5, Len(s))
<1> DEFINE N == Len(s)
           T == {k \in Nat : k <= N => Holds(Encoding(s)[k], s, 8, 5, k)}
<1>1. N \in Nat
  OBVIOUS
<1>2. /\ Encoding(s)[0] = Empty
      /\ \A k \in 1..N : Encoding(s)[k] = EncodeByte(Encoding(s)[k - 1], s[k])
  BY <1>1, EncodingIs
<1> HIDE DEF N
<1>3. 0 \in T
  <2>1. Holds(Empty, s, 8, 5, 0)
    BY EmptyHolds DEF Widths
  <2> QED
    BY <1>2, <2>1
<1>4. ASSUME NEW k \in T
      PROVE  k + 1 \in T
  <2> SUFFICES ASSUME k + 1 <= N
               PROVE  Holds(Encoding(s)[k + 1], s, 8, 5, k + 1)
    OBVIOUS
  <2>1. k \in Nat /\ k \in 0..(N - 1) /\ k + 1 \in 1..N /\ (k + 1) - 1 = k
    BY <1>1
  <2>2. Holds(Encoding(s)[k], s, 8, 5, k)
    BY <1>1, <2>1
  <2>3. Holds(EncodeByte(Encoding(s)[k], s[k + 1]), s, 8, 5, k + 1)
    BY <2>1, <2>2, EncodeHolds DEF N
  <2>4. Encoding(s)[k + 1] = EncodeByte(Encoding(s)[k], s[k + 1])
    BY <1>2, <2>1, Zenon
  <2> QED
    BY <2>3, <2>4
<1>5. T = Nat
  <2> HIDE DEF T
  <2>1. T \in SUBSET Nat
    BY DEF T
  <2> QED
    BY <1>3, <1>4, <2>1, AllNumbers
<1> QED
  BY <1>1, <1>5 DEF N

\* The last letter has the bits that are left, and zeros.
LEMMA PaddedBit ==
    ASSUME NEW B \in 1..4, NEW u \in 0..(2^B - 1), NEW e \in 0..4
    PROVE  /\ u * 2^(5 - B) \in 0..31
           /\ Field(u * 2^(5 - B), e, 1) = IF e < 5 - B THEN 0 ELSE Field(u, e - (5 - B), 1)
<1>1. \A z : \A i \in 0..12 : Field(z, i, 1) = (z \div Two[i]) % 2
  <2> TAKE z
  <2> TAKE i \in 0..12
  <2>1. Field(z, i, 1) = (z \div 2^i) % 2
    BY SmallPowers DEF Field
  <2> QED
    BY <2>1, PowerIs
<1>2. 2^B = Two[B] /\ 2^(5 - B) = Two[5 - B]
  <2>1. B \in 0..12 /\ 5 - B \in 0..12
    OBVIOUS
  <2> QED
    BY <2>1, PowerIs
<1>3. u \in 0..(Two[B] - 1)
  BY <1>2
<1> DEFINE x == u * Two[5 - B]
<1>4. x \in 0..31
  <2>1. CASE B = 1
    BY <1>3, <2>1 DEF Two
  <2>2. CASE B = 2
    BY <1>3, <2>2 DEF Two
  <2>3. CASE B = 3
    BY <1>3, <2>3 DEF Two
  <2>4. CASE B = 4
    BY <1>3, <2>4 DEF Two
  <2> QED
    BY <2>1, <2>2, <2>3, <2>4
<1>5. CASE e < 5 - B
  <2>1. (x \div Two[e]) % 2 = 0
    <3>1. CASE B = 1
      BY <1>3, <1>5, <3>1 DEF Two
    <3>2. CASE B = 2
      BY <1>3, <1>5, <3>2 DEF Two
    <3>3. CASE B = 3
      BY <1>3, <1>5, <3>3 DEF Two
    <3>4. CASE B = 4
      BY <1>3, <1>5, <3>4 DEF Two
    <3> QED
      BY <3>1, <3>2, <3>3, <3>4
  <2>2. Field(x, e, 1) = 0
    <3>1. e \in 0..12
      OBVIOUS
    <3> QED
      BY <1>1, <2>1, <3>1
  <2> QED
    BY <1>2, <1>4, <1>5, <2>2
<1>6. CASE ~ (e < 5 - B)
  <2>1. (x \div Two[e]) % 2 = (u \div Two[e - (5 - B)]) % 2
    <3>1. CASE B = 1
      BY <1>3, <1>6, <3>1 DEF Two
    <3>2. CASE B = 2
      BY <1>3, <1>6, <3>2 DEF Two
    <3>3. CASE B = 3
      BY <1>3, <1>6, <3>3 DEF Two
    <3>4. CASE B = 4
      BY <1>3, <1>6, <3>4 DEF Two
    <3> QED
      BY <3>1, <3>2, <3>3, <3>4
  <2>2. e \in 0..12 /\ e - (5 - B) \in 0..12
    BY <1>6
  <2>3. Field(x, e, 1) = Field(u, e - (5 - B), 1)
    BY <1>1, <2>1, <2>2
  <2> QED
    BY <1>2, <1>4, <1>6, <2>3
<1> QED
  BY <1>5, <1>6

\* The letters hold the bits of the bytes, then zeros.
LettersHold(L, s) ==
    /\ L \in Seq(0..31) /\ Len(L) = (8 * Len(s) + 4) \div 5
    /\ \A n \in 0..(5 * Len(L) - 1) :
           Bit(L, 5, n) = IF n < 8 * Len(s) THEN Bit(s, 8, n) ELSE 0

\* The encoder keeps the bits of the secret in their order.
LEMMA EncodedLetters ==
    ASSUME NEW s \in Seq(0..255)
    PROVE  LettersHold(Base32Encode(s), s)
<1> DEFINE N == Len(s)
           a == Encoding(s)[N]
           out == a.out
           B == a.bits
           v == a.value
           m == Len(out)
           L == Base32Encode(s)
<1>0. N \in Nat
  OBVIOUS
<1>1. Holds(a, s, 8, 5, N)
  <2>1. 2^8 - 1 = 255
    BY SmallPowers
  <2>2. s \in Seq(0..(2^8 - 1))
    BY <2>1
  <2> QED
    BY <2>2, EncodingHolds
<1>2. L = IF B = 0 THEN out ELSE Append(out, Field(v, 0, B) * 2^(5 - B))
  BY DEF Base32Encode
<1> HIDE DEF a, L, N
<1>3. /\ out \in Seq(0..(2^5 - 1)) /\ B \in 0..12 /\ v \in Int
      /\ 5 * Len(out) + B = 8 * N
      /\ \A n \in 0..(5 * Len(out) - 1) : Bit(out, 5, n) = Bit(s, 8, n)
  BY <1>1, Zenon DEF Holds, Packed
<1>4. \A j \in 0..(B - 1) : Field(v, j, 1) = Bit(s, 8, 8 * N - 1 - j)
  BY <1>1, Zenon DEF Holds, Packed
<1>5. B \in 0..4
  BY <1>1, <1>3 DEF Holds
<1>6. out \in Seq(0..31) /\ m \in Nat
  <2>1. 2^5 - 1 = 31
    BY SmallPowers
  <2> QED
    BY <1>3, <2>1
<1> HIDE DEF out, B, v
<1>7. CASE B = 0
  <2>1. L = out
    BY <1>2, <1>7
  <2>2. m = (8 * N + 4) \div 5 /\ 5 * m = 8 * N
    BY <1>0, <1>3, <1>6, <1>7
  <2>3. \A n \in 0..(5 * m - 1) : n < 8 * N
    BY <1>0, <2>2
  <2> QED
    BY <1>3, <1>6, <2>1, <2>2, <2>3 DEF LettersHold, L, N
<1>8. CASE B # 0
  <2> DEFINE u == Field(v, 0, B)
             x == u * 2^(5 - B)
  <2>1. B \in 1..4
    BY <1>5, <1>8
  <2>2. u \in 0..(2^B - 1)
    <3>1. 0 \in 0..7 /\ B \in 1..8
      BY <2>1
    <3> QED
      BY <1>3, <3>1, FieldSize
  <2>3. x \in 0..31 /\ \A e \in 0..4 :
            Field(x, e, 1) = IF e < 5 - B THEN 0 ELSE Field(u, e - (5 - B), 1)
    <3>1. 0 \in 0..4
      OBVIOUS
    <3> HIDE DEF u
    <3> QED
      BY <2>1, <2>2, <3>1, PaddedBit
  <2>4. \A i \in 0..(B - 1) : Field(u, i, 1) = Field(v, i, 1)
    <3> TAKE i \in 0..(B - 1)
    <3>1. 0 \in 0..7 /\ B \in 1..8 /\ 0 + B <= 12 /\ 0 + i = i
      BY <2>1
    <3>2. Field(Field(v, 0, B), i, 1) = Field(v, 0 + i, 1)
      BY <1>3, <3>1, FieldBit
    <3> QED
      BY <3>1, <3>2
  <2>5. L = Append(out, x)
    BY <1>2, <1>8
  <2> HIDE DEF u, x
  <2>6. L \in Seq(0..31) /\ Len(L) = m + 1 /\ L[m + 1] = x /\ \A i \in 1..m : L[i] = out[i]
    BY <1>6, <2>3, <2>5
  <2> HIDE DEF m
  <2>7. Len(L) = (8 * N + 4) \div 5 /\ 5 * m + B = 8 * N
    BY <1>0, <1>3, <1>6, <2>1, <2>6 DEF m
  <2>8. ASSUME NEW n \in 0..(5 * Len(L) - 1)
        PROVE  Bit(L, 5, n) = IF n < 8 * N THEN Bit(s, 8, n) ELSE 0
    <3>1. n \in Nat /\ 5 \in Widths
      BY <1>6, <2>6 DEF Widths
    <3>2. PICK p \in Nat, i \in 0..(5 - 1) : n = 5 * p + i
      BY <3>1, BitPlace
    <3>3. Bit(L, 5, n) = Field(L[p + 1], 5 - 1 - i, 1)
      BY <3>1, <3>2, BitAt
    <3>4. p <= m
      BY <1>6, <2>6, <3>2
    <3>5. CASE p < m
      <4>1. p + 1 \in 1..m /\ n \in 0..(5 * m - 1) /\ n < 8 * N
        BY <1>0, <1>6, <2>1, <2>7, <3>1, <3>2, <3>5
      <4>2. Bit(out, 5, n) = Field(out[p + 1], 5 - 1 - i, 1)
        BY <3>1, <3>2, BitAt
      <4>3. L[p + 1] = out[p + 1]
        BY <2>6, <4>1
      <4>4. Bit(out, 5, n) = Bit(s, 8, n)
        BY <1>3, <4>1 DEF m
      <4> QED
        BY <3>3, <4>1, <4>2, <4>3, <4>4
    <3>6. CASE p = m
      <4> DEFINE e == 5 - 1 - i
      <4>1. e \in 0..4 /\ Bit(L, 5, n) = Field(x, e, 1)
        BY <2>6, <3>2, <3>3, <3>6
      <4>2. CASE n < 8 * N
        <5>1. ~ (e < 5 - B) /\ e - (5 - B) \in 0..(B - 1) /\ 8 * N - 1 - (e - (5 - B)) = n
          BY <1>0, <1>6, <2>1, <2>7, <3>2, <3>6, <4>2
        <5> HIDE DEF e
        <5>2. Field(x, e, 1) = Field(v, e - (5 - B), 1)
          BY <2>3, <2>4, <4>1, <5>1
        <5>3. Field(v, e - (5 - B), 1) = Bit(s, 8, n)
          BY <1>4, <5>1
        <5> QED
          BY <4>1, <4>2, <5>2, <5>3
      <4>3. CASE ~ (n < 8 * N)
        <5>1. e < 5 - B
          BY <1>0, <1>6, <2>1, <2>7, <3>2, <3>6, <4>3
        <5> HIDE DEF e
        <5> QED
          BY <2>3, <4>1, <4>3, <5>1
      <4> QED
        BY <4>2, <4>3
    <3> QED
      BY <1>6, <3>2, <3>4, <3>5, <3>6
  <2> QED
    BY <2>6, <2>7, <2>8 DEF LettersHold, L, N
<1> QED
  BY <1>7, <1>8

\* The same of the decoder.
LEMMA DecodingExists ==
    ASSUME NEW s, NEW k \in Nat
    PROVE  \E f : Decodes(f, s, k)
<1> DEFINE T == {n \in Nat : \E f : Decodes(f, s, n)}
<1>1. 0 \in T
  <2>1. Decodes([n \in 0..0 |-> Empty], s, 0)
    BY DEF Decodes
  <2> QED
    BY <2>1
<1>2. ASSUME NEW n \in T
      PROVE  n + 1 \in T
  <2>1. n \in Nat
    OBVIOUS
  <2>2. PICK f : Decodes(f, s, n)
    OBVIOUS
  <2> DEFINE F == [i \in 0..(n + 1) |-> IF i = 0 THEN Empty ELSE DecodeLetter(f[i - 1], s[i])]
  <2>3. \A i \in 0..n : F[i] = f[i]
    BY <2>1, <2>2 DEF Decodes
  <2>4. \A i \in 0..(n + 1) : i # 0 => F[i - 1] = f[i - 1]
    <3>1. \A i \in 0..(n + 1) : i # 0 => i - 1 \in 0..n
      BY <2>1
    <3> HIDE DEF F
    <3> QED
      BY <2>3, <3>1
  <2>5. Decodes(F, s, n + 1)
    BY <2>4, Zenon DEF Decodes
  <2> QED
    BY <2>1, <2>5
<1>3. T = Nat
  <2> HIDE DEF T
  <2>1. T \in SUBSET Nat
    BY DEF T
  <2> QED
    BY <1>1, <1>2, <2>1, AllNumbers
<1> QED
  BY <1>3

\* The same of the decoder.
LEMMA DecodingIs ==
    ASSUME NEW s, Len(s) \in Nat
    PROVE  /\ Decoding(s)[0] = Empty
           /\ \A n \in 1..Len(s) : Decoding(s)[n] = DecodeLetter(Decoding(s)[n - 1], s[n])
<1>1. Decodes(Decoding(s), s, Len(s))
  <2> DEFINE C(f) == f = [n \in 0..Len(s) |-> IF n = 0 THEN Empty ELSE DecodeLetter(f[n - 1], s[n])]
             g == CHOOSE f : C(f)
  <2>1. Decoding(s) = g
    BY DEF Decoding
  <2>2. \E f : C(f)
    BY DecodingExists DEF Decodes
  <2> HIDE DEF C
  <2>3. C(g)
    BY <2>2
  <2> QED
    BY <2>1, <2>3 DEF Decodes, C
<1>2. \A n \in 1..Len(s) : n \in 0..Len(s) /\ n # 0
  OBVIOUS
<1>3. 0 \in 0..Len(s)
  OBVIOUS
<1> QED
  BY <1>1, <1>2, <1>3, Zenon DEF Decodes

\* The decoder has its three fields, and holds what it has read.
DecoderHolds(a, numbers, k) ==
    Holds(a, numbers, 5, 8, k) /\ a = [out |-> a.out, bits |-> a.bits, value |-> a.value]

\* A letter more,
LEMMA DecodeHolds ==
    ASSUME NEW s \in Seq(0..(2^5 - 1)), NEW k \in 0..(Len(s) - 1), NEW a, DecoderHolds(a, s, k)
    PROVE  DecoderHolds(DecodeLetter(a, s[k + 1]), s, k + 1)
<1> DEFINE b == s[k + 1]
           v == ShiftLeft(a.value, 5) + b
           bits == a.bits + 5
           w1 == 5
           w2 == 8
           out == a.out
           d == DecodeLetter(a, b)
<1>1. w1 \in Widths /\ w2 = 13 - w1 /\ w2 = 8 /\ w1 = 5
  BY DEF Widths
<1>2. Packed(s, w1, w2, k, out, a.bits, a.value) /\ a.bits < w2
  BY DEF Holds, DecoderHolds
<1>3. Packed(s, w1, w2, k + 1, out, bits, v)
  BY <1>1, <1>2, ReadIn
<1>4. b \in Letters /\ a.bits \in 0..7
  <2>1. b \in Letters
    <3>1. k + 1 \in 1..Len(s)
      OBVIOUS
    <3>2. b \in 0..(2^5 - 1)
      BY <3>1, ElementOfSeq
    <3>3. 2^5 - 1 = 31
      BY SmallPowers
    <3> QED
      BY <3>2, <3>3, Zenon DEF Letters
  <2>2. a.bits \in 0..12
    BY <1>2, Zenon DEF Packed
  <2>3. a.bits < 8
    BY <1>1, <1>2
  <2>4. a.bits \in 0..7
    BY <2>2, <2>3
  <2> QED
    BY <2>1, <2>4, Zenon
<1>5. k + 1 \in Nat
  OBVIOUS
<1>6. d = IF bits < w2 THEN [a EXCEPT !.bits = bits, !.value = v]
          ELSE [out |-> Append(out, Field(v, bits - w2, w2)), bits |-> bits - w2, value |-> v]
  BY <1>4, Zenon DEF DecodeLetter
<1>7. a = [out |-> a.out, bits |-> a.bits, value |-> a.value]
  BY DEF DecoderHolds
<1> HIDE DEF w1, w2, v, bits, d, b
<1>8. CASE bits < w2
  <2>1. d = [out |-> out, bits |-> bits, value |-> v]
    BY <1>6, <1>7, <1>8
  <2>2. d.out = out /\ d.bits = bits /\ d.value = v
    BY <2>1
  <2>3. Holds(d, s, w1, w2, k + 1)
    BY <1>3, <1>8, <2>2 DEF Holds
  <2> QED
    BY <2>1, <2>2, <2>3 DEF DecoderHolds, d, b, w1, w2
<1>9. CASE ~ (bits < w2)
  <2> DEFINE more == Append(out, Field(v, bits - w2, w2))
  <2>1. d = [out |-> more, bits |-> bits - w2, value |-> v]
    BY <1>6, <1>9
  <2>2. d.out = more /\ d.bits = bits - w2 /\ d.value = v
    BY <2>1
  <2>3. Packed(s, w1, w2, k + 1, more, bits - w2, v)
    BY <1>1, <1>3, <1>5, <1>9, PutOut
  <2>4. bits - w2 < w2
    BY <1>1, <1>4 DEF bits
  <2> HIDE DEF more
  <2>5. Holds(d, s, w1, w2, k + 1)
    BY <2>2, <2>3, <2>4 DEF Holds
  <2> QED
    BY <2>1, <2>2, <2>5 DEF DecoderHolds, d, b, w1, w2
<1> QED
  BY <1>8, <1>9

\* and all of them.
LEMMA DecodingHolds ==
    ASSUME NEW s \in Seq(0..(2^5 - 1))
    PROVE  Holds(Decoding(s)[Len(s)], s, 5, 8, Len(s))
<1> DEFINE N == Len(s)
           T == {k \in Nat : k <= N => DecoderHolds(Decoding(s)[k], s, k)}
<1>1. N \in Nat
  OBVIOUS
<1>2. /\ Decoding(s)[0] = Empty
      /\ \A k \in 1..N : Decoding(s)[k] = DecodeLetter(Decoding(s)[k - 1], s[k])
  BY <1>1, DecodingIs
<1> HIDE DEF N
<1>3. 0 \in T
  <2>1. Holds(Empty, s, 5, 8, 0)
    BY EmptyHolds DEF Widths
  <2>2. Empty = [out |-> Empty.out, bits |-> Empty.bits, value |-> Empty.value]
    BY DEF Empty
  <2>3. DecoderHolds(Empty, s, 0)
    BY <2>1, <2>2, Zenon DEF DecoderHolds
  <2> QED
    BY <1>2, <2>3
<1>4. ASSUME NEW k \in T
      PROVE  k + 1 \in T
  <2> SUFFICES ASSUME k + 1 <= N
               PROVE  DecoderHolds(Decoding(s)[k + 1], s, k + 1)
    OBVIOUS
  <2>1. k \in Nat /\ k \in 0..(N - 1) /\ k + 1 \in 1..N /\ (k + 1) - 1 = k
    BY <1>1
  <2>2. DecoderHolds(Decoding(s)[k], s, k)
    BY <1>1, <2>1
  <2>3. DecoderHolds(DecodeLetter(Decoding(s)[k], s[k + 1]), s, k + 1)
    BY <2>1, <2>2, DecodeHolds DEF N
  <2>4. Decoding(s)[k + 1] = DecodeLetter(Decoding(s)[k], s[k + 1])
    BY <1>2, <2>1, Zenon
  <2> QED
    BY <2>3, <2>4
<1>5. T = Nat
  <2> HIDE DEF T
  <2>1. T \in SUBSET Nat
    BY DEF T
  <2> QED
    BY <1>3, <1>4, <2>1, AllNumbers
<1>6. DecoderHolds(Decoding(s)[N], s, N)
  <2>1. N \in T /\ N <= N
    BY <1>1, <1>5
  <2> QED
    BY <2>1
<1> QED
  BY <1>6, Zenon DEF N, DecoderHolds

\* What was encoded comes back.
LEMMA DecodedBytes ==
    ASSUME NEW s \in Seq(0..255), NEW L, LettersHold(L, s)
    PROVE  Base32Decode(L) = s
<1> DEFINE N == Len(s)
           M == Len(L)
           a == Decoding(L)[M]
           out == a.out
           B == a.bits
           v == a.value
           m == Len(out)
<1>1. N \in Nat /\ M \in Nat /\ L \in Seq(0..31) /\ M = (8 * N + 4) \div 5
  BY DEF LettersHold
<1>2. \A n \in 0..(5 * M - 1) : Bit(L, 5, n) = IF n < 8 * N THEN Bit(s, 8, n) ELSE 0
  BY DEF LettersHold
<1>3. Holds(a, L, 5, 8, M)
  <2>1. 2^5 - 1 = 31
    BY SmallPowers
  <2>2. L \in Seq(0..(2^5 - 1))
    BY <1>1, <2>1
  <2> QED
    BY <2>2, DecodingHolds
<1>4. Base32Decode(L) = out
  BY DEF Base32Decode
<1> HIDE DEF a, N, M
<1>5. /\ out \in Seq(0..(2^8 - 1)) /\ B \in 0..12 /\ B < 8
      /\ 8 * Len(out) + B = 5 * M
      /\ \A n \in 0..(8 * Len(out) - 1) : Bit(out, 8, n) = Bit(L, 5, n)
  BY <1>3, Zenon DEF Holds, Packed
<1>6. out \in Seq(0..255) /\ m \in Nat
  <2>1. 2^8 - 1 = 255
    BY SmallPowers
  <2> QED
    BY <1>5, <2>1
<1> HIDE DEF out, B
<1>7. m = N
  <2> DEFINE q == (8 * N + 4) \div 5
  <2>1. q \in Int /\ 5 * q <= 8 * N + 4 /\ 8 * N + 4 < 5 * q + 5
    <3>1. 8 * N + 4 \in Nat
      BY <1>1
    <3> QED
      BY <3>1
  <2> HIDE DEF q
  <2>2. M = q
    BY <1>1 DEF q
  <2> QED
    BY <1>1, <1>5, <1>6, <2>1, <2>2
<1>8. ASSUME NEW i \in 1..N
      PROVE  out[i] = s[i]
  <2>1. out[i] \in 0..255 /\ s[i] \in 0..255
    <3>1. i \in 1..Len(out) /\ i \in 1..Len(s)
      BY <1>7 DEF N
    <3> QED
      BY <1>6, <3>1, ElementOfSeq
  <2>2. ASSUME NEW e \in 0..7
        PROVE  Field(out[i], e, 1) = Field(s[i], e, 1)
    <3> DEFINE p == i - 1
               r == 7 - e
               n == 8 * p + r
    <3>1. p \in Nat /\ r \in 0..(8 - 1) /\ 8 \in Widths /\ p + 1 = i /\ 8 - 1 - r = e
      BY <1>1 DEF Widths
    <3>2. Bit(out, 8, n) = Field(out[i], e, 1) /\ Bit(s, 8, n) = Field(s[i], e, 1)
      <4> HIDE DEF p, r
      <4> QED
        BY <3>1, BitAt
    <3>3. n \in 0..(8 * Len(out) - 1) /\ n \in 0..(5 * M - 1) /\ n < 8 * N
      BY <1>1, <1>5, <1>7
    <3> HIDE DEF n
    <3> QED
      BY <1>2, <1>5, <3>2, <3>3
  <2> QED
    BY <2>1, <2>2, SameBits, Zenon
<1> QED
  BY <1>4, <1>6, <1>7, <1>8, SeqEqual DEF N

\* Characters that are no letters change nothing.
LEMMA PassedOver ==
    ASSUME NEW L \in Seq(0..31)
    PROVE  Base32Decode(<<-1>> \o L \o <<-1>>) = Base32Decode(L)
<1> DEFINE M == Len(L)
           K == <<-1>> \o L \o <<-1>>
           T == {n \in Nat : n <= M => Decoding(K)[n + 1] = Decoding(L)[n]}
<1>1. M \in Nat /\ Len(K) = M + 2 /\ K[1] = -1 /\ K[M + 2] = -1
      /\ \A n \in 1..M : K[n + 1] = L[n]
  OBVIOUS
<1>2. -1 \notin Letters
  BY DEF Letters
<1> HIDE DEF K, M
<1>3. /\ Decoding(L)[0] = Empty
      /\ \A n \in 1..M : Decoding(L)[n] = DecodeLetter(Decoding(L)[n - 1], L[n])
  BY <1>1, DecodingIs DEF M
<1>4. /\ Decoding(K)[0] = Empty
      /\ \A n \in 1..(M + 2) : Decoding(K)[n] = DecodeLetter(Decoding(K)[n - 1], K[n])
  BY <1>1, DecodingIs
<1>5. \A a : DecodeLetter(a, -1) = a
  BY <1>2 DEF DecodeLetter
<1>6. 0 \in T
  <2>1. 1 \in 1..(M + 2) /\ 1 - 1 = 0 /\ 0 + 1 = 1
    BY <1>1
  <2>2. Decoding(K)[1] = DecodeLetter(Decoding(K)[0], -1)
    BY <1>1, <1>4, <2>1
  <2> QED
    BY <1>3, <1>4, <1>5, <2>1, <2>2
<1>7. ASSUME NEW n \in T
      PROVE  n + 1 \in T
  <2> SUFFICES ASSUME n + 1 <= M
               PROVE  Decoding(K)[(n + 1) + 1] = Decoding(L)[n + 1]
    OBVIOUS
  <2>1. n \in Nat /\ n + 1 \in 1..M /\ (n + 1) + 1 \in 1..(M + 2) /\ ((n + 1) + 1) - 1 = n + 1
        /\ (n + 1) - 1 = n /\ n <= M
    BY <1>1
  <2>2. Decoding(K)[n + 1] = Decoding(L)[n]
    BY <2>1
  <2>3. Decoding(K)[(n + 1) + 1] = DecodeLetter(Decoding(K)[n + 1], K[(n + 1) + 1])
    BY <1>4, <2>1, Zenon
  <2>4. Decoding(L)[n + 1] = DecodeLetter(Decoding(L)[n], L[n + 1])
    BY <1>3, <2>1, Zenon
  <2>5. K[(n + 1) + 1] = L[n + 1]
    BY <1>1, <2>1, Zenon
  <2> QED
    BY <2>2, <2>3, <2>4, <2>5, Zenon
<1>8. T = Nat
  <2> HIDE DEF T
  <2>1. T \in SUBSET Nat
    BY DEF T
  <2> QED
    BY <1>6, <1>7, <2>1, AllNumbers
<1>9. Decoding(K)[M + 1] = Decoding(L)[M]
  BY <1>1, <1>8
<1>10. Decoding(K)[M + 2] = Decoding(K)[M + 1]
  <2>1. M + 2 \in 1..(M + 2) /\ (M + 2) - 1 = M + 1
    BY <1>1
  <2> QED
    BY <1>1, <1>4, <1>5, <2>1
<1>11. Decoding(K)[Len(K)] = Decoding(L)[Len(L)]
  BY <1>1, <1>9, <1>10 DEF M
<1> QED
  BY <1>11 DEF Base32Decode, K

\* The letters hold the bits of the secret, and the server decodes the secret
\* from them, padded or not, for every secret however long (base32Encode,
\* base32Decode): the accumulator never loses a bit that is still to be put out.
THEOREM SecretsSurvive == TotpSpec => []SecretSurvives
<1>1. TotpTypeOK => SecretSurvives
  <2> SUFFICES ASSUME TotpTypeOK
               PROVE  SecretSurvives
    OBVIOUS
  <2> DEFINE L == Base32Encode(secret)
  <2>1. secret \in Seq(0..255)
    <3> DEFINE B == 0..255
    <3>1. secret \in Seq(Bytes)
      BY DEF TotpTypeOK
    <3>2. Bytes \subseteq B
      BY TotpAssumption
    <3> HIDE DEF B
    <3>3. secret \in Seq(B)
      BY <3>1, <3>2, SeqMonotonic
    <3> QED
      BY <3>3 DEF B
  <2>2. LettersHold(L, secret)
    BY <2>1, EncodedLetters
  <2>3. Base32Decode(L) = secret
    BY <2>1, <2>2, DecodedBytes
  <2>4. Base32Decode(<<-1>> \o L \o <<-1>>) = secret
    BY <2>2, <2>3, PassedOver DEF LettersHold
  <2> QED
    BY <2>2, <2>3, <2>4, Zenon DEF SecretSurvives, LettersHold
<1> QED
  BY <1>1, TotpTypes, PTL

-----------------------------------------------------------------------------
(***************************************************************************)
(* The three together                                                      *)
(***************************************************************************)


\* The modules share no variable: a behaviour of MCAccounts is one of each of
\* them, and what is proved of each holds of the whole.
THEOREM AccountsTogether == Spec => AuthSpec /\ OnboardingSpec /\ TotpSpec
<1>1. Init => AuthInit /\ OnboardingInit /\ TotpInit
  BY DEF Init
<1>2. [Next]_<<authVars, onboardingVars, totpVars, focus>> =>
          [AuthNext]_authVars /\ [OnboardingNext]_onboardingVars /\ [TotpNext]_totpVars
  BY DEF Next
<1> QED
  BY <1>1, <1>2, PTL DEF Spec, AuthSpec, OnboardingSpec, TotpSpec

\* Every variable of accounts, applications and codes keeps its type.
THEOREM AccountsTypes == Spec => []TypeOK
<1>1. AuthTypeOK /\ OnboardingTypeOK /\ TotpTypeOK => TypeOK
  BY DEF TypeOK
<1> QED
  BY <1>1, AccountsTogether, AuthTypes, OnboardingTypes, TotpTypes, PTL
================================================================================
