\* One account, two requests at once; two persons, two applications, two desks; secrets
\* of up to six bytes.
SPECIFICATION Spec
CONSTANTS
    Users = {u1}
    Passwords = {p1, p2}
    Clients = {c1, c2}
    MaxAttempts = 2
    MaxResets = 1
    MaxFailures = 2
    MaxCodes = 2
    NoRow = NoRow
    NoPassword = NoPassword
    Persons = {v1, v2}
    Emails = {e1, e2}
    Applications = {a1, a2}
    Desks = {d1, d2}
    MaxEdits = 1
    NoUser = NoUser
    NoApplication = NoApplication
    Deleted = Deleted
    Bytes = {1, 129, 170, 255}
    MaxLength = 6
    StepSeconds = 2
    MaxClock = 7
    Window = 1
    NoCode = NoCode
SYMMETRY Symmetry
INVARIANTS TypeOK ErasedHasNoCredentials LockIsEarned ResetsAreSpent
           InstructorsAreWhole SecretSurvives CodesAreTimely
CHECK_DEADLOCK FALSE
