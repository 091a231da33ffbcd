----------------------------- MODULE Onboarding -----------------------------
(***************************************************************************)
(* Who becomes an instructor: applications and their review                *)
(* (src/modules/applications/applications.service.ts), and the edits of    *)
(* users by administrators (modules/admin, modules/users).                 *)
(*                                                                         *)
(* A review reads the application, promotes or creates the account in one  *)
(* query and marks the application in another.                             *)
(***************************************************************************)
EXTENDS Naturals, FiniteSets

CONSTANTS
    Persons,        \* rows of User that can be created (a bound)
    Emails,
    Applications,   \* rows of InstructorApplication (a bound)
    Desks,          \* requests in flight at once (a bound)
    MaxEdits,       \* edits by administrators and crashes (a bound)
    NoUser, NoApplication, Deleted

ASSUME OnboardingAssumption ==
    /\ MaxEdits \in Nat
    /\ Deleted \notin Emails
    /\ NoUser \notin Persons

VARIABLES
    user,           \* User with its InstructorProfile
    application,    \* InstructorApplication
    desk,           \* the request each desk is executing
    edits           \* edits so far

onboardingVars == <<user, application, desk, edits>>

-----------------------------------------------------------------------------
Roles == {"STUDENT", "INSTRUCTOR", "ADMIN"}
UserRows == [email : Emails \cup {Deleted}, role : Roles, profile : BOOLEAN,
             active : BOOLEAN]

\* user is null until an admin approves a public application, email is null
\* on the application of an existing account.
ApplicationRows ==
    [user : Persons \cup {NoUser}, email : Emails \cup {Deleted},
     status : {"pending", "approved", "rejected"}]

ASSUME OnboardingRowsAssumption ==
    NoUser \notin UserRows /\ NoApplication \notin ApplicationRows

Free == [at |-> "free"]

DeskJobs ==
    {Free}
    \cup [at : {"apply"}, email : Emails]
    \cup [at : {"submit"}, user : Persons, found : BOOLEAN]
    \cup [at : {"promote"}, application : Applications, user : Persons]
    \cup [at : {"provision"}, application : Applications, email : Emails]
    \cup [at : {"approve"}, application : Applications, user : Persons]
    \cup [at : {"reject"}, application : Applications]
    \cup [at : {"profile"}, user : Persons]
    \cup [at : {"deactivate", "erase"}, user : Persons]

OnboardingInit ==
    /\ user = [u \in Persons |-> NoUser]
    /\ application = [a \in Applications |-> NoApplication]
    /\ desk = [d \in Desks |-> Free]
    /\ edits = 0

Known(u) == user[u] # NoUser
Filed(a) == application[a] # NoApplication
Step(d, at) == desk[d].at = at
Go(d, job) == desk' = [desk EXCEPT ![d] = job]
Leave(d) == Go(d, Free)

Owner(email) == {u \in Persons : Known(u) /\ user[u].email = email}
OfUser(u) == {a \in Applications : Filed(a) /\ application[a].user = u}
OfEmail(email) == {a \in Applications : Filed(a) /\ application[a].email = email}

Edit == edits < MaxEdits /\ edits' = edits + 1

\* User.email is unique: nothing is inserted twice.
Insert(u, email, role, profile) ==
    /\ ~Known(u)
    /\ Owner(email) = {}
    /\ user' = [user EXCEPT ![u] =
            [email |-> email, role |-> role, profile |-> profile, active |-> TRUE]]

-----------------------------------------------------------------------------
(* Applying *)

ApplyPublic(d, email) ==
    /\ desk[d] = Free
    /\ Owner(email) = {}
    /\ \A a \in OfEmail(email) : application[a].status = "rejected"
    /\ Go(d, [at |-> "apply", email |-> email])
    /\ UNCHANGED <<user, application, edits>>

FilePublic(d) ==
    /\ Step(d, "apply")
    /\ \E a \in Applications :
         /\ ~Filed(a)
         /\ application' = [application EXCEPT ![a] =
                [user |-> NoUser, email |-> desk[d].email, status |-> "pending"]]
    /\ Leave(d)
    /\ UNCHANGED <<user, edits>>

Submit(d, u) ==
    /\ desk[d] = Free
    /\ Known(u) /\ user[u].active
    /\ user[u].role = "STUDENT"
    /\ \A a \in OfUser(u) : application[a].status = "rejected"
    /\ Go(d, [at |-> "submit", user |-> u, found |-> OfUser(u) # {}])
    /\ UNCHANGED <<user, application, edits>>

\* Fault: a second row for the same user.
FileOwnTwice(d) ==
    /\ Step(d, "submit")
    /\ \E a \in Applications :
         /\ ~Filed(a)
         /\ application' = [application EXCEPT ![a] =
                [user |-> desk[d].user, email |-> Deleted, status |-> "pending"]]
    /\ Leave(d)
    /\ UNCHANGED <<user, edits>>

\* The row of an earlier, rejected application is used again; a new one is
\* refused by the unique userId when another request filed it meanwhile.
FileOwn(d) ==
    /\ Step(d, "submit")
    /\ LET u == desk[d].user IN
         \/ /\ desk[d].found
            /\ \E a \in OfUser(u) :
                 application' = [application EXCEPT ![a].status = "pending"]
         \/ /\ ~desk[d].found
            /\ OfUser(u) # {}
            /\ UNCHANGED application
         \/ /\ ~desk[d].found
            /\ OfUser(u) = {}
            /\ \E a \in Applications :
                 /\ ~Filed(a)
                 /\ application' = [application EXCEPT ![a] =
                        [user |-> u, email |-> Deleted, status |-> "pending"]]
    /\ Leave(d)
    /\ UNCHANGED <<user, edits>>

-----------------------------------------------------------------------------
(* Review *)

Review(d, a) ==
    /\ desk[d] = Free
    /\ Filed(a)
    /\ LET row == application[a] IN
         /\ row.status = "pending"
         /\ \/ Go(d, [at |-> "reject", application |-> a])
            \/ /\ row.user # NoUser
               /\ Go(d, [at |-> "promote", application |-> a, user |-> row.user])
            \/ /\ row.user = NoUser
               /\ Owner(row.email) = {}
               /\ Go(d, [at |-> "provision", application |-> a, email |-> row.email])
    /\ UNCHANGED <<user, application, edits>>

\* Fault: the account is promoted and its profile left for later.
PromoteWithoutProfile(d) ==
    /\ Step(d, "promote")
    /\ LET u == desk[d].user IN
         /\ user' = [user EXCEPT ![u].role = "INSTRUCTOR"]
         /\ Go(d, [at |-> "approve", application |-> desk[d].application, user |-> u])
    /\ UNCHANGED <<application, edits>>

Promote(d) ==
    /\ Step(d, "promote")
    /\ LET u == desk[d].user IN
         /\ user' = [user EXCEPT ![u].role = "INSTRUCTOR", ![u].profile = TRUE]
         /\ Go(d, [at |-> "approve", application |-> desk[d].application, user |-> u])
    /\ UNCHANGED <<application, edits>>

\* The e-mail may have been taken since it was looked up: the insert fails.
Provision(d) ==
    /\ Step(d, "provision")
    /\ \/ /\ Owner(desk[d].email) # {}
          /\ Leave(d)
          /\ UNCHANGED user
       \/ \E u \in Persons :
            /\ Insert(u, desk[d].email, "INSTRUCTOR", TRUE)
            /\ Go(d, [at |-> "approve", application |-> desk[d].application, user |-> u])
    /\ UNCHANGED <<application, edits>>

\* userId is unique: a second application of the account fails here.
Approve(d) ==
    /\ Step(d, "approve")
    /\ LET a == desk[d].application
           u == desk[d].user IN
         application' =
            IF OfUser(u) \subseteq {a}
            THEN [application EXCEPT ![a].status = "approved", ![a].user = u]
            ELSE application
    /\ Leave(d)
    /\ UNCHANGED <<user, edits>>

Reject(d) ==
    /\ Step(d, "reject")
    /\ application' = [application EXCEPT ![desk[d].application].status = "rejected"]
    /\ Leave(d)
    /\ UNCHANGED <<user, edits>>

-----------------------------------------------------------------------------
(* Accounts *)

\* register and googleLogin: always a student.
SignUp(u, email) ==
    /\ Insert(u, email, "STUDENT", FALSE)
    /\ UNCHANGED <<application, desk, edits>>

\* The admin's createUser: the profile of the role is created by a second query.
AdminCreateUser(d, u, email, role) ==
    /\ desk[d] = Free
    /\ Edit
    /\ Insert(u, email, role, FALSE)
    /\ IF role = "INSTRUCTOR" THEN Go(d, [at |-> "profile", user |-> u])
                              ELSE UNCHANGED desk
    /\ UNCHANGED application

CreateProfile(d) ==
    /\ Step(d, "profile")
    /\ user' = [user EXCEPT ![desk[d].user].profile = TRUE]
    /\ Leave(d)
    /\ UNCHANGED <<application, edits>>

\* updateUser and changeUserRole: a role is only a column.
ChangeUserRole(u, role) ==
    /\ Known(u)
    /\ Edit
    /\ user' = [user EXCEPT ![u].role = role]
    /\ UNCHANGED <<application, desk>>

UpdateEmail(u, email) ==
    /\ Known(u)
    /\ Edit
    /\ Owner(email) \subseteq {u}
    /\ user' = [user EXCEPT ![u].email = email]
    /\ UNCHANGED <<application, desk>>

ActivateUser(u) ==
    /\ Known(u)
    /\ Edit
    /\ user' = [user EXCEPT ![u].active = TRUE]
    /\ UNCHANGED <<application, desk>>

\* deactivateUser, suspendInstructor and deleteInstructor: the role is read first.
DeactivateUser(d, u) ==
    /\ desk[d] = Free
    /\ Known(u)
    /\ Edit
    /\ user[u].role # "ADMIN"
    /\ Go(d, [at |-> "deactivate", user |-> u])
    /\ UNCHANGED <<user, application>>

DeleteUser(d, u) ==
    /\ desk[d] = Free
    /\ Known(u)
    /\ Edit
    /\ user[u].role # "ADMIN"
    /\ Go(d, [at |-> "erase", user |-> u])
    /\ UNCHANGED <<user, application>>

\* Fault: the e-mail is removed instead of being replaced.
TakeOutWholly(d) ==
    /\ desk[d].at \in {"deactivate", "erase"}
    /\ user' = [user EXCEPT ![desk[d].user] =
            IF Step(d, "erase") THEN [@ EXCEPT !.active = FALSE, !.email = NoUser]
                                ELSE [@ EXCEPT !.active = FALSE]]
    /\ Leave(d)
    /\ UNCHANGED <<application, edits>>

TakeOut(d) ==
    /\ desk[d].at \in {"deactivate", "erase"}
    /\ user' = [user EXCEPT ![desk[d].user] =
            IF Step(d, "erase") THEN [@ EXCEPT !.active = FALSE, !.email = Deleted]
                                ELSE [@ EXCEPT !.active = FALSE]]
    /\ Leave(d)
    /\ UNCHANGED <<application, edits>>

\* updateInstructorProfile is an upsert.
UpdateInstructorProfile(u) ==
    /\ Known(u) /\ user[u].active
    /\ user[u].role = "INSTRUCTOR"
    /\ user' = [user EXCEPT ![u].profile = TRUE]
    /\ UNCHANGED <<application, desk, edits>>

\* The process dies: what was written stays.
Abandon(d) ==
    /\ desk[d] # Free
    /\ Edit
    /\ Leave(d)
    /\ UNCHANGED <<user, application>>

OnboardingNext ==
    \/ \E d \in Desks :
         \/ \E email \in Emails :
              \/ ApplyPublic(d, email)
              \/ \E u \in Persons, role \in Roles : AdminCreateUser(d, u, email, role)
         \/ \E u \in Persons : Submit(d, u) \/ DeactivateUser(d, u) \/ DeleteUser(d, u)
         \/ \E a \in Applications : Review(d, a)
         \/ FilePublic(d) \/ FileOwn(d)
         \/ Promote(d) \/ Provision(d) \/ Approve(d) \/ Reject(d)
         \/ CreateProfile(d) \/ TakeOut(d) \/ Abandon(d)
    \/ \E u \in Persons :
         \/ \E email \in Emails : SignUp(u, email) \/ UpdateEmail(u, email)
         \/ \E role \in Roles : ChangeUserRole(u, role)
         \/ ActivateUser(u) \/ UpdateInstructorProfile(u)

OnboardingSpec == OnboardingInit /\ [][OnboardingNext]_onboardingVars

-----------------------------------------------------------------------------
(* Properties *)

\* Every variable keeps its type.
OnboardingTypeOK ==
    /\ user \in [Persons -> UserRows \cup {NoUser}]
    /\ application \in [Applications -> ApplicationRows \cup {NoApplication}]
    /\ desk \in [Desks -> DeskJobs]
    /\ edits \in 0..MaxEdits

\* Whoever was approved has the instructor profile that sales and payouts are
\* booked on, whatever reviews overlapped, and the application knows its account.
ApprovedHaveProfiles ==
    \A a \in Applications :
        Filed(a) /\ application[a].status = "approved" =>
            application[a].user # NoUser /\ user[application[a].user].profile

\* No account stands behind two applications: an approval that would link a
\* second one fails, even when both were read while neither was linked.
OneApplicationPerAccount ==
    \A u \in Persons : Cardinality(OfUser(u)) <= 1

\* An approval leaves one instructor, whole, whatever reviews overlapped.
InstructorsAreWhole == ApprovedHaveProfiles /\ OneApplicationPerAccount
=============================================================================
