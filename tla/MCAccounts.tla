------------------------------ MODULE MCAccounts ------------------------------
(* Instance for TLC.  Auth, Onboarding and Totp share no variable, so each is *)
(* explored with the others at rest: in a behaviour only the focus moves.     *)
(* Secrets are tried at once, in the initial states, and codes against one.   *)
EXTENDS Auth, Onboarding, Totp, TLC

VARIABLE focus

Init ==
    /\ AuthInit /\ OnboardingInit /\ TotpInit
    /\ focus \in {"auth", "onboarding", "codes", "secrets"}
    /\ focus # "secrets" => secret = <<>>

Next ==
    /\ UNCHANGED focus
    /\ \/ focus = "auth" /\ AuthNext /\ UNCHANGED <<onboardingVars, totpVars>>
       \/ focus = "onboarding" /\ OnboardingNext /\ UNCHANGED <<authVars, totpVars>>
       \/ focus = "codes" /\ TotpNext /\ UNCHANGED <<authVars, onboardingVars>>

Spec == Init /\ [][Next]_<<authVars, onboardingVars, totpVars, focus>>

Symmetry ==
    Permutations(Clients) \cup Permutations(Passwords) \cup Permutations(Persons)

\* Every variable of the modules keeps its type.
TypeOK == AuthTypeOK /\ OnboardingTypeOK /\ TotpTypeOK
=============================================================================
