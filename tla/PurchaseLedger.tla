--------------------------- MODULE PurchaseLedger ---------------------------
(***************************************************************************)
(* What the settlement of purchases promises, without requests, races,     *)
(* crashes or retries: a seat (a user in a course) is taken once and never *)
(* changes hands, money settles a purchase only after it was collected,    *)
(* settling takes the seat in the same step unless it was taken before,    *)
(* and only a settled purchase is repaid.                                  *)
(***************************************************************************)
CONSTANTS Seats, PaymentIds, Vacant, Free, NoSeat

VARIABLES
    claim,      \* the seat each payment is for
    paid,       \* payments the buyer approved
    settled,    \* payments the platform accepted
    repaid,     \* payments given back at least once
    holder      \* what took each seat: a payment, Free, or Vacant

vars == <<claim, paid, settled, repaid, holder>>

Init ==
    /\ claim = [p \in PaymentIds |-> NoSeat]
    /\ paid = {}
    /\ settled = {}
    /\ repaid = {}
    /\ holder = [s \in Seats |-> Vacant]

Claim(p, s) ==
    /\ claim[p] = NoSeat
    /\ claim' = [claim EXCEPT ![p] = s]
    /\ UNCHANGED <<paid, settled, repaid, holder>>

Pay(p) ==
    /\ claim[p] # NoSeat
    /\ paid' = paid \cup {p}
    /\ UNCHANGED <<claim, settled, repaid, holder>>

Settle(p) ==
    /\ p \in paid \ settled
    /\ settled' = settled \cup {p}
    /\ holder' = IF holder[claim[p]] = Vacant
                 THEN [holder EXCEPT ![claim[p]] = p] ELSE holder
    /\ UNCHANGED <<claim, paid, repaid>>

TakeFree(s) ==
    /\ holder[s] = Vacant
    /\ holder' = [holder EXCEPT ![s] = Free]
    /\ UNCHANGED <<claim, paid, settled, repaid>>

Repay(p) ==
    /\ p \in settled
    /\ repaid' = repaid \cup {p}
    /\ UNCHANGED <<claim, paid, settled, holder>>

Next ==
    \/ \E p \in PaymentIds, s \in Seats : Claim(p, s)
    \/ \E p \in PaymentIds : Pay(p) \/ Settle(p) \/ Repay(p)
    \/ \E s \in Seats : TakeFree(s)

Spec == Init /\ [][Next]_vars
=============================================================================
