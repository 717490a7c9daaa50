-------------------------------- MODULE Grants --------------------------------
(***************************************************************************)
(* What the faucet promises to whoever funds it: a party is paid one grant *)
(* in its life, only under a reservation, and the reservations it is paid  *)
(* under never exceed the lifetime cap.                                    *)
(***************************************************************************)
EXTENDS Integers, FiniteSets

CONSTANTS
    Parties,        \* parties that ask for a grant
    LifetimeCap     \* grants ever paid; 0 disables the cap

VARIABLES
    reserved,       \* parties with a reservation
    paid,           \* parties that got their grant
    payouts         \* transfers that committed

Init ==
    /\ reserved = {}
    /\ paid = {}
    /\ payouts = 0

Reserve(p) ==
    /\ p \notin reserved
    /\ LifetimeCap = 0 \/ Cardinality(reserved) < LifetimeCap
    /\ reserved' = reserved \cup {p}
    /\ UNCHANGED <<paid, payouts>>

\* only a reservation nothing was paid under can be given back
Free(p) ==
    /\ p \in reserved \ paid
    /\ reserved' = reserved \ {p}
    /\ UNCHANGED <<paid, payouts>>

Pay(p) ==
    /\ p \in reserved \ paid
    /\ paid' = paid \cup {p}
    /\ payouts' = payouts + 1
    /\ UNCHANGED reserved

Next == \E p \in Parties : Reserve(p) \/ Free(p) \/ Pay(p)

Spec == Init /\ [][Next]_<<reserved, paid, payouts>>
=============================================================================
