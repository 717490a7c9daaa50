------------------------------ MODULE MCSettle ------------------------------
(* Small instances of Settle for TLC.                                      *)
EXTENDS SettleInv, TLC

CONSTANTS h1, h2, h3, p1, p2

OneHandler == {h1}
TwoHandlers == {h1, h2}
ThreeHandlers == {h1, h2, h3}
OneParticipant == {p1}
TwoParticipants == {p1, p2}
AnyReason == Reasons
NoReason == {}
Locks == {"contention"}
Unnamed == {"other"}

Symmetry == Permutations(Handlers) \cup Permutations(Participants)
=============================================================================
