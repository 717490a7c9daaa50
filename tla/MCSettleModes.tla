---------------------------- MODULE MCSettleModes ----------------------------
(* Small instances of SettleModes for TLC.                                 *)
EXTENDS SettleModes

CONSTANTS h1, h2, p1, p2

OneHandler == {h1}
TwoHandlers == {h1, h2}
OneParticipant == {p1}
TwoParticipants == {p1, p2}
AnyReason == Reasons
NoReason == {}
=============================================================================
