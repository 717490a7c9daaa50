------------------------------ MODULE MCPrepared ------------------------------
EXTENDS PreparedSigning, TLC

\* two parties of the registrar's namespace, every other party of its own
NamespaceOf(p) == IF p \in {"registrar", "registrar-user"} THEN "ns" ELSE p

\* every message is edited once, those of the smaller arms twice
CONSTANT Twice
EditsOf(i) == IF i \in Twice THEN 2 ELSE 1
=============================================================================
