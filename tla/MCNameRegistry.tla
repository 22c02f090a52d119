--------------------------- MODULE MCNameRegistry ---------------------------
(* Small instances of NameRegistry.                                         *)
EXTENDS NameRegistry

CONSTANTS c1, c2, c3, app

(* c1 and c2 want one name, c3 has none *)
SharedName == [c \in Ctrs |-> IF c = c3 THEN NoName ELSE app]
=============================================================================
