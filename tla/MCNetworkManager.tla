-------------------------- MODULE MCNetworkManager --------------------------
(* Small instances of NetworkManager.                                        *)
EXTENDS NetworkManager

CONSTANTS c1, c2, c3, n1, n2

(* Two containers of one network and one of another *)
Networks == [c \in Ctrs |-> IF c = c3 THEN n2 ELSE n1]
=============================================================================
