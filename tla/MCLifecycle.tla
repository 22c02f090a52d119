---------------------------- MODULE MCLifecycle ----------------------------
(* Small instances of Lifecycle: the ZyloFiles of the containers.           *)
EXTENDS Lifecycle

CONSTANTS c1, c2, web, data, app, bridge, dir

(* Containers that compete for a port, a volume and a network's addresses; *)
(* only c1 has a name                                                      *)
RivalNet == [c \in Ctrs |-> bridge]
RivalPort == [c \in Ctrs |-> web]
RivalVol == [c \in Ctrs |-> data]
RivalName == [c \in Ctrs |-> IF c = c1 THEN app ELSE NoName]
SamePath == [c \in Ctrs |-> dir]
=============================================================================
