-------------------------- MODULE MCVolumeRegistry --------------------------
(* Small instances of VolumeRegistry.                                       *)
EXTENDS VolumeRegistry

CONSTANTS c1, c2, c3, named, hostA, managed

(* c1 and c2 use one named volume, c3 a directory of the host *)
SharedVol == [c \in Ctrs |-> IF c = c3 THEN [name |-> NoName, path |-> hostA]
                                      ELSE [name |-> named, path |-> managed]]
=============================================================================
