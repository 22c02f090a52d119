-------------------------- MODULE MCDaemonControl --------------------------
(* Small instances of DaemonControl.                                        *)
EXTENDS DaemonControl
=============================================================================
