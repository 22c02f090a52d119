---------------------------- MODULE MCImageStore ----------------------------
(* Small instances of ImageStore.                                           *)
EXTENDS ImageStore
=============================================================================
