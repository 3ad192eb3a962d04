---------------------------- MODULE MCReactorTx ----------------------------
(* Small instances of ReactorTx for TLC; the constants are in the .cfg files. *)
EXTENDS ReactorTx
=============================================================================
