------------------------- MODULE MCReactorLifecycle -------------------------
(* Small instances of ReactorLifecycle for TLC; the constants are in the .cfg *)
(* files.                                                                     *)
EXTENDS ReactorLifecycle
=============================================================================
