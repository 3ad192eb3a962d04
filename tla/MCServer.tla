------------------------------ MODULE MCServer ------------------------------
(* A small instance of Server for TLC; the constants are in the .cfg file.    *)
EXTENDS Server
=============================================================================
