-------------------------- MODULE MCMessageService --------------------------
(* A small instance of MessageService, the task executor alone included, for  *)
(* TLC; the constants are in the .cfg file.                                   *)
EXTENDS MessageService
=============================================================================
