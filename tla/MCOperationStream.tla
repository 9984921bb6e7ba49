-------------------------- MODULE MCOperationStream --------------------------
(* Small instances of OperationStream. *)
EXTENDS OperationStream, TLC

CONSTANTS install, download
=============================================================================
