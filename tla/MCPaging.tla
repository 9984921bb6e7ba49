------------------------------ MODULE MCPaging -------------------------------
(* Small instances of Paging. *)
EXTENDS Paging
=============================================================================
