--------------------------- MODULE MCServerOutput ----------------------------
(* Small instances of ServerOutput. *)
EXTENDS ServerOutput, TLC
=============================================================================
