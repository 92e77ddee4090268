---------------------------- MODULE MCShareLinks ----------------------------
(***************************************************************************)
(* A small instance of ShareLinks for TLC.                                 *)
(***************************************************************************)
EXTENDS ShareLinks

=============================================================================
