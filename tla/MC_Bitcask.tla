---------------------------- MODULE MC_Bitcask ----------------------------
(***************************************************************************)
(* Model-checking instances of Bitcask.                                   *)
(***************************************************************************)
EXTENDS Bitcask

=============================================================================
