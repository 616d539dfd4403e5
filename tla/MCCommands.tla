----------------------------- MODULE MCCommands -----------------------------
(***************************************************************************)
(* A small instance of Commands for TLC.                                   *)
(***************************************************************************)
EXTENDS Commands
=============================================================================
