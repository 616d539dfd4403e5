-------------------------- MODULE MCPassphraseLine --------------------------
(***************************************************************************)
(* A small instance of PassphraseLine for TLC.                             *)
(***************************************************************************)
EXTENDS PassphraseLine
=============================================================================
