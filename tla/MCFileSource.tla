---------------------------- MODULE MCFileSource ----------------------------
(***************************************************************************)
(* A small instance of FileSource for TLC.                                 *)
(***************************************************************************)
EXTENDS FileSource
=============================================================================
