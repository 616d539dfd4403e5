---------------------------- MODULE MCWalSnapshot ----------------------------
(***************************************************************************)
(* Small instances of WalSnapshot for TLC.                                 *)
(***************************************************************************)
EXTENDS WalSnapshot

MCWriterKeys == [passphrase |-> "own", salt |-> "s1"]

MCData == [version : 0 .. MaxCommits, size : 0 .. MaxPages]
=============================================================================
