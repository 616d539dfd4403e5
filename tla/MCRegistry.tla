----------------------------- MODULE MCRegistry -----------------------------
(***************************************************************************)
(* A small instance of Registry for TLC: one file with two hard links.     *)
(* Nothing in Registry tells one caller, passphrase, salt or version from  *)
(* another.                                                                *)
(***************************************************************************)
EXTENDS Registry, TLC

CONSTANTS file

OneFile == [path \in Paths |-> file]

Interchangeable ==
  UNION {Permutations(S) : S \in {Callers, Passphrases, Salts, Versions}}
=============================================================================
