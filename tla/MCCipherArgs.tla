---------------------------- MODULE MCCipherArgs ----------------------------
(***************************************************************************)
(* Values of the cipher options for TLC: on both sides of every limit.     *)
(***************************************************************************)
EXTENDS CipherArgs

MCPageSizes == {0, 512, 1023, 1024, 1040, 16384, 65535, 65536, 131072}
MCIterations == {0, 1, MaxKdfIterations, MaxKdfIterations + 1}
=============================================================================
