---------------------------- MODULE CipherConfig ----------------------------
(***************************************************************************)
(* veilite-core/src/config.rs: which configurations are accepted, and the  *)
(* page layout they give.                                                  *)
(***************************************************************************)
EXTENDS Integers

CONSTANTS
  MaxKdfIterations  \* i32::MAX

ASSUME IterationsAssumption ==
  MaxKdfIterations \in Nat /\ MaxKdfIterations >= 256000

MinPageSize == 1024
MaxPageSize == 65536
BlockSize == 16
IvSize == 16

\* is_power_of_two, as far as MaxPageSize.
PowersOfTwo ==
  {1, 2, 4, 8, 16, 32, 64, 128, 256, 512, 1024, 2048, 4096, 8192, 16384,
   32768, 65536}

HashAlgorithms == {"Sha1", "Sha256", "Sha512"}

OutputLen(algorithm) ==
  CASE algorithm = "Sha1" -> 20
    [] algorithm = "Sha256" -> 32
    [] algorithm = "Sha512" -> 64

NextMultipleOf(n, k) == ((n + k - 1) \div k) * k

\* Mutant: the reserve is not padded to whole blocks.
ReserveSizeUnpadded(c) == IvSize + OutputLen(c.hmac_algorithm)

ReserveSize(c) == NextMultipleOf(IvSize + OutputLen(c.hmac_algorithm), BlockSize)

UsableEnd(c) == c.page_size - ReserveSize(c)

Configs ==
  [page_size : Nat, kdf_iterations : Nat,
   kdf_algorithm : HashAlgorithms, hmac_algorithm : HashAlgorithms]

\* Mutants: a size is not tested, or the last count is not accepted.
ValidPageSizeInRange(n) == n \in MinPageSize .. MaxPageSize
ValidIterationsBelowMax(n) == n \in 1 .. MaxKdfIterations - 1

ValidPageSize(n) == n \in MinPageSize .. MaxPageSize /\ n \in PowersOfTwo
ValidIterations(n) == n \in 1 .. MaxKdfIterations

\* CipherConfig::new accepts c, or which error it returns.
NewStatus(c) ==
  IF ~ValidPageSize(c.page_size) THEN "InvalidPageSize"
  ELSE IF ~ValidIterations(c.kdf_iterations) THEN "InvalidKdfIterations"
  ELSE "ok"

Preset(preset) ==
  CASE preset = "3" -> [page_size |-> 1024, kdf_iterations |-> 64000,
                        kdf_algorithm |-> "Sha1", hmac_algorithm |-> "Sha1"]
    [] preset = "4" -> [page_size |-> 4096, kdf_iterations |-> 256000,
                        kdf_algorithm |-> "Sha512", hmac_algorithm |-> "Sha512"]
=============================================================================
