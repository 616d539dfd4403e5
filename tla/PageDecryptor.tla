---------------------------- MODULE PageDecryptor ----------------------------
(***************************************************************************)
(* veilite-core/src/decryptor.rs: what authenticating and decrypting one   *)
(* physical page does to the buffer that holds it.                         *)
(*                                                                         *)
(* Cryptography is ideal.  A physical page is a record that says which     *)
(* keys and which page number its HMAC was computed for; NoKeys stands for *)
(* bytes no key authenticates (corruption, a torn write, random bytes).    *)
(* The first SaltSize bytes of page 1 are not covered by the HMAC and are  *)
(* kept outside the page, as the salt of the file.                         *)
(*                                                                         *)
(* A buffer is a function from 0-based byte positions to Bytes, and a byte *)
(* says where it comes from: "raw" is ciphertext as stored, "plain" the    *)
(* decryption of that byte, "magic" a byte of SQLite's header string,      *)
(* "zero" a cleared byte, "dirty" what the caller left in the buffer.      *)
(***************************************************************************)
EXTENDS Integers

CONSTANTS
  PageSize,         \* CipherConfig::page_size
  SaltSize,         \* DATABASE_SALT_SIZE: unauthenticated bytes of page 1
  ReserveSize,      \* CipherConfig::reserve_size: IV, HMAC, padding
  MaxPageSize,      \* 65536, which two header bytes cannot hold
  Passphrases,      \* passphrases (with KDF settings) a caller may supply
  EmptyPassphrase,  \* the one of them that has no bytes
  Salts,            \* contents of the salt field
  Data,             \* plaintext contents of a page
  NoKeys,           \* no key authenticates the page / the reader is closed
  NoPage            \* the page of a byte that comes from no page

Keys == [passphrase : Passphrases \ {EmptyPassphrase}, salt : Salts]

\* size and reserve are header bytes 16-17 and 20; only page 1 has a header.
PhysicalPages ==
  [keys : Keys \cup {NoKeys}, no : Nat \ {0}, data : Data,
   size : 0 .. MaxPageSize - 1, reserve : Nat]

ASSUME LayoutAssumption ==
  /\ PageSize \in Nat /\ SaltSize \in Nat /\ ReserveSize \in Nat
  /\ MaxPageSize \in Nat
  /\ ReserveSize > 0 /\ SaltSize + ReserveSize < PageSize
  /\ PageSize <= MaxPageSize

ASSUME NamesAssumption ==
  /\ EmptyPassphrase \in Passphrases
  /\ NoKeys \notin Keys
  /\ NoPage \notin PhysicalPages

UsableEnd == PageSize - ReserveSize

Offsets == 0 .. PageSize - 1

-----------------------------------------------------------------------------
(* Bytes and buffers.                                                      *)

Bytes == [kind : {"zero", "dirty", "magic", "raw", "plain"},
          page : PhysicalPages \cup {NoPage}, at : Nat]

Zero == [kind |-> "zero", page |-> NoPage, at |-> 0]
Dirty == [kind |-> "dirty", page |-> NoPage, at |-> 0]
Magic(i) == [kind |-> "magic", page |-> NoPage, at |-> i]
Raw(pg, i) == [kind |-> "raw", page |-> pg, at |-> i]
Plain(pg, i) == [kind |-> "plain", page |-> pg, at |-> i]

RawPage(pg) == [i \in Offsets |-> Raw(pg, i)]

Zeroize(buffer) == [i \in DOMAIN buffer |-> Zero]

-----------------------------------------------------------------------------
(* Keys.  PBKDF2 is taken to be injective; the HMAC key is derived from    *)
(* the encryption key and the masked salt, so one record stands for both.  *)

DeriveKeys(passphrase, salt) == [passphrase |-> passphrase, salt |-> salt]

DecodeSqlitePageSize(encoded) == IF encoded = 1 THEN MaxPageSize ELSE encoded

\* Mutant: the page number is left out of the HMAC.
VerifyPageHmacAnywhere(keys, n, pg) == pg.keys = keys

\* The HMAC covers ciphertext, IV and page number.
VerifyPageHmac(keys, n, pg) == pg.keys = keys /\ pg.no = n

\* The error decrypt_page_in_place_inner ends with, "ok" when there is none.
DecryptError(keys, n, pg) ==
  CASE ~VerifyPageHmac(keys, n, pg) -> "AuthenticationFailed"
    [] /\ VerifyPageHmac(keys, n, pg)
       /\ n = 1 /\ DecodeSqlitePageSize(pg.size) # PageSize
         -> "InvalidSqlitePageSize"
    [] /\ VerifyPageHmac(keys, n, pg)
       /\ n = 1 /\ DecodeSqlitePageSize(pg.size) = PageSize
       /\ pg.reserve # ReserveSize
         -> "InvalidSqliteReserveSize"
    [] OTHER -> "ok"

\* What position i of page n holds after a successful decryption of pg.
DecryptedByte(n, pg, i) ==
  IF i >= UsableEnd THEN Zero
  ELSE IF n = 1 /\ i < SaltSize THEN Magic(i)
  ELSE Plain(pg, i)

DecryptedPage(n, pg) == [i \in Offsets |-> DecryptedByte(n, pg, i)]

\* The buffer decrypt_page_in_place_inner leaves: untouched when the HMAC is
\* wrong, decrypted with its reserve still in place when the header is wrong.
InnerBuffer(keys, n, pg) ==
  LET error == DecryptError(keys, n, pg)
  IN  IF error = "AuthenticationFailed" THEN RawPage(pg)
      ELSE IF error # "ok"
           THEN [i \in Offsets |-> IF i >= UsableEnd THEN Raw(pg, i)
                                   ELSE DecryptedByte(n, pg, i)]
      ELSE DecryptedPage(n, pg)

\* decrypt_page_in_place: every error clears the buffer.
DecryptInPlace(keys, n, pg) ==
  IF DecryptError(keys, n, pg) = "ok" THEN InnerBuffer(keys, n, pg)
  ELSE Zeroize(InnerBuffer(keys, n, pg))

Genuine(keys, n, pg) == DecryptError(keys, n, pg) = "ok"
=============================================================================
