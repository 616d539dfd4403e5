-------------------------- MODULE MCSqlCipherReader --------------------------
(***************************************************************************)
(* Small instances of SqlCipherReader for TLC.                             *)
(***************************************************************************)
EXTENDS SqlCipherReader

Own == [passphrase |-> "own", salt |-> "s1"]
Other == [passphrase |-> "other", salt |-> "s1"]

Page(keys, n, d, size, reserve) ==
  [keys |-> keys, no |-> n, data |-> d, size |-> size, reserve |-> reserve]

First == Page(Own, 1, "d1", 1, ReserveSize)
WrongSize == Page(Own, 1, "d1", 2, ReserveSize)
WrongReserve == Page(Own, 1, "d1", 1, 0)
Second == Page(Own, 2, "d1", 0, 0)
SecondNewer == Page(Own, 2, "d2", 0, 0)
Third == Page(Own, 3, "d1", 0, 0)
Foreign == Page(Other, 2, "d1", 0, 0)
Corrupt == Page(NoKeys, 1, "d1", 0, 0)

\* Three-page databases, with pages of any slot in any other.
MCContractPages == {First, WrongSize, WrongReserve, Second, Third, Corrupt}

\* Two-page databases, with two versions of page 2.
MCMutatingPages == {First, WrongReserve, Second, SecondNewer, Foreign, Corrupt}
=============================================================================
