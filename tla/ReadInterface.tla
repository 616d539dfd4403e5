---------------------------- MODULE ReadInterface ----------------------------
(***************************************************************************)
(* What a caller of veilite-core's SqlCipherReader and the reader exchange *)
(* (reader.rs): the calls, their results, and the state of a reader.  Both *)
(* the abstract AuthenticatedRead and the detailed SqlCipherReader use it. *)
(***************************************************************************)
EXTENDS PageDecryptor, Sequences

CONSTANTS
  Stored,       \* the physical pages the source may hold
  U32Max,       \* largest u32: page numbers
  U64Max,       \* largest u64: byte offsets
  MaxSlots,     \* bound: whole pages in the source
  MaxLength     \* bound: length of a caller's buffer

ASSUME StoredAssumption == Stored \subseteq PhysicalPages

ASSUME BoundsAssumption ==
  /\ U32Max \in Nat /\ U64Max \in Nat /\ MaxSlots \in Nat /\ MaxLength \in Nat
  /\ U32Max > 0
  /\ U32Max * PageSize <= U64Max

\* The three ways into a reader; page_no is NonZeroU32, offset u64.
NoCall == [op |-> "none", page_no |-> 0, offset |-> 0, length |-> 0]
OpenCall == [op |-> "open", page_no |-> 0, offset |-> 0, length |-> 0]
PageCall(n, len) == [op |-> "page", page_no |-> n, offset |-> 0, length |-> len]
RangeCall(off, len) == [op |-> "range", page_no |-> 0, offset |-> off, length |-> len]

Calls ==
  {NoCall, OpenCall}
    \cup {PageCall(n, len) : n \in 1 .. U32Max, len \in 0 .. MaxLength}
    \cup {RangeCall(off, len) : off \in 0 .. U64Max, len \in 0 .. MaxLength}

ReaderErrors ==
  {"Source", "EmptyFile", "FileTooSmall", "InvalidFileSize", "TooManyPages",
   "InvalidOutputPageLength", "PageOutOfRange", "OffsetOverflow",
   "UnexpectedEof", "EmptyPassphrase", "AuthenticationFailed",
   "InvalidSqlitePageSize", "InvalidSqliteReserveSize"}

\* The page a decryption error is about, 0 for every other status.
Results == [status : ReaderErrors \cup {"ok"}, page : Nat]
NoResult == [status |-> "none", page |-> 0]
Result(status) == [status |-> status, page |-> 0]
PageResult(status, n) == [status |-> status, page |-> n]

\* SqlCipherReader: keys and geometry, read from the source once, by open.
Readers == [keys : Keys \cup {NoKeys}, file_size : Nat, page_count : Nat]
ClosedReader == [keys |-> NoKeys, file_size |-> 0, page_count |-> 0]

EmptyBuffer == [i \in {} |-> Zero]
CallerBuffer(len) == [i \in 0 .. len - 1 |-> Dirty]

IsCleared(buffer) == \A i \in DOMAIN buffer : buffer[i] = Zero
=============================================================================
