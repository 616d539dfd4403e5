----------------------------- MODULE WalSnapshot -----------------------------
(***************************************************************************)
(* veilite-turso/src/snapshot.rs and codec.rs: opening a main file and its *)
(* WAL, fixing the image Turso selects and visiting its pages in order.    *)
(*                                                                         *)
(* The filesystem checks of WalInput::open and Turso's shared registry are *)
(* not part of this module.  The files are written first (WalFiles), then  *)
(* read; changes after WalInput::open break its contract and are counted   *)
(* in late.                                                                *)
(***************************************************************************)
EXTENDS WalFiles

CONSTANTS
  U32Max,       \* largest u32
  MaxLate       \* bound: changes while the input is in use

\* Page numbers are u32, those of the writer too.
ASSUME SnapshotAssumption ==
  U32Max \in Nat \ {0} /\ MaxPages <= U32Max /\ MaxLate \in Nat

VARIABLES
  pc,             \* where the caller is: see Steps
  wal_size,       \* WalInput::wal_size
  keys,           \* keys of the codec's decoder
  page_count,     \* SqlCipherCodec::page_count, the whole pages of main
  wal_page_limit, \* SqlCipherCodec::wal_page_limit
  index,          \* Turso's frame for each page of the selected image
  count,          \* WalSnapshot::page_count
  number,         \* the next page visit_pages reads
  delivered,      \* the pages the callback received
  status,         \* what the caller was told
  late            \* changes to the files since WalInput::open

readerVars == <<pc, wal_size, keys, page_count, wal_page_limit, index,
                count, number, delivered, status, late>>
vars == <<main, main_rest, wal, wal_rest, wal_header, tx, history, ends, crashes,
          forgeries, pc, wal_size, keys, page_count, wal_page_limit, index,
          count, number, delivered, status, late>>

Steps == {"absent", "input", "checked", "connected", "begun", "visiting",
          "failing", "done"}

Statuses ==
  {"none", "ok", "EmptyPassphrase", "EmptyFile", "FileTooSmall",
   "InvalidFileSize", "TooManyPages", "Source", "AuthenticationFailed",
   "InvalidSqlitePageSize", "InvalidSqliteReserveSize", "Turso",
   "SnapshotSize", "Read", "PageLength", "Callback"}

NoIndex == [n \in 1 .. MaxPages |-> 0]

Init ==
  /\ FilesInit
  /\ pc = "absent"
  /\ wal_size = 0
  /\ keys = NoKeys
  /\ page_count = 0 /\ wal_page_limit = 0
  /\ index = NoIndex
  /\ count = 0 /\ number = 1
  /\ delivered = << >>
  /\ status = "none"
  /\ late = 0

-----------------------------------------------------------------------------
(* Sizes.                                                                  *)

WalHeaderSize == 32
FrameSize == 24 + PageSize

WalSize ==
  IF wal_header = "cut" THEN WalHeaderSize - 16
  ELSE WalHeaderSize + Len(wal) * FrameSize + (IF wal_rest THEN FrameSize - 11 ELSE 0)

MainSize == Len(main) * PageSize + (IF main_rest THEN PageSize - 1 ELSE 0)

SaturatingSub(a, b) == IF a >= b THEN a - b ELSE 0

\* Mutant: the page bound is kept in a wider integer.
SaturatingU32Not(a) == a

SaturatingU32(a) == IF a <= U32Max THEN a ELSE U32Max

\* Mutant: the WAL adds no page to what the main file holds.
WalPagesNone(size) == 0

\* connect's conservative bound on the pages the WAL can add.
WalPages(size) ==
  SaturatingU32(SaturatingSub(size, WalHeaderSize) \div FrameSize)

-----------------------------------------------------------------------------
(* Opening.                                                                *)

\* Mutant: the error is kept for the end and the loop goes on.
FailAtTheEnd(error) == status' = error /\ UNCHANGED pc

Fail(error) == status' = error /\ pc' = "failing"

\* WalInput::open; from here on the files must not change.
OpenInput ==
  /\ pc = "absent"
  /\ pc' = "input"
  /\ wal_size' = WalSize
  /\ UNCHANGED <<fileVars, keys, page_count, wal_page_limit, index,
                 count, number, delivered, status, late>>

\* Mutant: a database of one page is taken for a short file.
MainStatusOnePageShort(size) ==
  CASE size = 0 -> "EmptyFile"
    [] size > 0 /\ size <= PageSize -> "FileTooSmall"
    [] size > PageSize /\ size % PageSize # 0 -> "InvalidFileSize"
    [] size > PageSize /\ size % PageSize = 0 /\ size \div PageSize > U32Max
         -> "TooManyPages"
    [] OTHER -> "ok"

MainStatus(size) ==
  CASE size = 0 -> "EmptyFile"
    [] size > 0 /\ size < PageSize -> "FileTooSmall"
    [] size >= PageSize /\ size % PageSize # 0 -> "InvalidFileSize"
    [] size >= PageSize /\ size % PageSize = 0 /\ size \div PageSize > U32Max
         -> "TooManyPages"
    [] OTHER -> "ok"

\* open_connection up to the codec: page 1 of the main file is authenticated
\* with this caller's key whatever the WAL says.  Its salt is the writer's,
\* unless the page is corrupt and then no key fits it.
Authenticate(passphrase) ==
  LET derived == DeriveKeys(passphrase, WriterKeys.salt)
      first == DecryptError(derived, 1, main[1])
  IN
  /\ pc = "input"
  /\ \/ passphrase = EmptyPassphrase /\ Fail("EmptyPassphrase")
        /\ UNCHANGED <<keys, page_count, wal_page_limit>>
     \/ passphrase # EmptyPassphrase /\ MainStatus(MainSize) # "ok"
        /\ Fail(MainStatus(MainSize))
        /\ UNCHANGED <<keys, page_count, wal_page_limit>>
     \/ passphrase # EmptyPassphrase /\ Fail("Source")
        /\ UNCHANGED <<keys, page_count, wal_page_limit>>
     \/ passphrase # EmptyPassphrase /\ MainStatus(MainSize) = "ok"
        /\ first # "ok" /\ Fail(first)
        /\ UNCHANGED <<keys, page_count, wal_page_limit>>
     \/ /\ passphrase # EmptyPassphrase /\ MainStatus(MainSize) = "ok"
        /\ first = "ok"
        /\ keys' = derived
        /\ page_count' = MainSize \div PageSize
        /\ wal_page_limit' =
             SaturatingU32(MainSize \div PageSize + WalPages(wal_size))
        /\ pc' = "checked"
        /\ UNCHANGED status
  /\ UNCHANGED <<fileVars, wal_size, index, count, number,
                 delivered, late>>

-----------------------------------------------------------------------------
(* Reading a page of the selected image through the codec.                 *)

Location(idx, n) == IF idx[n] # 0 THEN "Wal" ELSE "Database"

\* The page is there to be read; under the contract it always is.
Present(idx, n) == IF idx[n] # 0 THEN idx[n] <= Len(wal) ELSE n <= Len(main)

Content(idx, n) == IF idx[n] # 0 THEN wal[idx[n]].page ELSE main[n]

\* Mutant: the bound of the main file is used for pages of the WAL.
InRangeMainOnly(location, n) == n <= page_count

\* The codec of a connection with a WAL; one without accepts no page of a WAL.
InRange(location, n) ==
  IF location = "Wal" THEN n <= wal_page_limit ELSE n <= page_count

\* decode_page; a page that is absent is a read error before it.
Decodes(idx, n) ==
  /\ Present(idx, n)
  /\ InRange(Location(idx, n), n)
  /\ Genuine(keys, n, Content(idx, n))

\* Database::open and connect: Turso scans the WAL, and reads page 1 of what
\* it selected for the schema.
OpenDatabase ==
  /\ pc = "checked"
  /\ index' = FrameIndex
  /\ \/ Decodes(FrameIndex, 1) /\ pc' = "connected" /\ UNCHANGED status
     \/ Fail("Turso")
  /\ UNCHANGED <<fileVars, wal_size, keys, page_count, wal_page_limit,
                 count, number, delivered, late>>

\* BEGIN and PRAGMA page_count, which is read from the header of page 1.
BeginRead ==
  /\ pc = "connected"
  /\ \/ /\ Decodes(index, 1)
        /\ count' = Content(index, 1).data.size
        /\ pc' = "begun"
        /\ UNCHANGED status
     \/ Fail("Turso") /\ UNCHANGED count
  /\ UNCHANGED <<fileVars, wal_size, keys, page_count, wal_page_limit, index,
                 number, delivered, late>>

CheckCount ==
  /\ pc = "begun"
  /\ IF count > 0 /\ count <= wal_page_limit
     THEN pc' = "visiting" /\ UNCHANGED status
     ELSE Fail("SnapshotSize")
  /\ UNCHANGED <<fileVars, wal_size, keys, page_count, wal_page_limit, index,
                 count, number, delivered, late>>

-----------------------------------------------------------------------------
(* visit_pages.                                                            *)

\* Mutant: 1..page_count instead of 1..=page_count.
LastNumberExcluded == count - 1

LastNumber == count

\* Mutant: a page that cannot be authenticated is read from the main file.
ReadsFallingBack(n) ==
  IF Decodes(index, n) THEN {Content(index, n)}
  ELSE IF Decodes(NoIndex, n) THEN {Content(NoIndex, n)} ELSE {}

\* Mutant: pages are read from the main file whatever the WAL has.
ReadsDatabase(n) == IF Decodes(NoIndex, n) THEN {Content(NoIndex, n)} ELSE {}

\* read_page_no_cache: the page it decodes to, if it does.
Reads(n) == IF Decodes(index, n) THEN {Content(index, n)} ELSE {}

\* Mutant: a page that cannot be read is read again.
ReadFailsRetried == UNCHANGED <<pc, status>>

\* Turso fails to read the page, or returns one of another size.
ReadFails == Fail("Read") \/ Fail("PageLength")

Visit ==
  /\ pc = "visiting"
  /\ number <= LastNumber
  /\ \/ /\ \E page \in Reads(number) :
             /\ delivered' = Append(delivered, page)
             /\ \/ number' = number + 1 /\ UNCHANGED <<pc, status>>
                \/ Fail("Callback") /\ UNCHANGED number
     \/ ReadFails /\ UNCHANGED <<number, delivered>>
  /\ UNCHANGED <<fileVars, wal_size, keys, page_count, wal_page_limit, index,
                 count, late>>

VisitEnd ==
  /\ pc = "visiting"
  /\ number > LastNumber
  /\ status' = "ok"
  /\ pc' = "done"
  /\ UNCHANGED <<fileVars, wal_size, keys, page_count, wal_page_limit, index,
                 count, number, delivered, late>>

\* The error is returned; WalSnapshot is dropped if there is one, else only the
\* connection.  What either does to the read transaction is Turso's.
Release ==
  /\ pc = "failing"
  /\ pc' = "done"
  /\ UNCHANGED <<fileVars, wal_size, keys, page_count, wal_page_limit, index,
                 count, number, delivered, status, late>>

-----------------------------------------------------------------------------

\* The files are written, then damaged, before anybody opens them.
Preparing ==
  /\ pc = "absent"
  /\ (crashes + forgeries = 0 /\ Writing) \/ Crashing \/ Forging
  /\ UNCHANGED readerVars

Reading ==
  \/ \E passphrase \in Passphrases : Authenticate(passphrase)
  \/ OpenDatabase
  \/ BeginRead
  \/ CheckCount
  \/ Visit
  \/ VisitEnd
  \/ Release

\* The files change while they are in use.
Changing ==
  /\ pc \notin {"absent", "done"}
  /\ late < MaxLate
  /\ late' = late + 1
  /\ Crashing \/ Forging
  /\ UNCHANGED <<pc, wal_size, keys, page_count, wal_page_limit, index,
                 count, number, delivered, status>>

Next == Preparing \/ OpenInput \/ Reading \/ Changing

Spec == Init /\ [][Next]_vars

\* Once opened, an input is used to the end; Turso's reads complete.
FairSpec == Spec /\ WF_vars(Reading)

-----------------------------------------------------------------------------
(* Properties.                                                             *)

TypeOK ==
  /\ main \in Seq(PhysicalPages) /\ Len(main) <= MaxPages
  /\ \A k \in DOMAIN wal : wal[k] \in Frames
  /\ Len(wal) <= MaxFrames
  /\ crashes = 0 => tx.at <= Len(wal)
  /\ \A c \in DOMAIN ends : c > 1 => ends[c - 1] < ends[c]
  /\ Len(history) = Len(ends) + 1
  /\ pc \in Steps /\ status \in Statuses
  /\ keys \in Keys \cup {NoKeys}
  /\ index \in [1 .. MaxPages -> 0 .. MaxFrames]
  /\ page_count \in 0 .. MaxPages /\ wal_page_limit \in 0 .. U32Max
  /\ count \in 0 .. MaxPages
  /\ number \in 1 .. MaxPages + 1 /\ Len(delivered) \in {number - 1, number}

\* From files that only a crash has damaged, the callback receives pages of
\* the image of the last surviving commit, in order: nothing of a transaction
\* that was spilled, rolled back or cut, and no older version of a page.
DeliversLastCommit ==
  forgeries + late = 0 => IsPrefix(delivered, LastCommittedImage)

\* Success means the callback received the whole of that image.
SuccessIsComplete ==
  forgeries + late = 0 /\ status = "ok" => delivered = LastCommittedImage

\* "Every additional logical page needs at least one complete WAL frame": the
\* bound taken from file sizes never rejects an image the writer committed,
\* grown or shrunk, and no page of it is out of the codec's range.
BoundAdmitsCommittedImages ==
  forgeries + late = 0 /\ pc \in {"begun", "visiting", "failing", "done"} =>
    /\ status # "SnapshotSize"
    /\ keys = WriterKeys /\ count > 0 => \A n \in 1 .. count : Decodes(index, n)

\* Success authenticates exactly the selected image: every page of it, with
\* the caller's keys, from the frame selected, however the files were forged.
SuccessAuthenticatesSelection ==
  late = 0 /\ status = "ok" =>
    /\ Len(delivered) = Content(FrameIndex, 1).data.size
    /\ \A n \in DOMAIN delivered :
         /\ delivered[n] = Content(FrameIndex, n)
         /\ delivered[n].keys = keys /\ delivered[n].no = n

\* Even if the files change while they are read, no page is delivered that
\* was not authenticated with the caller's keys for its own number.
OnlyAuthenticatedPagesDelivered ==
  \A n \in DOMAIN delivered : delivered[n].keys = keys /\ delivered[n].no = n

\* A failure ends the traversal: nothing is delivered after it.
NothingAfterFailure ==
  [][status # "none" => UNCHANGED <<delivered, status>>]_vars

\* The images that recovery can still reach, the base image first.
Recoverable == SubSeq(history, 1, SurvivingCommits + 1)

Abstract ==
  INSTANCE CommittedSnapshot
    WITH committed <- Recoverable, opened <- pc # "absent",
         admitted <- keys = WriterKeys

\* From files that only a crash has damaged, frames, spills, rollbacks and the
\* selection are one log of commits of which a crash takes the end; a caller is
\* admitted with the writer's keys only, is told of no defect of the files, and
\* visits the log's last image: see CommittedSnapshot.
RefinesCommittedSnapshot == Abstract!Spec

\* An input that was opened is released in the end.
InputIsReleased == pc = "input" ~> pc = "done"

-----------------------------------------------------------------------------
(* The inductive invariant behind the safety properties.                   *)

\* What the reader holds has its type.
ReaderType ==
  /\ pc \in Steps /\ status \in Statuses
  /\ wal_size \in Nat
  /\ keys \in Keys \cup {NoKeys}
  /\ index \in [1 .. MaxPages -> 0 .. MaxFrames]
  /\ page_count \in 0 .. MaxPages /\ wal_page_limit \in 0 .. U32Max
  /\ count \in 0 .. MaxPages
  /\ number \in 1 .. MaxPages + 1
  /\ delivered \in Seq(PhysicalPages)
  /\ late \in 0 .. MaxLate

\* The selection was made and its page count read.
Selected == pc \in {"begun", "visiting"}
            \/ status \in {"SnapshotSize", "Read", "PageLength", "Callback", "ok"}

\* Which status and deliveries go with which step.
StepInv ==
  /\ status = "none" <=> pc \notin {"failing", "done"}
  /\ status = "ok" => pc = "done"
  /\ pc \in {"absent", "input"} => keys = NoKeys
  /\ pc \in {"checked", "connected", "begun", "visiting"} => keys # NoKeys
  /\ ~Selected => number = 1 /\ count = 0
  /\ pc = "begun" => number = 1
  /\ status = "Callback" => Len(delivered) = number /\ number <= count
  /\ status # "Callback" => Len(delivered) = number - 1 /\ number <= count + 1
  /\ status = "ok" => number = count + 1

\* What was delivered is authentic and, from files that did not change, the
\* image that was selected.
DeliveryInv ==
  /\ \A n \in DOMAIN delivered : Genuine(keys, n, delivered[n])
  /\ late = 0 /\ (pc = "connected" \/ Selected) => index = FrameIndex
  /\ late = 0 /\ Selected =>
       /\ Present(index, 1) /\ count = Content(index, 1).data.size
       /\ \A n \in DOMAIN delivered : delivered[n] = Content(index, n)

\* The bounds are those of the files, and admit what the writer committed.
LimitInv ==
  /\ late = 0 /\ pc # "absent" => wal_size = WalSize
  /\ late = 0 /\ keys # NoKeys =>
       /\ page_count = Len(main)
       /\ wal_page_limit = SaturatingU32(Len(main) + WalPages(WalSize))
  /\ forgeries + late = 0 => status # "SnapshotSize"

\* What a crash leaves: the main file, and so the keys it lets in; before a
\* crash every frame of a commit, and of an open transaction, is valid.
CrashInv ==
  forgeries = 0 =>
    /\ main = history[1] /\ ~main_rest
    /\ keys # NoKeys => keys = WriterKeys
    /\ crashes = 0 =>
         /\ \A j \in 1 .. CommittedFrames : wal[j].valid
         /\ tx # NoTx => \A j \in 1 .. tx.at : wal[j].valid

SnapshotInv ==
  FilesInv /\ TxInv /\ RecoveryInv /\ ReaderType /\ StepInv /\ DeliveryInv /\ LimitInv
=============================================================================
