# A formal model of veilite

veilite reads SQLCipher databases without SQLCipher: `veilite-core`
authenticates and decrypts the pages of a main database file, `veilite-turso`
lets the Turso engine read a main file and its WAL through the same decryptor,
and `veilite-cli` verifies a database or exports it to a plaintext file. This
directory holds TLA+ modules that model these parts, configurations that check
them with TLC, and proofs that TLAPS checks. `PROJECT.json` ties every
definition to the lines it models, every property to the hazards it is about
and to a mutant of the model that violates it.

Paths below are relative to `src/crates/`.

## The system

| part | code | state | operations |
| --- | --- | --- | --- |
| cipher configuration | `veilite-core/src/config.rs` | page size, KDF, HMAC; reserve size follows | `CipherConfig::new` validates |
| page decryptor | `veilite-core/src/decryptor.rs` | two derived keys | `decrypt_page_in_place`: HMAC over ciphertext, IV and page number, AES-CBC, header checks on page 1, reserve cleared, buffer cleared on any error |
| sources | `veilite-core/src/source.rs` | bytes that must not change | `ReadAt::len`, `read_exact_at`, which may fail half-way |
| reader | `veilite-core/src/reader.rs` | file size and page count fixed by `open`, decryptor | `read_page_into`, `read_exact_at` (aligned page directly, otherwise a loop over a scratch page) |
| page codec | `veilite-turso/src/codec.rs` | decryptor, page bounds for main file and WAL, identity | `decode_page`, called by Turso for every page it reads |
| WAL snapshot | `veilite-turso/src/snapshot.rs` | WAL size, connection, read transaction, page count | `WalInput::open`, `snapshot`, `visit_pages`, drop (`ROLLBACK`); `open_main` for main-only connections |
| SQL connections | `veilite-turso/src/lib.rs`, `snapshot.rs` | none of their own; Turso's registry keeps one database per file for all of them | `open_readonly`, `open_readonly_with_wal`, `open_connection` |
| commands | `veilite-cli/src/main.rs` | one output file, an exit code | `verify`, `export` (main or `--wal`), `inspect` |
| what commands do first | `veilite-cli/src/main.rs` | options, resolved path, passphrase | cipher options, companion checks, `read_passphrase_line` |
| outside | Turso, SQLCipher writers, other programs | WAL index, registry of databases; the files | commit selection, commits, crashes, changes to files |

How they interact: a command makes a `CipherConfig` of its options, checks the
names beside the database, reads the passphrase, opens a reader (or a `WalInput`)
on the path that was checked, reads page after page through the decryptor, and
writes what it gets to a new file. With `--wal` the pages come from Turso, which
selects a commit from the WAL and calls the codec back for each page. The library promises are: no byte that was
not authenticated for its place, nothing left in a buffer after an error, the
exact committed image, no fallback to an older version of a page.

What is hard here: errors in the middle of multi-page work, buffers that hold
plaintext, sources that change although they must not, arithmetic at the end of
a file, WALs with tails of every kind, page bounds taken from file sizes,
several processes at one output path, kills and loss of power between two
steps, links and directories that change between two checks, callers with
different keys that share a registry, threads that share the cursor of a file.
`PROJECT.json` lists each of these hazards with its line.

What makes each part correct:

* decryptor, reader: a call delivers exactly the requested bytes of the
  authenticated image or clears its buffer and says something true; no mix of
  page versions even from a changing source; no plaintext in scratch memory.
* codec, snapshot: from files damaged by a crash, the last surviving commit,
  whole; from forged files, authenticated pages of the selection or an error;
  the bound on pages admits every committed image.
* checks of names: no companion is overlooked and no WAL is optional, before
  anyone is asked for a passphrase; accepted is exactly what is documented.
* connections: nobody is served a file he has no key for, a database of another
  salt than he authenticated, or a WAL he did not ask for; nobody is refused
  without a conflict.
* sources: a read is one exact read at its own offset, whatever else uses the file.
* options and passphrase: used as given; a layout the decryptor can work with.
* commands: exit code 0 only for complete and durable work, or after a broken
  pipe; files of others untouched; no plaintext left behind silently.

## Modules

| module | models | correspondence |
| --- | --- | --- |
| `PageDecryptor` | `decryptor.rs` | A physical page is a record: the keys and page number its HMAC was computed for, its data, the header fields that are checked. Each byte of a buffer says where it comes from (`raw`, `plain`, `magic`, `zero`, `dirty`), so a cleared buffer, a partial read and a decrypted page are told apart. `DecryptError` and `InnerBuffer` are `decrypt_page_in_place_inner`, `DecryptInPlace` is its public wrapper. |
| `ReadInterface` | types of `reader.rs` | Calls, results and the opened reader. |
| `AuthenticatedRead` | the promise of `reader.rs` | One atomic step answers a call: the bytes of the plaintext image, or an error that holds of the call (`ErrorJustified`) and a cleared buffer. A page error names the first touched page that is not genuine. |
| `SqlCipherReader` | `reader.rs` | One action per step at which the code reads the source, writes a buffer or returns: `Open`; `CallReadPageInto`, `CallReadExactAt`; `EnterRange` (up to the loop), `LoopHead`, `EnterPage`, `Fetch`/`FetchFails`, `Decrypt`, `Copy`; `Take` is the caller. `RewritePage`, `RewriteSalt`, `Truncate` are a source that breaks its contract. |
| `SqlCipherReader_proofs` | | Proofs about pages and `SqlCipherReader`. |
| `WalFiles` | writer, damage, Turso's selection (external) | `Begin`, `WriteFrame`, `Rollback` are the writer of `fixtures/wal/generate.py`, which spills uncommitted frames, rolls back, grows and shrinks. `CutWal`, `CutWalHeader`, `BreakChecksum` are the crash damage and `ForgeFrame`, `ForgeMain`, `CutMain` the replaced pages of `tests/wal.rs`. `FrameIndex` is the commit Turso selects. |
| `WalSnapshot` | `snapshot.rs`, `codec.rs` | `OpenInput`, `Authenticate` (page 1 of the main file with the caller's key), `OpenDatabase`, `BeginRead`, `CheckCount`, `Visit`, `VisitEnd`, `Release`. `InRange` and `Decodes` are `decode_page`, `WalPages` the bound `connect` computes. |
| `CommittedSnapshot` | the promise of `snapshot.rs` over crashed files | A log of images: `Commit` adds one, `Lose` takes some off its end; a caller opens, is admitted with the key or refused (`Admit`, `Refuse`) and is handed the pages of the last image in order (`Deliver`, `Succeed`, `Break`). It knows no frames, checksums or bounds. |
| `WalSnapshot_proofs` | | Proofs about the files and what is recovered from them, about the visit, and that `WalSnapshot` implements `CommittedSnapshot`. |
| `Preflight` | the checks of names in `snapshot.rs` and `main.rs` | A call is a sequence of probes (`WalInputOpen`, `OpenMain`, `OpenReader`, `OpenWalSnapshot`, `Inspect`); each probe (`Absent`, `Canonicalize`, `Regular`, the three of the alias's WAL, `Utf8`, `OpenDatabase`, `Present`) and `Ask` is one step. The directory maps names to files, directories, nothing, or links. `Change` is another program between two steps. |
| `Preflight_proofs` | | Proofs about chains of links and about `Preflight`. |
| `Registry` | `open_connection` of `snapshot.rs`, identity of `codec.rs`, Turso's registry (external) | `Call`, `Authenticate` (page 1 with this caller's key, `NewCodec`), `OpenDatabase` (a new database, the one in the registry, or a refused identity), `Connect`, `Close`; `Replace` puts another database in the file, of any salt, and `overwritten` remembers where it has the salt of one in use. The registry tells files or paths apart (`byFile`), as the platform does. |
| `Registry_proofs` | | Proofs about `Registry`. |
| `PassphraseLine` | `read_passphrase_line` | `Read` is one pass of the loop over one chunk, whose tail keeps what earlier reads left; `Interrupted`, `ReadFails`. |
| `PassphraseLine_proofs` | | Proofs about `PassphraseLine`. |
| `ReadExact` | the promise of `ReadAt` | One atomic step answers a call with the bytes at its offset or an error that is true of it. |
| `FileSource` | `source.rs` | `ReadSlice` is `SliceSource`; `ReadFile` is one pass of the loop of `FileSource` (`SeekRead` is the system's read, which on Windows moves the shared cursor), `ReadNothing`, `ReadFails`; `Truncate` is another program. |
| `FileSource_proofs` | | `FileSource` implements `ReadExact`. |
| `CipherConfig` | `config.rs` | `NewStatus` (what `new` accepts), `Preset`, `ReserveSize` and `UsableEnd` (the layout). |
| `CipherArgs` | the cipher options of `main.rs` | `Parse` is clap with the groups and requirements declared on the options, `Config` is `CipherArgs::config`. |
| `CipherArgs_proofs` | | Proofs about `CipherConfig` and `CipherArgs`. |
| `Commands` | `main.rs` | Processes that verify or export: `Open`, `VerifyPage`, `CreateFile` (`create_new`), `ExportPage`, `PagesDone`, `SyncAll`, `CleanupFailedExport` (by path), `Report` (stdout). Each error has a kind, which `error` keeps until `main` makes an exit code of it (`ExitCode`). Around them `Kill`, `Interfere` (another program at the path) and `PowerLoss`. |
| `Commands_proofs` | | Proofs about `Commands`. |
| `MC*` | | Small instances for TLC. |

`WalSnapshot` extends `WalFiles`, which extends `PageDecryptor`;
`SqlCipherReader` and `AuthenticatedRead` extend `ReadInterface`, which extends
`PageDecryptor`. The decryptor's definitions are therefore the same in the
reader and in the codec, as in the code. `Commands` stands above both and treats
reading a page as a step that succeeds or fails. `Preflight` is what happens
before any of them opens a file. `Registry` is what happens between the checks
and the first page of a connection; the pages come after it as in `WalSnapshot`.
`FileSource` implements the exact reads (`Fetch`, `FetchFails`) that
`SqlCipherReader` makes. `CipherArgs` extends `CipherConfig`, whose layout is
the one `PageDecryptor` assumes with `LayoutAssumption`.

What is abstracted: cryptography is ideal (a page authenticates for exactly one
pair of keys and one page number; distinct passphrases and salts give distinct
keys). A page has three byte positions in the checked instances, one of them
salt or header and one reserve. Page contents are model values or a commit
number. Wording of errors, printing and memory allocation are left out. In
`FileSource` a byte is its position in the file, so that bytes of another place
show. In `Registry` a codec's identity is the record of what is digested.

## Runs

| run | configuration | shows | size |
| --- | --- | --- | --- |
| `reader_contract` | `MCSqlCipherReader_contract.cfg` | `TypeOK`; `RefinesAuthenticatedRead`: `SqlCipherReader` implements `AuthenticatedRead` | 254 thousand states |
| `reader_mutating` | `MCSqlCipherReader_mutating.cfg` | `FailedCallsAreCleared`, `ScratchIsCleared`, `OnlyAuthenticatedPages`, `EveryCallReturns`, up to two changes of the source between any two steps | 309 thousand |
| `wal_crash` | `MCWalSnapshot_crash.cfg` | `TypeOK`, `DeliversLastCommit`, `SuccessIsComplete`, `BoundAdmitsCommittedImages`; `RefinesCommittedSnapshot`: `WalSnapshot` implements `CommittedSnapshot` | 541 thousand |
| `wal_forged` | `MCWalSnapshot_forged.cfg` | `OnlyAuthenticatedPagesDelivered`, `SuccessAuthenticatesSelection`, `NothingAfterFailure`, `InputIsReleased` | 712 thousand |
| `commands` | `MCCommands.cfg` | `TypeOK`, `SuccessMeansComplete`, `SuccessIsInPlace`, `ExistingFilesUntouched`, `NoSilentLeftovers` | 516 thousand |
| `wal_errors` | `MCCommands_wal_errors.cfg` | violates `IoErrorsFail`: see Findings | 22 |
| `preflight_static` | `MCPreflight_static.cfg` | `TypeOK`, `AcceptsTheDocumented` | 125 thousand |
| `preflight_changing` | `MCPreflight_changing.cfg` | `StandingCompanionsRefuse`, `WalIsRequiredAndUnambiguous`, `InspectSeesStandingCompanions` | 3.7 million |
| `registry` | `MCRegistry.cfg` | `TypeOK`, `OnlyKeyHoldersAreServed`, `ServedWhatTheyAuthenticated`, `ServedFromTheirOwnWal`, `RefusedOnlyOnConflict` | 739 thousand, up to symmetry |
| `passphrase_line` | `MCPassphraseLine.cfg` | `ReadsFirstLine`, `StopsAtLineFeed`, `ReadingEnds` | 23 thousand |
| `file_source` | `MCFileSource.cfg` | `RefinesReadExact`, `EveryReadReturns` | 86 thousand |
| `cipher_args` | `MCCipherArgs.cfg` | `TypeOK`, `NoOptionIsIgnored`, `SupportedValuesAreConfigured`, `LayoutIsSound` | 10 thousand |

Bounds, and why they suffice:

* Reader. `PageSize = 3` is the smallest page with a salt byte, a plaintext byte
  and a reserve byte. Up to four whole pages (one more than `U32Max` admits) and
  a tail; buffers up to `MaxLength` = 8, so that a range covers parts of a first
  and a last page and a whole one between them, at every offset up to `U64Max`,
  where the sum overflows. Sources mix genuine pages, pages of another place or
  database, corrupt pages and two kinds of wrong header.
* WAL. Images of up to three pages, two commits, four frames: a commit of several
  frames, spilled and rolled-back frames overwritten by a later commit, growth
  and shrinking. One crash or one forgery (and one change during the visit) at
  any place. `U32Max = 3` in `wal_crash` makes the bound saturate.
* Commands. One export of each kind and a verify over two pages, one change by
  another program, one kill, one loss of power; every error that can be an
  `io::Error` for `main` comes with the kind of a broken pipe and with another.
  Both initial states of the path (free, taken) are tried.
* Names. `preflight_static` starts from every directory of two paths, the supplied
  one and another, in which each name is absent, a file, a directory or a link to
  a name of the same suffix: aliases, dangling links and loops. In
  `preflight_changing` the alias may move between two databases and any entry
  change twice, which is enough to change something and change it back.
* Registry. Three callers (two that conflict and one that closes meanwhile), two
  hard links to one file, right and wrong passphrases, two salts and two
  versions, so that a replaced file differs in any of them, in one or in all:
  a newer copy, the same database after a rekey, another database. Two
  replacements, so that the old database can come back. Callers, passphrases,
  salts and versions are interchangeable, hence the symmetry.
* Passphrase. All files of up to six bytes in chunks of up to two, so that a line
  spans three full chunks and its carriage return and line feed lie in one chunk
  or in two; one interruption, after which the state is what it was before.
* Source. Two threads, files of up to three bytes, offsets two past the end,
  lengths up to three, so that a range comes in one to three pieces, ends at the
  end of the file or behind it; `UsizeMax` = 4 lets offsets and ends overflow.
* Options. Every combination of present and absent options, values on both sides
  of every limit. TLC's integers have 32 bits, so `MaxKdfIterations`
  (`i32::MAX` in the code) is 300000; nothing but the comparison depends on it.

`CHECK_DEADLOCK FALSE` is set where the system ends: a snapshot that is done,
processes that have exited, calls that were refused or have opened their
database, a passphrase that has been read, a configuration that is made. The
reader, the sources and the registry never end, and deadlock is checked.

Fairness. `SqlCipherReader!FairSpec` has weak fairness of the reader's own steps:
a call runs on the caller's thread and every access to the source ends, well or
badly. `WalSnapshot!FairSpec` has it of the caller's steps once the input is
open. `PassphraseLine!FairSpec` has it of `Read`: interruptions end and a read
then returns. `FileSource!Fairness` has it of each thread's own steps: threads
are scheduled and the system answers. Nothing is assumed of writers, damage,
other programs or the caller's next call. `Commands`, `Preflight`, `Registry`
and `CipherArgs` check safety only and have no fairness.

### Findings

`main` returns silently for every error that is an `io::Error` of kind
`BrokenPipe` (`veilite-cli/src/main.rs:601-615`), and `path_io_error` and
`cleanup_failed_export` keep the kind of what failed. Exit code 0 is therefore
also that of a command whose input could not be opened, or whose export could
not be created, written (main-only; the errors of `visit_pages` are wrapped),
synced or removed, if the system reported a broken pipe. The repository's
README says that in WAL mode "Authentication and I/O errors fail the operation."
(`src/README.md:29-30`). `wal_errors` checks this as `IoErrorsFail` and violates
it: a page cannot be read, the removal of the file fails with a broken pipe,
and the export exits with 0, its file in place and no warning printed. A broken
pipe of a regular file is rare, but nothing in the code tells it from that of
stdout. The other properties of `Commands` therefore name the broken pipe
(`PipeBroke`) as their exception, and hold with it.

### What the properties do not say

* `SuccessIsInPlace` and the entry part of `ExistingFilesUntouched` hold while no
  other program touches the output path. Cleanup removes by path, so if
  another program unlinks an export's file and a second export creates its own,
  the failure of the first removes the second's file.
* A process killed in the middle of an export leaves its partial file. Later
  exports do not touch it (`ExistingFilesUntouched`), and fail because of it. A
  report that cannot be written to stdout makes a complete export fail with the
  whole file left in place. `NoSilentLeftovers` says exactly this much. That a
  message may be lost because stderr is closed is not modelled.
* What ends the read transaction is Turso: `Drop` of `WalSnapshot` asks for a
  `ROLLBACK` and ignores its result, and a page count that is rejected after
  `BEGIN` only drops the connection. `InputIsReleased` says that a visit gets
  there, not what Turso does then.
* The connections in `WalSnapshot` have a WAL. Those to a main file alone, whose
  codec has no `wal_page_limit`, are in `Registry`, which reads no pages after
  the first.
* After a loss of power the directory entry may be lost, since only the file is
  synced; `SuccessMeansComplete` is about its content.
* The checks of names do not lock anything, as their comments say. While other
  programs change the directory, `Preflight` promises something only about
  companions that stay; one that appears after it was looked for is not seen.
  `StandingCompanionsRefuse` and the like also need the canonical main file
  itself to stay, and `WalIsRequiredAndUnambiguous` the WALs it compares.
* Replacing a file in use breaks the contract of the connections. If the new
  database has a salt of its own, the identity of the codec keeps callers of
  the two apart. If it is a newer or restored copy of the same database, or the
  same one after a rekey, which keeps the salt, it does not: a caller that
  authenticates the copy joins the old database of the registry, even with a
  passphrase that is not the old one's. `ServedWhatTheyAuthenticated` and
  `OnlyKeyHoldersAreServed` have this as their one exception (`overwritten`), which
  ends when nobody reads the file any more who authenticated it before, and say
  that configuration and salt agree even then. TLC violates both properties
  without the exception.
* A read of no bytes behind the end is an error of `SliceSource` and a success of
  `FileSource`. `ReadExact` permits both; the reader makes no such read.
* Errors no caller in the repository can get are left out: offsets beyond `u64`
  inside one range and platforms without positioned reads in `FileSource`,
  buffers of another length than a page in `PageDecryptor`.

## Proofs

`SqlCipherReader_proofs` proves, for every page size, source, bound, number of
changes and sequence of calls:

* `ReaderInvariant`: `Spec => []ReaderInv`;
* `TypeCorrectness`: `Spec => []TypeOK`;
* `Clearing`: `Spec => []FailedCallsAreCleared`;
* `ScratchClearing`: `Spec => []ScratchIsCleared`;
* `Authenticity`: `Spec => []OnlyAuthenticatedPages`;
* `ReaderImplementsContract`: `MaxRewrites = 0 /\ Spec => RefinesAuthenticatedRead`.

The assumptions are those of the modules: the layout of a page
(`LayoutAssumption`), distinct names (`NamesAssumption`), stored pages are pages
(`StoredAssumption`), and `U32Max * PageSize <= U64Max` (`BoundsAssumption`),
which is true of 32-bit page numbers, 64-bit offsets and pages of at most 64 KiB.

None of the properties is inductive. That a successful answer holds only
authenticated bytes depends on what the loop has done before, so `ReaderInv`
adds: which call and result go with which step (`ControlInv`); for the direct
path, that the page read is the one asked for (`DirectInv`); for the loop, that
the cursor is the start of the range plus the bytes delivered, that it stands at
a page start except at the beginning or the end, and that the bytes delivered so
far are authenticated page by page (`LoopInv`); and that the buffer being worked
on holds one page as read, or one page as decrypted (`BufferInv`). The step that
matters is `Copy`: the new bytes come from one page, and no byte delivered
before lies in that page, because the cursor stood at its start. This rests on
lemmas about division (`DivMod`, `DivUnique`, `SamePage`, `EarlierPage`). There
is one lemma per action.

The last theorem is about sources that keep the contract of `ReadAt`, that is,
do not change while a reader stands on them. `AuthenticatedRead` answers a call in
one step, the reader in as many as there are pages; so the proof needs to know,
beside `ReaderInv`, that what a call in progress holds belongs to the one image
(`ImageInv`): the opened reader has the size of the source (`OpenedInv`); the
bytes delivered so far are those of the image and its pages up to there are
genuine (`DeliveredUpTo`); the buffer being worked on is the page of the source,
as stored or decrypted. Every step but the opening, the start of a call, its
answer and the taking of the answer is then a stutter. That a success is
justified is `DeliveredUpTo` for the whole range; that a failure blames the right
page is `EarlierPagesGenuine`: the cursor never goes back (`LaterPage`), so every
touched page before the one being decrypted was found genuine. `CopiedBytes` and
`DirectPositions` give the place of each byte. There is again one lemma per
action.

`INVARIANT ReaderInv` added to a configuration checks it on the instance,
`INVARIANT ImageInv` on that of `reader_contract`; the same is true of
`SnapshotInv`, `CrashInv`, `CommandsInv`, `PreflightInv` and `ArgsInv` below.

`Commands_proofs` proves, for any number of processes and pages, and any number
of kills, losses of power and changes at the path:

* `CommandsInvariant`: `Spec => []CommandsInv`;
* `CommandsTypeCorrectness`: `Spec => []TypeOK`;
* `CompleteOnSuccess`: `Spec => []SuccessMeansComplete`;
* `InPlaceOnSuccess`: `Spec => []SuccessIsInPlace`;
* `LeftoversAreReported`: `Spec => []NoSilentLeftovers`;
* `ForeignFilesUntouched`: `Spec => ExistingFilesUntouched`.

They assume only `CommandsAssumption`: at least one page, and names that differ.
`CommandsInv` adds what the properties need of the steps before: a process
writes only to the file it created (`FileInv`); while pages are written, the
file holds exactly the pages read so far, from `sync` on the whole image, from
`report` on durably (`ContentInv`); while nobody else changes the path, it leads
to the file of an export that has one, so that no two of them have one
(`PathInv`); and a process has met no error before the step in which its work
ends (`ErrorInv`). The four are `ProcessInv` of each process. The steps that matter are `ExportPage`, which extends the image by
its next page (`NextPage`), `CleanupFailedExport`, whose removal by path can
only hit the process's own file as long as `PathInv` has force, and `PowerLoss`,
which spares what was synced.

`WalSnapshot_proofs` proves, for any history of commits, spilled frames and
rollbacks, any number of crashes and forgeries, before and during the visit:

* `SnapshotInvariant`: `Spec => []SnapshotInv`;
* `SnapshotTypeCorrectness`: `Spec => []TypeOK`;
* `LastCommitIsDelivered`: `Spec => []DeliversLastCommit`;
* `SuccessDeliversAll`: `Spec => []SuccessIsComplete`;
* `CommittedImagesAdmitted`: `Spec => []BoundAdmitsCommittedImages`;
* `AuthenticDelivery`: `Spec => []OnlyAuthenticatedPagesDelivered`;
* `AuthenticSelection`: `Spec => []SuccessAuthenticatesSelection`;
* `FailureIsFinal`: `Spec => NothingAfterFailure`;
* `CrashInvariant`: `Spec => []CrashInv`;
* `SnapshotImplementsCommitted`:
  `MaxForgeries = 0 /\ MaxLate = 0 /\ Spec => RefinesCommittedSnapshot`.

They assume `LayoutAssumption`, `NamesAssumption`, the shape of page contents
(`WalFilesAssumption`) and that images have at most `U32Max` pages
(`SnapshotAssumption`), since page numbers are `u32`. Three parts carry the argument.

* The files. `RecoveryInv` says, as long as nothing was forged, that the frames
  up to the end of each commit, over the main file, hold the image of that
  commit, that the frames with a commit mark are the ends of commits, and that
  an open transaction's frames hold what it has written. `WriteFrame` keeps it because the frame
  goes behind the last commit (`TxInv`) and replaces one page (`NextFrame`); a
  crash, because the frames it leaves are those that were written
  (`CrashRecovery`).
* The selection. Valid frames are a prefix of the WAL (`ValidPrefix`), so the
  surviving commits are the first ones (`SurvivingPrefix`), the frame Turso
  commits at is the end of the last of them (`SelectedCommit`), and the selection
  holds its image (`Recovered`).
* The bound. A page the main file does not have is in a frame, and two pages are
  not in one frame, so the image has at most as many pages as main file and WAL
  together (`FramesBoundPages`, by counting an injection). The WAL's size gives
  the number of its frames whatever tail follows them (`WalPagesOfFrames`).

`SnapshotInv` joins them to the visit: which status and deliveries
go with which step (`StepInv`), that `index` and `count` are those of the
selection and what was delivered is its pages (`DeliveryInv`), that the bounds
are those of the files (`LimitInv`).

The last theorem says what the others say of single states of whole behaviours,
for files that are written and may crash but are not forged, and do not change
while they are read. The log of `CommittedSnapshot` is `Recoverable`: the images
committed so far, up to those that survive. `SnapshotInv` is not enough for it.
That a caller is admitted or refused by the key alone needs the main file to be
as the writer left it, and that a commit is one step of the log needs
every frame before it to be valid until there is a crash; both are `CrashInv`.
Then the last frame of a transaction is `Commit` and every other step of the writer
a stutter (`WritingRefines`); damage makes the valid prefix shorter or leaves it,
so the surviving commits are fewer or the same (`CrashingRefines`); `Visit` is
`Deliver` because the page it reads is the next one of the last image
(`VisitRefines`); and neither `MainStatus` nor `CheckCount` ever refuses such
files (`MainIsWhole`, `ConnectRefines`).

`Preflight_proofs` proves, for any paths, any directory and links, any number of
changes and all five calls:

* `PreflightInvariant`: `Spec => []PreflightInv`;
* `PreflightTypeCorrectness`: `Spec => []TypeOK`;
* `Acceptance`: `Spec => []AcceptsTheDocumented`;
* `StandingCompanions`: `Spec => []StandingCompanionsRefuse`;
* `WalRequired`: `Spec => []WalIsRequiredAndUnambiguous`;
* `InspectSees`: `Spec => []InspectSeesStandingCompanions`;
* `FollowToTheEnd`: following the links from a name gives the end of their chain,
  however long it is.

They assume `PreflightAssumption`: finitely many paths, kinds of entries that
differ from names, and links that lead to names with the same suffix. Two things
need an argument.

* The steps behind a call. What a call knows depends on the steps it has passed,
  so `PreflightInv` says of each kind of step what holds once it is `Passed`: no
  companion found absent was there throughout (`CompanionInv`), the canonical
  main file is no link unless it was replaced (`MainInv`), the WAL beside the
  alias leads where the main WAL does unless a WAL was changed (`AliasInv`), and,
  in a directory that stays, everything a step has found still holds and every
  refusal has its documented reason (`AcceptInv` with `Holds`). There is one lemma
  for steps that only go on (`AdvanceStep`), and one each for those that refuse,
  fix the canonical path, leave out the probes of an alias without a WAL, or
  change the directory. That the companions of a property were probed at all
  before the call ended is read off the programs, written out in one lemma each.
* Links. `FollowIn` is a recursive function; `FollowIsChain` shows that it is the
  end of the chain of as many links as there are paths, and chains are unique
  (`ChainUnique`). A chain that ends has passed distinct names before its end
  (`FollowToTheEnd`), so one with more links than there are paths is a loop, and the
  bound loses nothing: the model's resolution is that of chains of any length.

`CipherArgs_proofs` proves, for any values of the options:

* `ArgsInvariant`: `Spec => []ArgsInv`;
* `ArgsTypeCorrectness`: `Spec => []TypeOK`;
* `NoOptionIgnored`: `Spec => []NoOptionIsIgnored`;
* `SupportedConfigured`: `Spec => []SupportedValuesAreConfigured`;
* `LayoutSound`: `Spec => []LayoutIsSound`;
* `AcceptedLayout`: a configuration that `CipherConfig::new` accepts has the layout
  that `PageDecryptor` assumes of a page (`LayoutAssumption` with a salt of 16
  bytes), and what is decrypted is whole blocks.

They assume `ArgsAssumption` and `IterationsAssumption`, of which the latter
makes the presets acceptable. The invariant says that `config` sees only what the parser accepts, and
makes the configuration described (`Described`) or fails because
`CipherConfig::new` does; that what the parser accepts is a preset alone or all
four options is `AcceptedModes`, which is why the other arms of `config` are
never reached. The sizes are computed in `PageSizeFacts` and `ReserveFacts`; that `new` accepts
the supported values and no others is `AcceptedMeansSupported`. With
`AcceptedLayout` the assumption under which the reader and the snapshot are
proved is one that the options establish.

`Registry_proofs` proves, for any number of callers, files and links, any way
the registry tells files apart, and any number of replacements:

* `RegistryTypeCorrectness`: `Spec => []TypeOK`;
* `OnlyKeyHolders`: `Spec => []OnlyKeyHoldersAreServed`;
* `ServedAsAuthenticated`: `Spec => []ServedWhatTheyAuthenticated`;
* `OwnWal`: `Spec => []ServedFromTheirOwnWal`;
* `RefusalsAreConflicts`: `Spec => RefusedOnlyOnConflict`.

They assume `RegistryAssumption` and `NamesAssumption`. The invariant `IInv` adds
that a codec is the one its caller's request and the database it saw give
(`Authenticated`, with `CallerState`), that while a caller holds a codec of a file
that was not overwritten the file holds the database it saw or one with another
salt (`Fresh`), that the callers that have seen databases of one such file and
one salt have seen the same (`Agree`), that a user of a database has its identity
in his codec and saw its configuration and salt, and its image if the file was
not overwritten (`Served`), and that a database is there exactly while it has
users and indexes the WAL its identity names (`Owned`). `Fresh` is needed for the
step in which `OpenDatabase` reads the file itself, after somebody may have
replaced it: only a database with the keys of the codec can be opened, and that
is the one that was seen. `Agree` is needed when a caller joins a database: equal
identities have equal salts, so it is the one this caller has seen. A file stops
being `overwritten` only when nobody is left who has authenticated it, and then
nothing is said of anybody (`ForgetKeepsOverwritten`).

`FileSource_proofs` proves `FileSourceImplementsReadExact`: `Spec => RefinesReadExact`,
for any number of threads and any sizes, from `SourceAssumption`. The invariant
says that the filled part of the output holds the bytes at their places
(`Filled`), whatever the cursor is; every pass of the loop but the last is then a
stutter of `ReadExact`, and the last is its `Return`.

`PassphraseLine_proofs` proves `PassphraseIsFirstLine`: `Spec => []ReadsFirstLine`
and `ReadingStops`: `Spec => []StopsAtLineFeed`, for any alphabet, chunk size and
file, from `PassphraseAssumption`. The invariant says that while reading, the
passphrase is what has been consumed of the file, and has no line feed in it.

Only model-checked: the liveness properties `EveryCallReturns`,
`InputIsReleased`, `ReadingEnds` and `EveryReadReturns`, which rest on fairness
and are beyond the prover. Every invariant, action property and refinement that
a passing run checks is also stated by a theorem.

## Plan

Done: the reader and its contract, the WAL snapshot and its contract, the
commands, the checks of names, connections through the registry, sources,
passphrase and options, and proofs of all their safety properties and of the
three refinements. What is left, in this order:

1. An abstract specification of `Registry`, callers with keys over one database
   each, and the proof that the registry implements it.
2. The refinement of `CommittedSnapshot` for files that are forged: the pages
   delivered are those of the selection, which no writer may have committed.

## Not modelled

Subcommands, paths and flags that are only handed on; the lines `inspect` prints
other than those about companions; prompting for a passphrase on a terminal (a
library); SQL execution, schema restrictions and caches inside Turso (another
project); the cryptographic primitives; memory that the allocator or the
operating system copies; wording of errors. They keep no state of veilite's, or
belong to other programs.
