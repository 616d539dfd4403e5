------------------------------ MODULE WalFiles ------------------------------
(***************************************************************************)
(* A main database file and its write-ahead log, as a SQLCipher writer     *)
(* leaves them and as Turso selects an image from them.  Both are external *)
(* to the repository; they are modelled from the fixtures the tests are    *)
(* built on (tests/fixtures/wal/generate.py), from the damage the tests    *)
(* do to them (tests/wal.rs) and from what veilite-turso relies on.        *)
(*                                                                         *)
(* The writer commits transactions of one or more frames, spills frames of *)
(* transactions it has not committed, rolls back, and overwrites the tail  *)
(* a rollback left behind.  It never checkpoints (wal_autocheckpoint = 0). *)
(* Afterwards the files may be damaged: by a crash that loses the end of   *)
(* the WAL or breaks a checksum, which recovery is made for, or by changes *)
(* that keep the checksums and which only page authentication can detect.  *)
(***************************************************************************)
EXTENDS PageDecryptor, SequencesExt

CONSTANTS
  WriterKeys,   \* the keys of the database
  MaxPages,     \* bound: pages of an image
  MaxCommits,   \* bound: commits in the WAL
  MaxFrames,    \* bound: frames in the WAL
  MaxCrashes,   \* bound: losses a crash causes
  MaxForgeries  \* bound: changes that keep the checksums

\* A page's data is the commit that wrote it and, in page 1, the size of the
\* database in pages, which its header records.
ASSUME WalFilesAssumption ==
  /\ WriterKeys \in Keys
  /\ Data = [version : 0 .. MaxCommits, size : 0 .. MaxPages]
  /\ MaxPages \in Nat \ {0} /\ MaxCommits \in Nat
  /\ MaxFrames \in Nat /\ MaxCrashes \in Nat /\ MaxForgeries \in Nat

VARIABLES
  main,         \* whole pages of the main file
  main_rest,    \* TRUE if an incomplete page follows them
  wal,          \* whole frames of the WAL
  wal_rest,     \* TRUE if an incomplete frame follows them
  wal_header,   \* "whole", or "cut" when the WAL ends inside its header
  tx,           \* the writer's open transaction
  history,      \* every image ever committed, the base image first
  ends,         \* for each commit in the WAL, the position of its last frame
  crashes,      \* losses since the writer stopped
  forgeries     \* changes to the files since the writer stopped

files == <<main, main_rest, wal, wal_rest, wal_header>>
fileVars == <<main, main_rest, wal, wal_rest, wal_header, tx, history, ends,
              crashes, forgeries>>

\* page_no and commit are the first two fields of a frame header; valid says
\* that salts and cumulative checksum fit the frames before this one.
Frames == [page_no : 1 .. MaxPages, page : PhysicalPages,
           commit : 0 .. MaxPages, valid : BOOLEAN]

NoTx == [size |-> 0, todo |-> {}, image |-> << >>, at |-> 0]

EncodeSqlitePageSize == IF PageSize = MaxPageSize THEN 1 ELSE PageSize

\* Page n as the writer encrypts it in commit v of an image of size pages.
Written(n, v, size) ==
  [keys |-> WriterKeys, no |-> n,
   data |-> [version |-> v, size |-> IF n = 1 THEN size ELSE 0],
   size |-> IF n = 1 THEN EncodeSqlitePageSize ELSE 0,
   reserve |-> IF n = 1 THEN ReserveSize ELSE 0]

BaseImage(size) == [n \in 1 .. size |-> Written(n, 0, size)]

FilesInit ==
  /\ \E size \in 1 .. MaxPages :
       main = BaseImage(size) /\ history = <<BaseImage(size)>>
  /\ main_rest = FALSE
  /\ wal = << >> /\ wal_rest = FALSE /\ wal_header = "whole"
  /\ tx = NoTx
  /\ ends = << >>
  /\ crashes = 0 /\ forgeries = 0

-----------------------------------------------------------------------------
(* The writer.                                                             *)

CommittedFrames == IF ends = << >> THEN 0 ELSE Last(ends)

\* A transaction rewrites the pages of todo.  A page the image did not have
\* must be among them, and page 1, whose header has the size, when it changes.
Begin(size, todo) ==
  LET old == Len(Last(history))
  IN
  /\ tx = NoTx
  /\ Len(ends) < MaxCommits
  /\ todo # {} /\ todo \subseteq 1 .. size
  /\ old + 1 .. size \subseteq todo
  /\ size # old => 1 \in todo
  /\ CommittedFrames + Cardinality(todo) <= MaxFrames
  /\ tx' = [size |-> size, todo |-> todo, at |-> CommittedFrames,
            image |-> [n \in 1 .. size |-> IF n <= old THEN Last(history)[n]
                                           ELSE Written(n, Len(ends) + 1, size)]]
  /\ UNCHANGED <<files, history, ends, crashes, forgeries>>

\* The next frame of the transaction goes after the last commit and over
\* whatever a rolled-back one left there, whose checksums no longer fit.
\* The last frame commits.
WriteFrame(n) ==
  LET page == Written(n, Len(ends) + 1, tx.size)
      last == tx.todo = {n}
      at == tx.at + 1
      frame == [page_no |-> n, page |-> page, valid |-> TRUE,
                commit |-> IF last THEN tx.size ELSE 0]
      stale == [k \in 1 .. Len(wal) - at |-> [wal[at + k] EXCEPT !.valid = FALSE]]
      image == [tx.image EXCEPT ![n] = page]
  IN
  /\ n \in tx.todo
  /\ wal' = Append(SubSeq(wal, 1, tx.at), frame) \o stale
  /\ IF last
     THEN /\ history' = Append(history, image)
          /\ ends' = Append(ends, at)
          /\ tx' = NoTx
     ELSE /\ tx' = [tx EXCEPT !.todo = @ \ {n}, !.image = image, !.at = at]
          /\ UNCHANGED <<history, ends>>
  /\ UNCHANGED <<main, main_rest, wal_rest, wal_header, crashes, forgeries>>

Rollback ==
  /\ tx # NoTx
  /\ tx' = NoTx
  /\ UNCHANGED <<files, history, ends, crashes, forgeries>>

Writing ==
  \/ \E size \in 1 .. MaxPages : \E todo \in SUBSET (1 .. size) : Begin(size, todo)
  \/ \E n \in 1 .. MaxPages : WriteFrame(n)
  \/ Rollback

-----------------------------------------------------------------------------
(* Damage.                                                                 *)

Crash ==
  /\ crashes < MaxCrashes
  /\ crashes' = crashes + 1
  /\ UNCHANGED <<tx, history, ends, forgeries>>

Forge ==
  /\ forgeries < MaxForgeries
  /\ forgeries' = forgeries + 1
  /\ UNCHANGED <<tx, history, ends, crashes>>

\* A crash keeps k whole frames and perhaps a part of the next one.
CutWal(k, rest) ==
  /\ Crash
  /\ k < Len(wal)
  /\ wal' = SubSeq(wal, 1, k)
  /\ wal_rest' = rest
  /\ UNCHANGED <<main, main_rest, wal_header>>

\* A crash keeps less than the WAL header.
CutWalHeader ==
  /\ Crash
  /\ wal_header = "whole"
  /\ wal' = << >> /\ wal_rest' = FALSE /\ wal_header' = "cut"
  /\ UNCHANGED <<main, main_rest>>

\* The checksum of frame k is wrong, so that of every later frame is too.
BreakChecksum(k) ==
  /\ Crash
  /\ k <= Len(wal) /\ wal[k].valid
  /\ wal' = [j \in DOMAIN wal |-> IF j < k THEN wal[j]
                                  ELSE [wal[j] EXCEPT !.valid = FALSE]]
  /\ UNCHANGED <<main, main_rest, wal_rest, wal_header>>

\* What a page can be replaced with: bytes no key authenticates, or any other
\* page these files hold.
Corrupt(n) == [Written(n, 0, 1) EXCEPT !.keys = NoKeys]

Forgeries ==
  {Corrupt(1)} \cup {main[i] : i \in DOMAIN main} \cup {wal[k].page : k \in DOMAIN wal}

\* Frame k is replaced and the checksum chain repaired.
ForgeFrame(k, page) ==
  /\ Forge
  /\ k <= Len(wal) /\ wal[k].page # page
  /\ wal' = [wal EXCEPT ![k].page = page]
  /\ UNCHANGED <<main, main_rest, wal_rest, wal_header>>

ForgeMain(n, page) ==
  /\ Forge
  /\ n <= Len(main) /\ main[n] # page
  /\ main' = [main EXCEPT ![n] = page]
  /\ UNCHANGED <<main_rest, wal, wal_rest, wal_header>>

CutMain(n, rest) ==
  /\ Forge
  /\ n < Len(main)
  /\ main' = SubSeq(main, 1, n)
  /\ main_rest' = rest
  /\ UNCHANGED <<wal, wal_rest, wal_header>>

Crashing ==
  \/ \E k \in 0 .. MaxFrames, rest \in BOOLEAN : CutWal(k, rest)
  \/ CutWalHeader
  \/ \E k \in 1 .. MaxFrames : BreakChecksum(k)

Forging ==
  \/ \E k \in 1 .. MaxFrames : \E page \in Forgeries : ForgeFrame(k, page)
  \/ \E n \in 1 .. MaxPages : \E page \in Forgeries : ForgeMain(n, page)
  \/ \E n \in 0 .. MaxPages, rest \in BOOLEAN : CutMain(n, rest)

-----------------------------------------------------------------------------
(* What Turso selects.                                                     *)

Greatest(S) == IF S = {} THEN 0 ELSE CHOOSE x \in S : \A y \in S : y <= x

ValidFrames ==
  Greatest({k \in DOMAIN wal : \A j \in 1 .. k : wal[j].valid})

\* The last frame of the last valid commit, 0 when there is none.
CommitFrame ==
  Greatest({k \in 1 .. ValidFrames : wal[k].commit # 0})

\* For each page the frame it is read from, 0 for the main file.
FrameIndex ==
  [n \in 1 .. MaxPages |-> Greatest({k \in 1 .. CommitFrame : wal[k].page_no = n})]

-----------------------------------------------------------------------------
(* What the writer promised: the image of the last commit all of whose     *)
(* frames, and the frames before them, survived.                           *)

SurvivingCommits ==
  Cardinality({c \in DOMAIN ends :
                 ends[c] <= Len(wal) /\ \A j \in 1 .. ends[c] : wal[j].valid})

LastCommittedImage == history[SurvivingCommits + 1]

-----------------------------------------------------------------------------
(* The inductive invariant of the files.                                   *)

Images == {image \in Seq(PhysicalPages) : Len(image) \in 1 .. MaxPages}

Transactions == [size : 0 .. MaxPages, todo : SUBSET (1 .. MaxPages),
                 image : Seq(PhysicalPages), at : 0 .. MaxFrames]

FilesInv ==
  /\ main \in Seq(PhysicalPages) /\ Len(main) <= MaxPages
  /\ wal \in Seq(Frames) /\ Len(wal) <= MaxFrames
  /\ history \in Seq(Images) /\ Len(history) = Len(ends) + 1
  /\ ends \in Seq(1 .. MaxFrames) /\ Len(ends) <= MaxCommits
  /\ \A b, c \in DOMAIN ends : b < c => ends[b] < ends[c]
  /\ wal_header = "cut" => wal = << >> /\ crashes > 0
  /\ crashes \in 0 .. MaxCrashes /\ forgeries \in 0 .. MaxForgeries
  /\ crashes = 0 => CommittedFrames <= Len(wal)

\* An open transaction has pages to write and room for them in the WAL.
TxInv ==
  /\ tx \in Transactions
  /\ tx # NoTx =>
       /\ tx.todo # {} /\ tx.todo \subseteq 1 .. tx.size
       /\ Len(tx.image) = tx.size
       /\ Len(ends) < MaxCommits
       /\ CommittedFrames <= tx.at /\ tx.at + Cardinality(tx.todo) <= MaxFrames
       /\ crashes = 0 => tx.at <= Len(wal)

\* The last of the first k frames of w that has page n, 0 if none has.
FrameOf(w, k, n) == Greatest({j \in 1 .. k : w[j].page_no = n})

\* The first k frames of w, over the main file m, hold these pages of image.
Holds(w, m, k, image, pages) ==
  \A n \in pages :
    IF FrameOf(w, k, n) # 0 THEN image[n] = w[FrameOf(w, k, n)].page
    ELSE n <= Len(m) /\ image[n] = m[n]

End(c) == IF c = 0 THEN 0 ELSE ends[c]

\* An image the writer may commit.
IsWritten(image, pages) ==
  /\ \A n \in pages : Genuine(WriterKeys, n, image[n])
  /\ 1 \in pages => image[1].data.size = Len(image)

\* As long as nothing was forged, the frames up to a commit that are there
\* hold the image of that commit, and what a transaction has written so far
\* holds the pages it has written.  Frames that commit are those of ends.
RecoveryInv ==
  forgeries = 0 =>
    /\ \A c \in 0 .. Len(ends) :
         LET image == history[c + 1]
         IN  /\ IsWritten(image, 1 .. Len(image))
             /\ End(c) <= Len(wal) => Holds(wal, main, End(c), image, 1 .. Len(image))
    /\ \A j \in DOMAIN wal : wal[j].commit # 0 <=> \E c \in DOMAIN ends : ends[c] = j
    /\ tx # NoTx /\ crashes = 0 =>
         /\ IsWritten(tx.image, (1 .. tx.size) \ tx.todo)
         /\ Holds(wal, main, tx.at, tx.image, (1 .. tx.size) \ tx.todo)
=============================================================================
