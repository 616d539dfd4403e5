------------------------- MODULE WalSnapshot_proofs -------------------------
(***************************************************************************)
(* The writer, crashes and forgeries keep FilesInv and TxInv; what Turso   *)
(* selects has its type.  As long as nothing was forged, what it selects   *)
(* from the main file and a WAL that a crash has cut or broken is the      *)
(* image of the last commit that survived.                                 *)
(*                                                                         *)
(* SnapshotInv is an inductive invariant of WalSnapshot, for any writer,   *)
(* any crashes and forgeries, before and while the files are read; the     *)
(* safety properties of the visit follow from it.  With CrashInv, which    *)
(* holds beside it, every step over files that are only written and crash  *)
(* is a step of CommittedSnapshot or is not seen there.                    *)
(***************************************************************************)
EXTENDS WalSnapshot, SequenceTheorems, FiniteSetTheorems,
        WellFoundedInduction, TLAPS

-----------------------------------------------------------------------------
(* Division and authentication.                                           *)

LEMMA DivMod ==
  ASSUME NEW a \in Nat
  PROVE  /\ a \div PageSize \in Nat
         /\ a % PageSize \in 0 .. PageSize - 1
         /\ a = PageSize * (a \div PageSize) + (a % PageSize)
  BY LayoutAssumption

LEMMA Times ==
  ASSUME NEW a \in Int, NEW b \in Int, NEW p \in Nat, a < b
  PROVE  p * a + p <= p * b
  BY SMT

\* Quotient and remainder are the only ones.
LEMMA DivUnique ==
  ASSUME NEW q \in Nat, NEW r \in 0 .. PageSize - 1,
         NEW a \in Nat, a = PageSize * q + r
  PROVE  a \div PageSize = q /\ a % PageSize = r
PROOF
  <1> DEFINE Q == a \div PageSize
  <1> DEFINE R == a % PageSize
  <1>1. Q \in Nat /\ R \in 0 .. PageSize - 1 /\ a = PageSize * Q + R
    BY DivMod
  <1>2. PageSize \in Nat
    BY LayoutAssumption
  <1> HIDE DEF Q, R
  <1>3. CASE Q < q
    <2>1. PageSize * Q + PageSize <= PageSize * q
      BY <1>1, <1>2, <1>3, Times
    <2> QED BY <2>1, <1>1, <1>2
  <1>4. CASE q < Q
    <2>1. PageSize * q + PageSize <= PageSize * Q
      BY <1>1, <1>2, <1>4, Times
    <2> QED BY <2>1, <1>1, <1>2
  <1>5. CASE q = Q
    BY <1>1, <1>2, <1>5 DEF Q, R
  <1> QED BY <1>1, <1>3, <1>4, <1>5

\* A page that decrypts was authenticated with these keys for this number.
LEMMA GenuineIsAuthentic ==
  ASSUME NEW k, NEW n, NEW pg, Genuine(k, n, pg)
  PROVE  pg.keys = k /\ pg.no = n
  BY DEF Genuine, DecryptError, VerifyPageHmac

-----------------------------------------------------------------------------
(* Greatest elements.                                                      *)

LEMMA LeastNatural ==
  ASSUME NEW T \in SUBSET Nat, T # {}
  PROVE  \E t \in T : \A u \in T : t <= u
PROOF
  <1>1. PICK t \in T : \A u \in T : ~(<<u, t>> \in OpToRel(<, Nat))
    BY NatLessThanWellFounded, WFMin, Zenon
  <1>2. \A u \in T : ~(u < t)
    BY <1>1, Zenon DEF OpToRel
  <1> QED BY <1>2

\* Every set of bounded naturals has the element Greatest chooses.
LEMMA GreatestProperties ==
  ASSUME NEW m \in Nat, NEW S \in SUBSET (1 .. m)
  PROVE  /\ Greatest(S) \in 0 .. m
         /\ S = {} <=> Greatest(S) = 0
         /\ S # {} => Greatest(S) \in S
         /\ \A x \in S : x <= Greatest(S)
PROOF
  <1>1. CASE S = {}
    BY <1>1 DEF Greatest
  <1>2. CASE S # {}
    <2> DEFINE T == {k \in 0 .. m : m - k \in S}
    <2>1. \A y \in S : m - y \in 0 .. m /\ m - (m - y) = y /\ m - y \in T
      <3> SUFFICES ASSUME NEW y \in S
                   PROVE  m - y \in 0 .. m /\ m - (m - y) = y /\ m - y \in T
        OBVIOUS
      <3>1. y \in 1 .. m
        OBVIOUS
      <3>2. m - y \in 0 .. m /\ m - (m - y) = y
        BY <3>1
      <3> QED BY <3>2
    <2>2. T \in SUBSET Nat /\ T # {}
      <3>1. PICK x \in S : TRUE
        BY <1>2
      <3>2. m - x \in T
        BY <2>1, <3>1
      <3>3. T \in SUBSET Nat
        OBVIOUS
      <3> HIDE DEF T
      <3> QED BY <3>2, <3>3
    <2>3. PICK t \in T : \A u \in T : t <= u
      <3> HIDE DEF T
      <3> QED BY <2>2, LeastNatural
    <2>4. t \in 0 .. m /\ m - t \in S /\ \A y \in S : t <= m - y
      BY <2>1, <2>3
    <2>5. \A y \in S : y <= m - t
      BY <2>4
    <2>6. \E x \in S : \A y \in S : y <= x
      BY <2>4, <2>5
    <2>7. Greatest(S) \in S /\ \A y \in S : y <= Greatest(S)
      BY <1>2, <2>6 DEF Greatest
    <2>8. Greatest(S) \in 1 .. m
      BY <2>7
    <2> QED BY <1>2, <2>7, <2>8
  <1> QED BY <1>1, <1>2

-----------------------------------------------------------------------------
(* Pages and frames.                                                       *)

LEMMA WrittenType ==
  ASSUME NEW n \in 1 .. MaxPages, NEW v \in 0 .. MaxCommits, NEW size \in 0 .. MaxPages
  PROVE  Written(n, v, size) \in PhysicalPages
  BY WalFilesAssumption, LayoutAssumption
     DEF Written, PhysicalPages, EncodeSqlitePageSize

LEMMA FrameFields ==
  ASSUME NEW f \in Frames
  PROVE  /\ f.page \in PhysicalPages /\ f.page_no \in 1 .. MaxPages
         /\ f.commit \in 0 .. MaxPages
  BY DEF Frames

LEMMA InvalidatedFrame ==
  ASSUME NEW f \in Frames
  PROVE  [f EXCEPT !.valid = FALSE] \in Frames
  BY DEF Frames

LEMMA ReplacedFrame ==
  ASSUME NEW f \in Frames, NEW page \in PhysicalPages
  PROVE  [f EXCEPT !.page = page] \in Frames
  BY DEF Frames

LEMMA NewFrame ==
  ASSUME NEW n \in 1 .. MaxPages, NEW page \in PhysicalPages, NEW c \in 0 .. MaxPages
  PROVE  [page_no |-> n, page |-> page, valid |-> TRUE, commit |-> c] \in Frames
  BY DEF Frames

\* A prefix of a sequence.
LEMMA Prefix ==
  ASSUME NEW S, NEW s \in Seq(S), NEW k \in 0 .. Len(s)
  PROVE  /\ SubSeq(s, 1, k) \in Seq(S) /\ Len(SubSeq(s, 1, k)) = k
         /\ \A i \in 1 .. k : SubSeq(s, 1, k)[i] = s[i]
PROOF
  <1>1. \A i \in 1 .. k : s[i] \in S
    OBVIOUS
  <1>2. 1 \in Int /\ k \in Int
    OBVIOUS
  <1>3. /\ SubSeq(s, 1, k) \in Seq(S)
        /\ Len(SubSeq(s, 1, k)) = IF 1 <= k THEN k - 1 + 1 ELSE 0
        /\ \A i \in 1 .. k - 1 + 1 : SubSeq(s, 1, k)[i] = s[1 + i - 1]
    BY <1>1, <1>2, SubSeqProperties
  <1> QED BY <1>3

LEMMA CommittedType ==
  ASSUME FilesInv
  PROVE  CommittedFrames \in 0 .. MaxFrames
  BY WalFilesAssumption DEF CommittedFrames, Last, FilesInv

\* No commit ends behind the last one.
LEMMA EndBound ==
  ASSUME FilesInv, NEW c \in 1 .. Len(ends)
  PROVE  ends[c] \in 1 .. MaxFrames /\ ends[c] <= CommittedFrames
PROOF
  <1>1. /\ Len(ends) \in 1 .. Len(ends) /\ ends # << >> /\ c \in DOMAIN ends
        /\ Len(ends) \in DOMAIN ends
    BY DEF FilesInv
  <1>2. CommittedFrames = ends[Len(ends)]
    BY <1>1 DEF CommittedFrames, Last
  <1>3. ends[c] \in 1 .. MaxFrames /\ ends[Len(ends)] \in 1 .. MaxFrames
    <2>1. ends \in Seq(1 .. MaxFrames)
      BY DEF FilesInv
    <2> QED BY <1>1, <2>1, ElementOfSeq
  <1>4. CASE c = Len(ends)
    BY <1>2, <1>3, <1>4, WalFilesAssumption
  <1>5. CASE c < Len(ends)
    <2>1. ends[c] < ends[Len(ends)]
      BY <1>1, <1>5 DEF FilesInv
    <2> QED BY <1>2, <1>3, <2>1, <1>1, CommittedType
  <1> QED BY <1>4, <1>5 DEF FilesInv

\* The committed image the next transaction starts from.
LEMMA LastImageType ==
  ASSUME FilesInv
  PROVE  /\ Last(history) \in Seq(PhysicalPages)
         /\ Len(Last(history)) \in 1 .. MaxPages
PROOF
  <1>1. Len(history) \in 1 .. Len(history)
    BY DEF FilesInv
  <1>2. Last(history) \in Images
    BY <1>1 DEF FilesInv, Last
  <1> QED BY <1>2 DEF Images

LEMMA NoTxType == NoTx \in Transactions
PROOF
  <1>1. << >> \in Seq(PhysicalPages)
    BY EmptySeq
  <1> QED BY <1>1, WalFilesAssumption DEF NoTx, Transactions

-----------------------------------------------------------------------------
(* The writer.                                                             *)

LEMMA FilesInitInv == FilesInit => FilesInv /\ TxInv
PROOF
  <1> SUFFICES ASSUME FilesInit PROVE FilesInv /\ TxInv
    OBVIOUS
  <1>1. PICK size \in 1 .. MaxPages :
          main = BaseImage(size) /\ history = <<BaseImage(size)>>
    BY DEF FilesInit
  <1>2. size \in Nat /\ size \in 0 .. MaxPages /\ 0 \in 0 .. MaxCommits
    BY WalFilesAssumption
  <1>3. \A n \in 1 .. size : Written(n, 0, size) \in PhysicalPages
    BY <1>2, WrittenType, WalFilesAssumption
  <1>4. BaseImage(size) \in Seq(PhysicalPages) /\ Len(BaseImage(size)) = size
    BY <1>2, <1>3 DEF BaseImage
  <1>5. BaseImage(size) \in Images
    BY <1>4 DEF Images
  <1>6. history \in Seq(Images) /\ Len(history) = 1
    BY <1>1, <1>5
  <1>7. wal \in Seq(Frames) /\ Len(wal) = 0 /\ ends \in Seq(1 .. MaxFrames) /\ Len(ends) = 0
    BY EmptySeq DEF FilesInit
  <1>8. CommittedFrames = 0
    BY DEF CommittedFrames, FilesInit
  <1>9. FilesInv
    BY <1>1, <1>4, <1>6, <1>7, <1>8, WalFilesAssumption DEF FilesInv, FilesInit
  <1>10. TxInv
    BY NoTxType DEF TxInv, FilesInit
  <1> QED BY <1>9, <1>10

LEMMA BeginInv ==
  ASSUME FilesInv, TxInv, NEW size \in 1 .. MaxPages, NEW todo \in SUBSET (1 .. size),
         Begin(size, todo)
  PROVE  FilesInv' /\ TxInv'
PROOF
  <1> DEFINE old == Len(Last(history))
             image == [n \in 1 .. size |-> IF n <= old THEN Last(history)[n]
                                           ELSE Written(n, Len(ends) + 1, size)]
  <1>1. UNCHANGED <<files, history, ends, crashes, forgeries>>
    BY DEF Begin
  <1>2. FilesInv'
    BY <1>1 DEF FilesInv, CommittedFrames, files
  <1>3. /\ tx' = [size |-> size, todo |-> todo, at |-> CommittedFrames, image |-> image]
        /\ Len(ends) < MaxCommits /\ todo # {}
        /\ CommittedFrames + Cardinality(todo) <= MaxFrames
    BY DEF Begin
  <1>4. Len(ends) + 1 \in 0 .. MaxCommits /\ size \in 0 .. MaxPages /\ size \in Nat
    BY <1>3, WalFilesAssumption DEF FilesInv
  <1>5. \A n \in 1 .. size : image[n] \in PhysicalPages
    <2> SUFFICES ASSUME NEW n \in 1 .. size PROVE image[n] \in PhysicalPages
      OBVIOUS
    <2>1. CASE n <= old
      BY <2>1, LastImageType
    <2>2. CASE ~(n <= old)
      <3>1. n \in 1 .. MaxPages
        BY WalFilesAssumption
      <3> QED BY <2>2, <3>1, <1>4, WrittenType
    <2> QED BY <2>1, <2>2
  <1>6. image \in Seq(PhysicalPages) /\ Len(image) = size
    BY <1>4, <1>5
  <1> HIDE DEF image, old
  <1>7. todo \in SUBSET (1 .. MaxPages)
    BY WalFilesAssumption
  <1>8. tx' \in Transactions
    BY <1>3, <1>4, <1>6, <1>7, CommittedType DEF Transactions
  <1>9. CommittedFrames' = CommittedFrames
    BY <1>1 DEF CommittedFrames
  <1>10. TxInv'
    BY <1>1, <1>3, <1>6, <1>8, <1>9, CommittedType DEF TxInv, FilesInv, files
  <1> QED BY <1>2, <1>10

LEMMA RollbackInv ==
  ASSUME FilesInv, TxInv, Rollback
  PROVE  FilesInv' /\ TxInv'
  BY NoTxType DEF Rollback, FilesInv, TxInv, CommittedFrames, files

\* The frame is written over the tail of a rolled-back never over
\* a commit; what it leaves of that tail is invalid.
LEMMA WriteFrameEffect ==
  ASSUME FilesInv, TxInv, crashes = 0, NEW n \in 1 .. MaxPages, WriteFrame(n)
  PROVE  LET at == tx.at + 1
             page == Written(n, Len(ends) + 1, tx.size)
         IN  /\ tx # NoTx /\ n \in tx.todo /\ tx.todo \subseteq 1 .. tx.size
             /\ tx.size \in 1 .. MaxPages /\ tx.at \in 0 .. Len(wal) /\ at \in 1 .. MaxFrames
             /\ CommittedFrames <= tx.at /\ Len(ends) < MaxCommits
             /\ tx.image \in Seq(PhysicalPages) /\ Len(tx.image) = tx.size
             /\ at + Cardinality(tx.todo \ {n}) <= MaxFrames
             /\ page \in PhysicalPages
             /\ wal' \in Seq(Frames) /\ Len(wal') \in at .. MaxFrames /\ Len(wal) <= Len(wal')
             /\ \A j \in 1 .. tx.at : wal'[j] = wal[j]
             /\ wal'[at] = [page_no |-> n, page |-> page, valid |-> TRUE,
                            commit |-> IF tx.todo = {n} THEN tx.size ELSE 0]
             /\ \A j \in at + 1 .. Len(wal') :
                  j \in 1 .. Len(wal) /\ wal'[j] = [wal[j] EXCEPT !.valid = FALSE]
PROOF
  <1> DEFINE page == Written(n, Len(ends) + 1, tx.size)
             last == tx.todo = {n}
             at == tx.at + 1
             frame == [page_no |-> n, page |-> page, valid |-> TRUE,
                       commit |-> IF last THEN tx.size ELSE 0]
             stale == [k \in 1 .. Len(wal) - at |-> [wal[at + k] EXCEPT !.valid = FALSE]]
             written == Append(SubSeq(wal, 1, tx.at), frame)
  <1>1. /\ tx # NoTx /\ n \in tx.todo /\ tx.todo \subseteq 1 .. tx.size
        /\ tx.size \in 1 .. MaxPages /\ tx.image \in Seq(PhysicalPages)
        /\ Len(tx.image) = tx.size /\ tx.at \in 0 .. MaxFrames
        /\ CommittedFrames <= tx.at /\ tx.at <= Len(wal)
        /\ tx.at + Cardinality(tx.todo) <= MaxFrames
        /\ Len(ends) < MaxCommits
    <2>1. n \in tx.todo /\ tx # NoTx
      BY DEF WriteFrame, NoTx
    <2>2. /\ tx.size \in 0 .. MaxPages /\ tx.image \in Seq(PhysicalPages)
          /\ tx.at \in 0 .. MaxFrames
      BY DEF TxInv, Transactions
    <2>3. n \in 1 .. tx.size
      BY <2>1 DEF TxInv
    <2>4. tx.size \in 1 .. MaxPages
      BY <2>2, <2>3, WalFilesAssumption
    <2> QED BY <2>1, <2>2, <2>4 DEF TxInv
  <1>2. /\ IsFiniteSet(tx.todo) /\ Cardinality(tx.todo) \in Nat /\ Cardinality(tx.todo) > 0
        /\ Cardinality(tx.todo \ {n}) = Cardinality(tx.todo) - 1
    <2>1. IsFiniteSet(1 .. tx.size)
      <3>1. 1 \in Int /\ tx.size \in Int
        BY <1>1, WalFilesAssumption
      <3> QED BY <3>1, FS_Interval
    <2>2. IsFiniteSet(tx.todo)
      BY <1>1, <2>1, FS_Subset
    <2>3. Cardinality(tx.todo) \in Nat
      BY <2>2, FS_CardinalityType
    <2>4. Cardinality(tx.todo) # 0
      BY <1>1, <2>2, FS_EmptySet
    <2>5. Cardinality(tx.todo \ {n}) = Cardinality(tx.todo) - 1
      BY <1>1, <2>2, FS_RemoveElement
    <2> QED BY <2>2, <2>3, <2>4, <2>5
  <1>3. at \in 1 .. MaxFrames /\ at <= MaxFrames /\ Len(wal) \in 0 .. MaxFrames
    <2>1. MaxFrames \in Nat /\ tx.at \in Nat /\ tx.at + Cardinality(tx.todo) <= MaxFrames
      BY <1>1, WalFilesAssumption
    <2>2. at \in 1 .. MaxFrames /\ at <= MaxFrames
      BY <1>2, <2>1
    <2>3. Len(wal) \in 0 .. MaxFrames
      BY <2>1 DEF FilesInv
    <2> QED BY <2>2, <2>3
  <1>4. page \in PhysicalPages
    <2>1. Len(ends) + 1 \in 0 .. MaxCommits
      BY <1>1, WalFilesAssumption DEF FilesInv
    <2> QED BY <1>1, <2>1, WrittenType
  <1>5. frame \in Frames
    <2> DEFINE c == IF last THEN tx.size ELSE 0
    <2>1. c \in 0 .. MaxPages
      BY <1>1, WalFilesAssumption
    <2> HIDE DEF c, page
    <2>2. [page_no |-> n, page |-> page, valid |-> TRUE, commit |-> c] \in Frames
      BY <1>4, <2>1, NewFrame
    <2> QED BY <2>2 DEF c
  <1>6. /\ written \in Seq(Frames) /\ Len(written) = at
        /\ \A j \in 1 .. tx.at : written[j] = wal[j]
        /\ written[at] = frame
    <2>1. /\ SubSeq(wal, 1, tx.at) \in Seq(Frames) /\ Len(SubSeq(wal, 1, tx.at)) = tx.at
          /\ \A j \in 1 .. tx.at : SubSeq(wal, 1, tx.at)[j] = wal[j]
      <3>1. wal \in Seq(Frames) /\ tx.at \in 0 .. Len(wal)
        BY <1>1, <1>3 DEF FilesInv
      <3> QED BY <3>1, Prefix
    <2> HIDE DEF frame
    <2> QED BY <1>1, <1>5, <2>1, AppendProperties
  <1>7. /\ stale \in Seq(Frames) /\ at + Len(stale) <= MaxFrames
        /\ Len(wal) <= at + Len(stale) /\ Len(stale) \in Nat
        /\ \A k \in 1 .. Len(stale) :
             at + k \in 1 .. Len(wal) /\ stale[k] = [wal[at + k] EXCEPT !.valid = FALSE]
    <2>1. CASE Len(wal) < at
      <3>1. stale = << >>
        BY <1>3, <2>1
      <3>2. stale \in Seq(Frames) /\ Len(stale) = 0
        BY <3>1, EmptySeq
      <3> HIDE DEF stale, at
      <3>3. Len(stale) \in Nat /\ at + Len(stale) = at
        BY <1>3, <3>2
      <3> QED BY <1>3, <2>1, <3>2, <3>3
    <2>2. CASE at <= Len(wal)
      <3>1. Len(wal) - at \in Nat
        BY <1>3, <2>2
      <3>2. \A k \in 1 .. Len(wal) - at : stale[k] \in Frames
        <4> SUFFICES ASSUME NEW k \in 1 .. Len(wal) - at
                     PROVE  [wal[at + k] EXCEPT !.valid = FALSE] \in Frames
          OBVIOUS
        <4>1. wal[at + k] \in Frames
          BY <1>3, <2>2 DEF FilesInv
        <4> QED BY <4>1, InvalidatedFrame
      <3>3. stale \in [1 .. Len(wal) - at -> Frames]
        BY <3>2
      <3> HIDE DEF stale, at
      <3>4. stale \in Seq(Frames) /\ Len(stale) = Len(wal) - at
        BY <3>1, <3>3
      <3>5. \A k \in 1 .. Len(stale) :
              at + k \in 1 .. Len(wal) /\ stale[k] = [wal[at + k] EXCEPT !.valid = FALSE]
        <4> SUFFICES ASSUME NEW k \in 1 .. Len(wal) - at
                     PROVE  /\ at + k \in 1 .. Len(wal)
                            /\ stale[k] = [wal[at + k] EXCEPT !.valid = FALSE]
          BY <3>4
        <4>1. at + k \in 1 .. Len(wal)
          BY <1>3, <2>2
        <4> QED BY <4>1 DEF stale
      <3> QED BY <1>3, <2>2, <3>1, <3>4, <3>5
    <2> HIDE DEF stale
    <2>3. Len(wal) < at \/ at <= Len(wal)
      BY <1>3
    <2> QED BY <2>1, <2>2, <2>3
  <1>8. wal' = written \o stale
    BY DEF WriteFrame
  <1> HIDE DEF written, stale, frame, page, at, last
  <1>9. /\ wal' \in Seq(Frames) /\ Len(wal') = at + Len(stale)
        /\ \A j \in 1 .. at + Len(stale) :
             wal'[j] = IF j <= at THEN written[j] ELSE stale[j - at]
    BY <1>6, <1>7, <1>8, ConcatProperties
  <1>10. Len(wal') \in at .. MaxFrames /\ Len(wal) <= Len(wal')
    BY <1>3, <1>7, <1>9, WalFilesAssumption
  <1>11. \A j \in 1 .. tx.at : wal'[j] = wal[j]
    <2> SUFFICES ASSUME NEW j \in 1 .. tx.at PROVE wal'[j] = wal[j]
      OBVIOUS
    <2>1. j \in 1 .. at + Len(stale) /\ j <= at
      BY <1>1, <1>3, <1>7 DEF at
    <2> QED BY <1>6, <1>9, <2>1
  <1>12. wal'[at] = frame
    <2>1. at \in 1 .. at + Len(stale)
      BY <1>3, <1>7
    <2> QED BY <1>3, <1>6, <1>9, <2>1
  <1>13. \A j \in at + 1 .. Len(wal') :
           j \in 1 .. Len(wal) /\ wal'[j] = [wal[j] EXCEPT !.valid = FALSE]
    <2> SUFFICES ASSUME NEW j \in at + 1 .. Len(wal')
                 PROVE  j \in 1 .. Len(wal) /\ wal'[j] = [wal[j] EXCEPT !.valid = FALSE]
      OBVIOUS
    <2>1. /\ j - at \in 1 .. Len(stale) /\ at + (j - at) = j
          /\ j \in 1 .. at + Len(stale) /\ ~(j <= at)
      BY <1>3, <1>7, <1>9
    <2>2. wal'[j] = stale[j - at]
      BY <1>9, <2>1
    <2> QED BY <1>7, <2>1, <2>2
  <1>14. at + Cardinality(tx.todo \ {n}) <= MaxFrames
    BY <1>1, <1>2, WalFilesAssumption DEF at
  <1>15. tx.at \in 0 .. Len(wal)
    BY <1>1, <1>3
  <1> QED BY <1>1, <1>3, <1>4, <1>9, <1>10, <1>11, <1>12, <1>13, <1>14, <1>15
          DEF at, page, frame, last

LEMMA WriteFrameInv ==
  ASSUME FilesInv, TxInv, crashes = 0, NEW n \in 1 .. MaxPages, WriteFrame(n)
  PROVE  FilesInv' /\ TxInv'
PROOF
  <1> DEFINE page == Written(n, Len(ends) + 1, tx.size)
             last == tx.todo = {n}
             at == tx.at + 1
             image == [tx.image EXCEPT ![n] = page]
  <1>1. /\ tx # NoTx /\ n \in tx.todo /\ tx.todo \subseteq 1 .. tx.size
        /\ tx.size \in 1 .. MaxPages /\ tx.at \in 0 .. Len(wal) /\ at \in 1 .. MaxFrames
        /\ CommittedFrames <= tx.at /\ Len(ends) < MaxCommits
        /\ tx.image \in Seq(PhysicalPages) /\ Len(tx.image) = tx.size
        /\ at + Cardinality(tx.todo \ {n}) <= MaxFrames
        /\ page \in PhysicalPages
        /\ wal' \in Seq(Frames) /\ Len(wal') \in at .. MaxFrames /\ Len(wal) <= Len(wal')
    BY WriteFrameEffect
  <1>2. at <= Len(wal') /\ Len(wal') <= MaxFrames /\ Len(wal) \in Nat
    BY <1>1 DEF FilesInv
  <1> HIDE DEF page
  <1>3. image \in Seq(PhysicalPages) /\ Len(image) = tx.size
    BY <1>1
  <1> HIDE DEF image
  <1>4. UNCHANGED <<main, wal_header, crashes, forgeries>> /\ wal_header # "cut"
    BY DEF WriteFrame, FilesInv
  <1>5. CASE last
    <2>1. history' = Append(history, image) /\ ends' = Append(ends, at) /\ tx' = NoTx
      BY <1>5 DEF WriteFrame, image, page
    <2>2. image \in Images
      BY <1>1, <1>3 DEF Images
    <2>3. history' \in Seq(Images) /\ Len(history') = Len(history) + 1
      BY <2>1, <2>2, AppendProperties DEF FilesInv
    <2>4. /\ ends' \in Seq(1 .. MaxFrames) /\ Len(ends') = Len(ends) + 1
          /\ \A c \in 1 .. Len(ends) : ends'[c] = ends[c]
          /\ ends'[Len(ends) + 1] = at
      <3>1. ends \in Seq(1 .. MaxFrames) /\ at \in 1 .. MaxFrames
        BY <1>1 DEF FilesInv
      <3> HIDE DEF at
      <3> QED BY <2>1, <3>1, AppendProperties
    <2>5. \A b, c \in 1 .. Len(ends') : b < c => ends'[b] < ends'[c]
      <3> SUFFICES ASSUME NEW b \in 1 .. Len(ends) + 1, NEW c \in 1 .. Len(ends) + 1, b < c
                   PROVE  ends'[b] < ends'[c]
        BY <2>4
      <3>1. CASE c \in 1 .. Len(ends)
        <4>1. b \in DOMAIN ends /\ c \in DOMAIN ends /\ b \in 1 .. Len(ends)
          BY <3>1 DEF FilesInv
        <4>2. ends[b] < ends[c]
          BY <4>1 DEF FilesInv
        <4> QED BY <2>4, <3>1, <4>1, <4>2
      <3>2. CASE c = Len(ends) + 1
        <4>1. b \in 1 .. Len(ends)
          BY <3>2 DEF FilesInv
        <4>2. ends[b] <= CommittedFrames
          BY <4>1, EndBound
        <4>3. ends'[b] = ends[b] /\ ends'[c] = at
          BY <2>4, <3>2, <4>1
        <4>4. ends[b] \in 1 .. MaxFrames
          BY <4>1, EndBound
        <4> QED BY <1>1, <4>2, <4>3, <4>4, CommittedType, WalFilesAssumption
      <3> QED BY <3>1, <3>2 DEF FilesInv
    <2>6. CommittedFrames' = at
      <3>1. ends' # << >>
        BY <2>4 DEF FilesInv
      <3> QED BY <2>4, <3>1 DEF CommittedFrames, Last
    <2>7. FilesInv'
      <3>1. Len(ends') <= MaxCommits /\ Len(history') = Len(ends') + 1 /\ DOMAIN ends' = 1 .. Len(ends')
        BY <1>1, <2>3, <2>4, WalFilesAssumption DEF FilesInv
      <3>2. /\ main' \in Seq(PhysicalPages) /\ Len(main') <= MaxPages
            /\ crashes' \in 0 .. MaxCrashes /\ forgeries' \in 0 .. MaxForgeries
        BY <1>4 DEF FilesInv
      <3>3. CommittedFrames' <= Len(wal')
        BY <1>2, <2>6
      <3>4. \A b, c \in DOMAIN ends' : b < c => ends'[b] < ends'[c]
        BY <2>5, <3>1
      <3>5. wal' \in Seq(Frames) /\ Len(wal') <= MaxFrames /\ wal_header' # "cut"
        BY <1>1, <1>2, <1>4
      <3> HIDE DEF at
      <3> QED BY <2>3, <2>4, <3>1, <3>2, <3>3, <3>4, <3>5 DEF FilesInv
    <2>8. TxInv'
      BY <2>1, NoTxType DEF TxInv
    <2> QED BY <2>7, <2>8
  <1>6. CASE ~last
    <2>1. /\ tx' = [tx EXCEPT !.todo = @ \ {n}, !.image = image, !.at = at]
          /\ UNCHANGED <<history, ends>>
      BY <1>6 DEF WriteFrame, image, page
    <2>2. CommittedFrames' = CommittedFrames
      BY <2>1 DEF CommittedFrames
    <2>3. FilesInv'
      BY <1>1, <1>2, <1>4, <2>1, <2>2, CommittedType DEF FilesInv
    <2>4. /\ tx'.todo = tx.todo \ {n} /\ tx'.image = image /\ tx'.at = at
          /\ tx'.size = tx.size /\ tx' \in Transactions
      <3>1. tx \in Transactions
        BY DEF TxInv
      <3>2. /\ tx.todo \ {n} \in SUBSET (1 .. MaxPages) /\ image \in Seq(PhysicalPages)
            /\ at \in 0 .. MaxFrames
        BY <1>1, <1>3, <3>1, WalFilesAssumption DEF Transactions
      <3> HIDE DEF at
      <3> QED BY <2>1, <3>1, <3>2 DEF Transactions
    <2>5. tx'.todo # {} /\ tx'.todo \subseteq 1 .. tx'.size
      BY <1>1, <1>6, <2>4
    <2>6. at + Cardinality(tx.todo \ {n}) <= MaxFrames
      BY <1>1
    <2>7. TxInv'
      BY <1>1, <1>2, <1>3, <1>4, <2>1, <2>2, <2>4, <2>5, <2>6, CommittedType DEF TxInv
    <2> QED BY <2>3, <2>7
  <1> QED BY <1>5, <1>6

-----------------------------------------------------------------------------
(* Damage.  From the first crash on the WAL may be shorter than a commit.  *)

LEMMA CutWalInv ==
  ASSUME FilesInv, TxInv, NEW k \in 0 .. MaxFrames, NEW rest \in BOOLEAN, CutWal(k, rest)
  PROVE  FilesInv' /\ TxInv'
PROOF
  <1>1. k \in 0 .. Len(wal) /\ wal \in Seq(Frames) /\ Len(wal) <= MaxFrames
    BY WalFilesAssumption DEF CutWal, FilesInv
  <1>2. wal' \in Seq(Frames) /\ Len(wal') = k
    BY <1>1, Prefix DEF CutWal
  <1>3. crashes' = crashes + 1 /\ crashes' \in 1 .. MaxCrashes
        /\ UNCHANGED <<main, tx, history, ends, forgeries>>
    BY WalFilesAssumption DEF CutWal, Crash, FilesInv
  <1>4. FilesInv'
    <2>1. wal_header' # "cut"
      BY EmptySeq DEF CutWal, FilesInv
    <2> QED BY <1>1, <1>2, <1>3, <2>1, WalFilesAssumption DEF FilesInv, CommittedFrames
  <1>5. TxInv'
    BY <1>3 DEF TxInv, CommittedFrames
  <1> QED BY <1>4, <1>5

LEMMA CutWalHeaderInv ==
  ASSUME FilesInv, TxInv, CutWalHeader
  PROVE  FilesInv' /\ TxInv'
PROOF
  <1>1. wal' \in Seq(Frames) /\ Len(wal') = 0
    BY EmptySeq DEF CutWalHeader
  <1>2. crashes' = crashes + 1 /\ crashes' \in 1 .. MaxCrashes
        /\ UNCHANGED <<main, tx, history, ends, forgeries>>
    BY WalFilesAssumption DEF CutWalHeader, Crash, FilesInv
  <1>3. FilesInv'
    BY <1>1, <1>2, WalFilesAssumption DEF FilesInv, CommittedFrames
  <1>4. TxInv'
    BY <1>2 DEF TxInv, CommittedFrames
  <1> QED BY <1>3, <1>4

LEMMA BreakChecksumInv ==
  ASSUME FilesInv, TxInv, NEW k \in 1 .. MaxFrames, BreakChecksum(k)
  PROVE  FilesInv' /\ TxInv'
PROOF
  <1>1. wal' = [j \in DOMAIN wal |-> IF j < k THEN wal[j]
                                     ELSE [wal[j] EXCEPT !.valid = FALSE]]
    BY DEF BreakChecksum
  <1>2. wal \in Seq(Frames) /\ DOMAIN wal = 1 .. Len(wal) /\ Len(wal) \in Nat
    BY DEF FilesInv
  <1>3. \A j \in 1 .. Len(wal) : wal'[j] \in Frames
    <2> SUFFICES ASSUME NEW j \in 1 .. Len(wal) PROVE wal'[j] \in Frames
      OBVIOUS
    <2>1. wal[j] \in Frames
      BY <1>2
    <2> QED BY <1>1, <1>2, <2>1, InvalidatedFrame
  <1>4. wal' \in [1 .. Len(wal) -> Frames]
    BY <1>1, <1>2, <1>3
  <1>5. wal' \in Seq(Frames) /\ Len(wal') = Len(wal)
    BY <1>2, <1>4
  <1>6. crashes' = crashes + 1 /\ crashes' \in 1 .. MaxCrashes
        /\ UNCHANGED <<main, tx, history, ends, forgeries>>
    BY WalFilesAssumption DEF BreakChecksum, Crash, FilesInv
  <1>7. FilesInv'
    <2>1. wal_header' # "cut"
      BY EmptySeq DEF BreakChecksum, FilesInv
    <2> QED BY <1>5, <1>6, <2>1 DEF FilesInv, CommittedFrames
  <1>8. TxInv'
    BY <1>6 DEF TxInv, CommittedFrames
  <1> QED BY <1>7, <1>8

LEMMA ForgeriesType ==
  ASSUME FilesInv, NEW page \in Forgeries
  PROVE  page \in PhysicalPages
PROOF
  <1>1. CASE page = Corrupt(1)
    <2>1. Written(1, 0, 1) \in PhysicalPages
      BY WrittenType, WalFilesAssumption
    <2> QED BY <1>1, <2>1 DEF Corrupt, PhysicalPages
  <1>2. CASE page \in {main[i] : i \in DOMAIN main}
    BY <1>2 DEF FilesInv
  <1>3. CASE page \in {wal[k].page : k \in DOMAIN wal}
    <2>1. PICK k \in DOMAIN wal : page = wal[k].page
      BY <1>3
    <2>2. wal[k] \in Frames
      BY <2>1 DEF FilesInv
    <2> QED BY <2>1, <2>2, FrameFields
  <1> QED BY <1>1, <1>2, <1>3 DEF Forgeries

LEMMA ForgeFrameInv ==
  ASSUME FilesInv, TxInv, NEW k \in 1 .. MaxFrames, NEW page \in Forgeries,
         ForgeFrame(k, page)
  PROVE  FilesInv' /\ TxInv'
PROOF
  <1>1. k \in 1 .. Len(wal) /\ wal \in Seq(Frames) /\ wal[k] \in Frames
    BY WalFilesAssumption DEF ForgeFrame, FilesInv
  <1>2. wal' = [wal EXCEPT ![k] = [wal[k] EXCEPT !.page = page]]
    BY DEF ForgeFrame
  <1>3. [wal[k] EXCEPT !.page = page] \in Frames
    BY <1>1, ForgeriesType, ReplacedFrame
  <1>4. wal' \in Seq(Frames) /\ Len(wal') = Len(wal)
    BY <1>1, <1>2, <1>3
  <1>5. forgeries' \in 0 .. MaxForgeries /\ UNCHANGED <<main, tx, history, ends, crashes>>
    BY WalFilesAssumption DEF ForgeFrame, Forge, FilesInv
  <1>6. FilesInv'
    <2>1. wal_header' # "cut"
      BY EmptySeq DEF ForgeFrame, FilesInv
    <2> QED BY <1>4, <1>5, <2>1 DEF FilesInv, CommittedFrames
  <1>7. TxInv'
    BY <1>4, <1>5 DEF TxInv, CommittedFrames
  <1> QED BY <1>6, <1>7

LEMMA ForgeMainInv ==
  ASSUME FilesInv, TxInv, NEW n \in 1 .. MaxPages, NEW page \in Forgeries,
         ForgeMain(n, page)
  PROVE  FilesInv' /\ TxInv'
PROOF
  <1>1. main' \in Seq(PhysicalPages) /\ Len(main') = Len(main)
    BY ForgeriesType DEF ForgeMain, FilesInv
  <1>2. forgeries' \in 0 .. MaxForgeries /\ UNCHANGED <<wal, wal_header, tx, history, ends, crashes>>
    BY WalFilesAssumption DEF ForgeMain, Forge, FilesInv
  <1>3. FilesInv'
    BY <1>1, <1>2 DEF FilesInv, CommittedFrames
  <1>4. TxInv'
    BY <1>2 DEF TxInv, CommittedFrames
  <1> QED BY <1>3, <1>4

LEMMA CutMainInv ==
  ASSUME FilesInv, TxInv, NEW n \in 0 .. MaxPages, NEW rest \in BOOLEAN, CutMain(n, rest)
  PROVE  FilesInv' /\ TxInv'
PROOF
  <1>1. n \in 0 .. Len(main) /\ main \in Seq(PhysicalPages) /\ Len(main) <= MaxPages
    BY WalFilesAssumption DEF CutMain, FilesInv
  <1>2. main' \in Seq(PhysicalPages) /\ Len(main') = n
    BY <1>1, Prefix DEF CutMain
  <1>3. forgeries' \in 0 .. MaxForgeries /\ UNCHANGED <<wal, wal_header, tx, history, ends, crashes>>
    BY WalFilesAssumption DEF CutMain, Forge, FilesInv
  <1>4. FilesInv'
    BY <1>1, <1>2, <1>3 DEF FilesInv, CommittedFrames
  <1>5. TxInv'
    BY <1>3 DEF TxInv, CommittedFrames
  <1> QED BY <1>4, <1>5

\* Everything that can happen to the files keeps their invariant.
LEMMA FilesNextInv ==
  ASSUME FilesInv, TxInv, (crashes + forgeries = 0 /\ Writing) \/ Crashing \/ Forging
  PROVE  FilesInv' /\ TxInv'
PROOF
  <1>1. CASE crashes + forgeries = 0 /\ Writing
    <2>1. crashes = 0
      BY <1>1, WalFilesAssumption DEF FilesInv
    <2> QED BY <1>1, <2>1, BeginInv, WriteFrameInv, RollbackInv DEF Writing
  <1>2. CASE Crashing
    BY <1>2, CutWalInv, CutWalHeaderInv, BreakChecksumInv DEF Crashing
  <1>3. CASE Forging
    BY <1>3, ForgeFrameInv, ForgeMainInv, CutMainInv DEF Forging
  <1> QED BY <1>1, <1>2, <1>3

-----------------------------------------------------------------------------
(* Turso's selection.                                                      *)

LEMMA SelectionType ==
  ASSUME FilesInv
  PROVE  /\ ValidFrames \in 0 .. Len(wal)
         /\ CommitFrame \in 0 .. ValidFrames
         /\ FrameIndex \in [1 .. MaxPages -> 0 .. MaxFrames]
PROOF
  <1>1. Len(wal) \in Nat /\ DOMAIN wal = 1 .. Len(wal) /\ Len(wal) <= MaxFrames
    BY DEF FilesInv
  <1>2. ValidFrames \in 0 .. Len(wal)
    <2> DEFINE S == {k \in DOMAIN wal : \A j \in 1 .. k : wal[j].valid}
    <2>1. S \in SUBSET (1 .. Len(wal))
      BY <1>1
    <2> HIDE DEF S
    <2>2. Greatest(S) \in 0 .. Len(wal)
      BY <1>1, <2>1, GreatestProperties
    <2> QED BY <2>2 DEF S, ValidFrames
  <1>3. CommitFrame \in 0 .. ValidFrames
    <2> DEFINE S == {k \in 1 .. ValidFrames : wal[k].commit # 0}
    <2>1. S \in SUBSET (1 .. ValidFrames) /\ ValidFrames \in Nat
      BY <1>2
    <2> HIDE DEF S
    <2>2. Greatest(S) \in 0 .. ValidFrames
      BY <2>1, GreatestProperties
    <2> QED BY <2>2 DEF S, CommitFrame
  <1>4. ASSUME NEW n \in 1 .. MaxPages PROVE FrameIndex[n] \in 0 .. MaxFrames
    <2> DEFINE S == {k \in 1 .. CommitFrame : wal[k].page_no = n}
    <2>1. S \in SUBSET (1 .. CommitFrame) /\ CommitFrame \in Nat /\ CommitFrame <= MaxFrames
      BY <1>1, <1>2, <1>3, WalFilesAssumption
    <2> HIDE DEF S
    <2>2. Greatest(S) \in 0 .. CommitFrame
      BY <2>1, GreatestProperties
    <2>3. FrameIndex[n] = Greatest(S)
      BY DEF FrameIndex, S
    <2> QED BY <2>1, <2>2, <2>3, WalFilesAssumption
  <1>5. FrameIndex \in [1 .. MaxPages -> 0 .. MaxFrames]
    BY <1>4 DEF FrameIndex
  <1> QED BY <1>2, <1>3, <1>5

-----------------------------------------------------------------------------
(* Recovery.                                                               *)

-----------------------------------------------------------------------------
(* The last frame of a page.                                               *)

LEMMA FrameOfProperties ==
  ASSUME NEW w, NEW k \in Nat, NEW n
  PROVE  /\ FrameOf(w, k, n) \in 0 .. k
         /\ FrameOf(w, k, n) # 0 => w[FrameOf(w, k, n)].page_no = n
         /\ \A j \in 1 .. k : w[j].page_no = n => j <= FrameOf(w, k, n)
PROOF
  <1> DEFINE S == {j \in 1 .. k : w[j].page_no = n}
  <1>1. S \in SUBSET (1 .. k)
    OBVIOUS
  <1>2. \A j \in S : w[j].page_no = n
    OBVIOUS
  <1>3. \A j \in 1 .. k : w[j].page_no = n => j \in S
    OBVIOUS
  <1>4. FrameOf(w, k, n) = Greatest(S)
    BY DEF FrameOf
  <1> HIDE DEF S
  <1>5. /\ Greatest(S) \in 0 .. k
        /\ Greatest(S) # 0 => Greatest(S) \in S
        /\ \A x \in S : x <= Greatest(S)
    BY <1>1, GreatestProperties
  <1> QED BY <1>2, <1>3, <1>4, <1>5

\* Only the first k frames matter, and of those neither commit nor valid.
LEMMA SamePrefix ==
  ASSUME NEW v, NEW w, NEW k \in Nat,
         \A j \in 1 .. k : v[j].page_no = w[j].page_no /\ v[j].page = w[j].page
  PROVE  /\ \A n : FrameOf(v, k, n) = FrameOf(w, k, n)
         /\ \A m, image, pages :
              Holds(v, m, k, image, pages) <=> Holds(w, m, k, image, pages)
PROOF
  <1>1. ASSUME NEW n PROVE FrameOf(v, k, n) = FrameOf(w, k, n)
    <2>1. {j \in 1 .. k : v[j].page_no = n} = {j \in 1 .. k : w[j].page_no = n}
      OBVIOUS
    <2> QED BY <2>1 DEF FrameOf
  <1>2. ASSUME NEW n, FrameOf(w, k, n) # 0
        PROVE  v[FrameOf(w, k, n)].page = w[FrameOf(w, k, n)].page
    <2>1. FrameOf(w, k, n) \in 1 .. k
      BY <1>2, FrameOfProperties
    <2> QED BY <2>1
  <1> QED BY <1>1, <1>2 DEF Holds

\* The next frame replaces its page and no other.
LEMMA NextFrame ==
  ASSUME NEW w, NEW k \in Nat, NEW n
  PROVE  FrameOf(w, k + 1, n) = IF w[k + 1].page_no = n THEN k + 1 ELSE FrameOf(w, k, n)
PROOF
  <1>1. CASE w[k + 1].page_no = n
    <2>1. k + 1 \in Nat /\ k + 1 \in 1 .. k + 1
      OBVIOUS
    <2>2. FrameOf(w, k + 1, n) \in 0 .. k + 1 /\ k + 1 <= FrameOf(w, k + 1, n)
      BY <1>1, <2>1, FrameOfProperties
    <2> QED BY <1>1, <2>2
  <1>2. CASE w[k + 1].page_no # n
    <2>1. {j \in 1 .. k + 1 : w[j].page_no = n} = {j \in 1 .. k : w[j].page_no = n}
      BY <1>2
    <2> QED BY <1>2, <2>1 DEF FrameOf
  <1> QED BY <1>1, <1>2

LEMMA WrittenIsGenuine ==
  ASSUME NEW n \in 1 .. MaxPages, NEW v, NEW size
  PROVE  /\ Genuine(WriterKeys, n, Written(n, v, size))
         /\ n = 1 => Written(n, v, size).data.size = size
  BY LayoutAssumption
     DEF Written, Genuine, DecryptError, VerifyPageHmac, EncodeSqlitePageSize,
         DecodeSqlitePageSize

LEMMA EndType ==
  ASSUME FilesInv, NEW c \in 0 .. Len(ends)
  PROVE  End(c) \in 0 .. MaxFrames /\ End(c) <= CommittedFrames
PROOF
  <1>1. CASE c = 0
    BY <1>1, CommittedType, WalFilesAssumption DEF End
  <1>2. CASE c # 0
    <2>1. c \in 1 .. Len(ends)
      BY <1>2 DEF FilesInv
    <2> QED BY <1>2, <2>1, EndBound, WalFilesAssumption DEF End
  <1> QED BY <1>1, <1>2

LEMMA LastEnd ==
  ASSUME FilesInv
  PROVE  /\ Len(ends) \in 0 .. Len(ends) /\ End(Len(ends)) = CommittedFrames
         /\ history[Len(ends) + 1] = Last(history)
  BY EmptySeq DEF FilesInv, End, CommittedFrames, Last

-----------------------------------------------------------------------------
(* The writer.                                                             *)

LEMMA FilesInitRecovery == FilesInit => RecoveryInv
PROOF
  <1> SUFFICES ASSUME FilesInit PROVE RecoveryInv
    OBVIOUS
  <1>1. PICK size \in 1 .. MaxPages :
          main = BaseImage(size) /\ history = <<BaseImage(size)>>
    BY DEF FilesInit
  <1>2. size \in Nat /\ Len(ends) = 0 /\ ends = << >> /\ wal = << >> /\ tx = NoTx /\ main = history[1]
    BY <1>1, EmptySeq, WalFilesAssumption DEF FilesInit
  <1>3. Len(main) = size /\ \A n \in 1 .. size : main[n] = Written(n, 0, size)
    BY <1>1, <1>2 DEF BaseImage
  <1>4. IsWritten(main, 1 .. size)
    <2>1. \A n \in 1 .. size : n \in 1 .. MaxPages
      BY WalFilesAssumption
    <2> QED BY <1>3, <2>1, WrittenIsGenuine DEF IsWritten
  <1>5. Holds(wal, main, 0, main, 1 .. size)
    <2>1. \A n : FrameOf(wal, 0, n) = 0
      BY FrameOfProperties
    <2> QED BY <1>2, <1>3, <2>1 DEF Holds
  <1>6. \A c \in 0 .. Len(ends) : c = 0 /\ End(c) = 0
    BY <1>2 DEF End
  <1> QED BY <1>2, <1>3, <1>4, <1>5, <1>6 DEF RecoveryInv

\* A transaction starts from the last commit.
LEMMA BeginRecovery ==
  ASSUME FilesInv, TxInv, RecoveryInv, forgeries = 0, crashes = 0,
         NEW size \in 1 .. MaxPages, NEW todo \in SUBSET (1 .. size), Begin(size, todo)
  PROVE  RecoveryInv'
PROOF
  <1> DEFINE old == Len(Last(history))
             rest == (1 .. size) \ todo
  <1>1. /\ UNCHANGED <<main, wal, history, ends, crashes, forgeries>>
        /\ old + 1 .. size \subseteq todo /\ (size # old => 1 \in todo)
        /\ tx'.size = size /\ tx'.todo = todo /\ tx'.at = CommittedFrames
        /\ tx'.image = [n \in 1 .. size |-> IF n <= old THEN Last(history)[n]
                                           ELSE Written(n, Len(ends) + 1, size)]
    BY DEF Begin, files
  <1>2. old \in 1 .. MaxPages /\ size \in Nat
    BY LastImageType, WalFilesAssumption
  <1> HIDE DEF old
  <1>3. \A n \in rest : n \in 1 .. old /\ n <= old /\ tx'.image[n] = Last(history)[n]
    <2> SUFFICES ASSUME NEW n \in rest
                 PROVE  n \in 1 .. old /\ n <= old /\ tx'.image[n] = Last(history)[n]
      OBVIOUS
    <2>1. n <= old
      BY <1>1, <1>2
    <2> QED BY <1>1, <1>2, <2>1
  <1>4. Len(tx'.image) = size
    BY <1>1, <1>2
  <1>5. /\ IsWritten(Last(history), 1 .. old)
        /\ Holds(wal, main, CommittedFrames, Last(history), 1 .. old)
    <2>1. CommittedFrames <= Len(wal)
      BY DEF FilesInv
    <2> QED BY <2>1, LastEnd DEF RecoveryInv, old
  <1>6. IsWritten(tx'.image, rest)
    <2>1. 1 \in rest => size = old
      BY <1>1
    <2>2. Len(Last(history)) = old
      BY DEF old
    <2> QED BY <1>3, <1>4, <1>5, <2>1, <2>2 DEF IsWritten
  <1>7. Holds(wal, main, CommittedFrames, tx'.image, rest)
    BY <1>3, <1>5 DEF Holds
  <1>8. \A c : End(c)' = End(c)
    BY <1>1 DEF End
  <1> QED BY <1>1, <1>6, <1>7, <1>8 DEF RecoveryInv

LEMMA RollbackRecovery ==
  ASSUME RecoveryInv, Rollback
  PROVE  RecoveryInv'
PROOF
  <1>1. UNCHANGED <<main, wal, history, ends, crashes, forgeries>> /\ tx' = NoTx
    BY DEF Rollback, files
  <1>2. \A c : End(c)' = End(c)
    BY <1>1 DEF End
  <1> QED BY <1>1, <1>2 DEF RecoveryInv

\* The frame adds its page to what the transaction has written, and leaves the
\* commits before it alone.
LEMMA WriteFrameRecovery ==
  ASSUME FilesInv, TxInv, RecoveryInv, forgeries = 0, crashes = 0,
         NEW n \in 1 .. MaxPages, WriteFrame(n)
  PROVE  RecoveryInv'
PROOF
  <1> DEFINE page == Written(n, Len(ends) + 1, tx.size)
             at == tx.at + 1
             image == [tx.image EXCEPT ![n] = page]
             done == (1 .. tx.size) \ tx.todo
             rest == (1 .. tx.size) \ (tx.todo \ {n})
  <1>1. /\ tx # NoTx /\ n \in tx.todo /\ tx.todo \subseteq 1 .. tx.size
        /\ tx.size \in 1 .. MaxPages /\ tx.at \in 0 .. Len(wal) /\ at \in 1 .. MaxFrames
        /\ CommittedFrames <= tx.at
        /\ tx.image \in Seq(PhysicalPages) /\ Len(tx.image) = tx.size
        /\ page \in PhysicalPages
        /\ wal' \in Seq(Frames) /\ Len(wal') \in at .. MaxFrames /\ Len(wal) <= Len(wal')
        /\ \A j \in 1 .. tx.at : wal'[j] = wal[j]
        /\ wal'[at] = [page_no |-> n, page |-> page, valid |-> TRUE,
                       commit |-> IF tx.todo = {n} THEN tx.size ELSE 0]
        /\ \A j \in at + 1 .. Len(wal') :
             j \in 1 .. Len(wal) /\ wal'[j] = [wal[j] EXCEPT !.valid = FALSE]
    BY WriteFrameEffect
  <1>2. UNCHANGED <<main, crashes, forgeries>>
    BY DEF WriteFrame
  <1>3. tx.at \in Nat /\ Len(wal) \in Nat /\ at \in Nat /\ tx.at < at
    BY <1>1 DEF FilesInv
  <1>4. /\ IsWritten(tx.image, done) /\ Holds(wal, main, tx.at, tx.image, done)
    BY <1>1 DEF RecoveryInv
  <1>5. /\ Genuine(WriterKeys, n, page)
        /\ n = 1 => page.data.size = tx.size
    BY WrittenIsGenuine
  <1> HIDE DEF page
  <1>6. /\ Len(image) = tx.size /\ image[n] = page
        /\ \A i \in done : image[i] = tx.image[i] /\ i # n
    <2>1. n \in 1 .. Len(tx.image) /\ DOMAIN tx.image = 1 .. Len(tx.image)
      BY <1>1
    <2> QED BY <1>1, <2>1
  <1> HIDE DEF image
  <1>7. \A i : i \in rest <=> i = n \/ i \in done
    BY <1>1
  <1> HIDE DEF done, rest
  <1>8. IsWritten(image, rest)
    BY <1>1, <1>4, <1>5, <1>6, <1>7 DEF IsWritten
  <1>9. Holds(wal', main, at, image, rest)
    <2>1. \A i : FrameOf(wal', at, i) = IF i = n THEN at ELSE FrameOf(wal, tx.at, i)
      <3>1. \A i : FrameOf(wal', tx.at, i) = FrameOf(wal, tx.at, i)
        <4>1. \A j \in 1 .. tx.at : wal'[j].page_no = wal[j].page_no /\ wal'[j].page = wal[j].page
          BY <1>1
        <4>2. tx.at \in Nat
          BY <1>3
        <4> QED BY <4>1, <4>2, SamePrefix
      <3>2. wal'[at].page_no = n
        BY <1>1
      <3> QED BY <1>3, <3>1, <3>2, NextFrame
    <2>2. ASSUME NEW i \in done, FrameOf(wal, tx.at, i) # 0
          PROVE  wal'[FrameOf(wal, tx.at, i)] = wal[FrameOf(wal, tx.at, i)]
      <3>1. FrameOf(wal, tx.at, i) \in 1 .. tx.at
        BY <1>3, <2>2, FrameOfProperties
      <3> QED BY <1>1, <3>1
    <2>3. wal'[at].page = page /\ at # 0
      BY <1>1, <1>3
    <2> HIDE DEF at
    <2> QED BY <1>4, <1>6, <1>7, <2>1, <2>2, <2>3 DEF Holds
  <1>10. ASSUME NEW c \in 0 .. Len(ends)
         PROVE  LET h == history[c + 1]
                IN  IsWritten(h, 1 .. Len(h)) /\ Holds(wal', main, End(c), h, 1 .. Len(h))
    <2>1. End(c) \in Nat /\ End(c) <= tx.at /\ End(c) <= Len(wal)
      <3>1. End(c) \in Nat /\ End(c) <= CommittedFrames
        BY EndType, WalFilesAssumption
      <3>2. CommittedFrames \in Nat /\ CommittedFrames <= tx.at /\ tx.at <= Len(wal)
        BY <1>1, <1>3, CommittedType, WalFilesAssumption
      <3> HIDE DEF at
      <3> QED BY <1>3, <3>1, <3>2
    <2>2. \A j \in 1 .. End(c) : wal'[j] = wal[j]
      BY <1>1, <1>3, <2>1
    <2> QED BY <2>1, <2>2, SamePrefix DEF RecoveryInv
  <1>11. ASSUME NEW j \in 1 .. Len(wal'), j # at
         PROVE  j \in 1 .. Len(wal) /\ wal'[j].commit = wal[j].commit
    <2>1. CASE j <= tx.at
      BY <1>1, <1>3, <2>1
    <2>2. CASE ~(j <= tx.at)
      <3>1. j \in at + 1 .. Len(wal')
        BY <1>1, <1>3, <1>11, <2>2
      <3>2. j \in 1 .. Len(wal) /\ wal'[j] = [wal[j] EXCEPT !.valid = FALSE]
        BY <1>1, <3>1
      <3>3. wal[j] \in Frames
        BY <3>2, ElementOfSeq DEF FilesInv
      <3> QED BY <3>2, <3>3 DEF Frames
    <2> QED BY <2>1, <2>2
  <1>12. \A c \in DOMAIN ends : ends[c] # at
    <2> SUFFICES ASSUME NEW c \in 1 .. Len(ends) PROVE ends[c] # at
      BY DEF FilesInv
    <2>1. ends[c] \in Nat /\ ends[c] <= CommittedFrames
      BY EndBound, WalFilesAssumption
    <2>2. CommittedFrames \in Nat /\ CommittedFrames <= tx.at
      BY <1>1, CommittedType, WalFilesAssumption
    <2> QED BY <1>3, <2>1, <2>2
  <1>13. DOMAIN wal' = 1 .. Len(wal') /\ DOMAIN wal = 1 .. Len(wal) /\ Len(wal') \in Nat
    BY <1>1 DEF FilesInv
  <1>14. CASE tx.todo = {n}
    <2>1. history' = Append(history, image) /\ ends' = Append(ends, at) /\ tx' = NoTx
      BY <1>14 DEF WriteFrame, image, page
    <2>2. image \in Images /\ at \in 1 .. MaxFrames
      <3>1. image \in Seq(PhysicalPages)
        BY <1>1 DEF image
      <3> QED BY <1>1, <1>6, <3>1 DEF Images
    <2> HIDE DEF at
    <2>3. /\ Len(ends') = Len(ends) + 1 /\ DOMAIN ends' = 1 .. Len(ends) + 1
          /\ DOMAIN ends = 1 .. Len(ends) /\ Len(ends) \in Nat
          /\ \A c \in 1 .. Len(ends) : ends'[c] = ends[c]
          /\ ends'[Len(ends) + 1] = at
          /\ \A c \in 0 .. Len(ends) : history'[c + 1] = history[c + 1]
          /\ history'[Len(ends) + 2] = image
      <3>1. /\ Len(ends') = Len(ends) + 1 /\ ends' \in Seq(1 .. MaxFrames)
            /\ \A c \in 1 .. Len(ends) : ends'[c] = ends[c]
            /\ ends'[Len(ends) + 1] = at
        BY <2>1, <2>2, AppendProperties DEF FilesInv
      <3>2. /\ \A c \in 1 .. Len(history) : history'[c] = history[c]
            /\ history'[Len(history) + 1] = image
        BY <2>1, <2>2, AppendProperties DEF FilesInv
      <3>3. Len(history) = Len(ends) + 1 /\ Len(ends) \in Nat /\ DOMAIN ends = 1 .. Len(ends)
        BY DEF FilesInv
      <3> QED BY <3>1, <3>2, <3>3
    <2>4. \A c \in 0 .. Len(ends) : End(c)' = End(c)
      <3> SUFFICES ASSUME NEW c \in 0 .. Len(ends) PROVE End(c)' = End(c)
        OBVIOUS
      <3>1. c = 0 \/ c \in 1 .. Len(ends)
        BY <2>3
      <3> QED BY <2>3, <3>1 DEF End
    <2>5. \A i \in 1 .. tx.size : i \in rest
      BY <1>14 DEF rest
    <2>6. IsWritten(image, 1 .. Len(image)) /\ Holds(wal', main, at, image, 1 .. Len(image))
      BY <1>6, <1>8, <1>9, <2>5 DEF IsWritten, Holds, rest
    <2>7. \A c \in 0 .. Len(ends') :
            LET h == history'[c + 1]
            IN  IsWritten(h, 1 .. Len(h)) /\ Holds(wal', main, End(c)', h, 1 .. Len(h))
      <3> SUFFICES ASSUME NEW c \in 0 .. Len(ends')
                   PROVE  LET h == history'[c + 1]
                          IN  /\ IsWritten(h, 1 .. Len(h))
                              /\ Holds(wal', main, End(c)', h, 1 .. Len(h))
        OBVIOUS
      <3>1. CASE c \in 0 .. Len(ends)
        BY <1>10, <2>3, <2>4, <3>1
      <3>2. CASE c = Len(ends) + 1
        <4>1. c = Len(ends') /\ c + 1 = Len(ends) + 2
          BY <2>3, <3>2
        <4>2. history'[c + 1] = image
          BY <2>3, <4>1
        <4>3. End(c)' = at
          <5>1. c # 0 /\ ends'[c] = at
            BY <2>3, <3>2
          <5> QED BY <5>1 DEF End
        <4> QED BY <2>6, <4>2, <4>3
      <3> QED BY <2>3, <3>1, <3>2
    <2>8. \A j \in DOMAIN wal' : wal'[j].commit # 0 <=> \E c \in DOMAIN ends' : ends'[c] = j
      <3> SUFFICES ASSUME NEW j \in 1 .. Len(wal')
                   PROVE  wal'[j].commit # 0 <=> \E c \in DOMAIN ends' : ends'[c] = j
        BY <1>13
      <3>1. CASE j = at
        <4>1. wal'[j].commit = tx.size
          BY <1>1, <1>14, <3>1 DEF at
        <4>2. tx.size # 0
          BY <1>1
        <4>3. Len(ends) + 1 \in DOMAIN ends' /\ ends'[Len(ends) + 1] = j
          BY <2>3, <3>1
        <4> QED BY <4>1, <4>2, <4>3
      <3>2. CASE j # at
        <4>1. wal'[j].commit # 0 <=> \E c \in DOMAIN ends : ends[c] = j
          BY <1>11, <1>13, <3>2 DEF RecoveryInv
        <4>2. ASSUME NEW c \in DOMAIN ends, ends[c] = j
              PROVE  c \in DOMAIN ends' /\ ends'[c] = j
          BY <2>3, <4>2
        <4>3. ASSUME NEW c \in DOMAIN ends', ends'[c] = j
              PROVE  c \in DOMAIN ends /\ ends[c] = j
          <5>1. c # Len(ends) + 1
            BY <2>3, <3>2, <4>3
          <5>2. c \in 1 .. Len(ends)
            BY <2>3, <5>1
          <5> QED BY <2>3, <4>3, <5>2
        <4> QED BY <4>1, <4>2, <4>3
      <3> QED BY <3>1, <3>2
    <2>9. (\A c \in 0 .. Len(ends) :
             LET h == history[c + 1]
             IN  /\ IsWritten(h, 1 .. Len(h))
                 /\ End(c) <= Len(wal) => Holds(wal, main, End(c), h, 1 .. Len(h)))'
      BY <1>2, <2>7 DEF IsWritten
    <2> QED BY <2>1, <2>8, <2>9 DEF RecoveryInv
  <1>15. CASE tx.todo # {n}
    <2>1. /\ tx' = [tx EXCEPT !.todo = @ \ {n}, !.image = image, !.at = at]
          /\ UNCHANGED <<history, ends>>
      BY <1>15 DEF WriteFrame, image, page
    <2> HIDE DEF at
    <2>2. tx'.todo = tx.todo \ {n} /\ tx'.image = image /\ tx'.at = at /\ tx'.size = tx.size
      BY <2>1 DEF TxInv, Transactions
    <2>3. \A c : End(c)' = End(c)
      BY <2>1 DEF End
    <2>4. \A j \in DOMAIN wal' : wal'[j].commit # 0 <=> \E c \in DOMAIN ends' : ends'[c] = j
      <3> SUFFICES ASSUME NEW j \in 1 .. Len(wal')
                   PROVE  wal'[j].commit # 0 <=> \E c \in DOMAIN ends : ends[c] = j
        BY <1>13, <2>1
      <3>1. CASE j = at
        <4>1. wal'[j].commit = 0
          BY <1>1, <1>15, <3>1 DEF at
        <4> QED BY <1>12, <3>1, <4>1
      <3>2. CASE j # at
        BY <1>11, <1>13, <3>2 DEF RecoveryInv
      <3> QED BY <3>1, <3>2
    <2>5. (\A c \in 0 .. Len(ends) :
             LET h == history[c + 1]
             IN  /\ IsWritten(h, 1 .. Len(h))
                 /\ End(c) <= Len(wal) => Holds(wal, main, End(c), h, 1 .. Len(h)))'
      BY <1>2, <1>10, <2>1, <2>3 DEF IsWritten
    <2>6. (/\ IsWritten(tx.image, (1 .. tx.size) \ tx.todo)
           /\ Holds(wal, main, tx.at, tx.image, (1 .. tx.size) \ tx.todo))'
      BY <1>2, <1>8, <1>9, <2>2 DEF rest, IsWritten
    <2> QED BY <2>4, <2>5, <2>6 DEF RecoveryInv
  <1> QED BY <1>14, <1>15

-----------------------------------------------------------------------------
(* Damage.                                                                 *)

\* A crash shortens the WAL or breaks checksums; the frames that are left are
\* the ones that were written.
LEMMA CrashRecovery ==
  ASSUME FilesInv, RecoveryInv, wal' \in Seq(Frames), Len(wal') <= Len(wal),
         \A j \in 1 .. Len(wal') :
           /\ wal'[j].page_no = wal[j].page_no /\ wal'[j].page = wal[j].page
           /\ wal'[j].commit = wal[j].commit,
         crashes' # 0, UNCHANGED <<main, history, ends, forgeries>>
  PROVE  RecoveryInv'
PROOF
  <1> SUFFICES ASSUME forgeries = 0 PROVE RecoveryInv'
    BY DEF RecoveryInv
  <1>1. /\ Len(wal) \in Nat /\ Len(wal') \in Nat
        /\ DOMAIN wal = 1 .. Len(wal) /\ DOMAIN wal' = 1 .. Len(wal')
    BY DEF FilesInv
  <1>2. \A c : End(c)' = End(c)
    BY DEF End
  <1>3. ASSUME NEW c \in 0 .. Len(ends), End(c) <= Len(wal')
        PROVE  LET h == history[c + 1] IN Holds(wal', main, End(c), h, 1 .. Len(h))
    <2>1. End(c) \in Nat
      BY EndType, WalFilesAssumption
    <2>2. End(c) <= Len(wal)
      BY <1>1, <1>3, <2>1
    <2>3. \A j \in 1 .. End(c) : wal'[j].page_no = wal[j].page_no /\ wal'[j].page = wal[j].page
      BY <1>1, <1>3, <2>1
    <2> QED BY <2>1, <2>2, <2>3, SamePrefix DEF RecoveryInv
  <1>4. (\A c \in 0 .. Len(ends) :
           LET h == history[c + 1]
           IN  /\ IsWritten(h, 1 .. Len(h))
               /\ End(c) <= Len(wal) => Holds(wal, main, End(c), h, 1 .. Len(h)))'
    BY <1>2, <1>3 DEF RecoveryInv, IsWritten
  <1>5. \A j \in DOMAIN wal' : wal'[j].commit # 0 <=> \E c \in DOMAIN ends' : ends'[c] = j
    BY <1>1 DEF RecoveryInv
  <1> QED BY <1>4, <1>5 DEF RecoveryInv

LEMMA CutWalRecovery ==
  ASSUME FilesInv, RecoveryInv, NEW k \in 0 .. MaxFrames, NEW rest \in BOOLEAN,
         CutWal(k, rest)
  PROVE  RecoveryInv'
PROOF
  <1>1. k \in 0 .. Len(wal) /\ k <= Len(wal) /\ wal \in Seq(Frames)
    BY WalFilesAssumption DEF CutWal, FilesInv
  <1>2. wal' \in Seq(Frames) /\ Len(wal') = k /\ \A j \in 1 .. k : wal'[j] = wal[j]
    BY <1>1, Prefix DEF CutWal
  <1>3. crashes' # 0 /\ UNCHANGED <<main, history, ends, forgeries>>
    BY DEF CutWal, Crash, FilesInv
  <1> QED BY <1>1, <1>2, <1>3, CrashRecovery

LEMMA CutWalHeaderRecovery ==
  ASSUME FilesInv, RecoveryInv, CutWalHeader
  PROVE  RecoveryInv'
PROOF
  <1>1. wal' \in Seq(Frames) /\ Len(wal') = 0 /\ Len(wal') <= Len(wal)
    BY EmptySeq DEF CutWalHeader, FilesInv
  <1>2. \A j \in 1 .. Len(wal') : FALSE
    BY <1>1
  <1>3. crashes' # 0 /\ UNCHANGED <<main, history, ends, forgeries>>
    BY DEF CutWalHeader, Crash, FilesInv
  <1> QED BY <1>1, <1>2, <1>3, CrashRecovery

LEMMA BreakChecksumRecovery ==
  ASSUME FilesInv, TxInv, RecoveryInv, NEW k \in 1 .. MaxFrames, BreakChecksum(k)
  PROVE  RecoveryInv'
PROOF
  <1>1. /\ wal \in Seq(Frames) /\ DOMAIN wal = 1 .. Len(wal)
        /\ wal' = [j \in DOMAIN wal |-> IF j < k THEN wal[j]
                                        ELSE [wal[j] EXCEPT !.valid = FALSE]]
    BY DEF BreakChecksum, FilesInv
  <1>2. wal' \in Seq(Frames)
    BY BreakChecksumInv DEF FilesInv
  <1>3. Len(wal') = Len(wal) /\ Len(wal) \in Nat
    <2>1. DOMAIN wal' = 1 .. Len(wal') /\ DOMAIN wal' = 1 .. Len(wal)
          /\ Len(wal) \in Nat /\ Len(wal') \in Nat
      BY <1>1, <1>2
    <2> QED BY <2>1
  <1>4. ASSUME NEW j \in 1 .. Len(wal')
        PROVE  /\ wal'[j].page_no = wal[j].page_no /\ wal'[j].page = wal[j].page
               /\ wal'[j].commit = wal[j].commit
    <2>1. wal[j] \in Frames
      BY <1>1, <1>3
    <2>2. wal'[j] = wal[j] \/ wal'[j] = [wal[j] EXCEPT !.valid = FALSE]
      BY <1>1, <1>3
    <2> QED BY <2>1, <2>2 DEF Frames
  <1>5. crashes' # 0 /\ UNCHANGED <<main, history, ends, forgeries>>
    BY DEF BreakChecksum, Crash, FilesInv
  <1> QED BY <1>2, <1>3, <1>4, <1>5, CrashRecovery

\* Everything that can happen to the files keeps what recovery rests on.
LEMMA FilesNextRecovery ==
  ASSUME FilesInv, TxInv, RecoveryInv,
         (crashes + forgeries = 0 /\ Writing) \/ Crashing \/ Forging
  PROVE  RecoveryInv'
PROOF
  <1>1. CASE crashes + forgeries = 0 /\ Writing
    <2>1. crashes = 0 /\ forgeries = 0
      BY <1>1, WalFilesAssumption DEF FilesInv
    <2> QED BY <1>1, <2>1, BeginRecovery, WriteFrameRecovery, RollbackRecovery DEF Writing
  <1>2. CASE Crashing
    BY <1>2, CutWalRecovery, CutWalHeaderRecovery, BreakChecksumRecovery DEF Crashing
  <1>3. CASE Forging
    <2>1. forgeries' # 0
      BY <1>3 DEF Forging, ForgeFrame, ForgeMain, CutMain, Forge, FilesInv
    <2> QED BY <2>1 DEF RecoveryInv
  <1> QED BY <1>1, <1>2, <1>3

-----------------------------------------------------------------------------
(* Turso's selection.                                                      *)

\* The valid frames are a prefix of the WAL.
LEMMA ValidPrefix ==
  ASSUME FilesInv, NEW k \in 0 .. Len(wal)
  PROVE  k <= ValidFrames <=> \A j \in 1 .. k : wal[j].valid
PROOF
  <1> DEFINE S == {i \in DOMAIN wal : \A j \in 1 .. i : wal[j].valid}
  <1>1. /\ Len(wal) \in Nat /\ DOMAIN wal = 1 .. Len(wal)
        /\ ValidFrames \in 0 .. Len(wal)
    BY SelectionType DEF FilesInv
  <1>2. S \in SUBSET (1 .. Len(wal)) /\ ValidFrames = Greatest(S)
    BY <1>1 DEF ValidFrames
  <1>3. \A i \in S : \A j \in 1 .. i : wal[j].valid
    OBVIOUS
  <1>4. \A i \in 1 .. Len(wal) : (\A j \in 1 .. i : wal[j].valid) => i \in S
    BY <1>1
  <1> HIDE DEF S
  <1>5. /\ ValidFrames # 0 => ValidFrames \in S
        /\ \A i \in S : i <= ValidFrames
    BY <1>1, <1>2, GreatestProperties
  <1>6. ASSUME k <= ValidFrames, NEW j \in 1 .. k PROVE wal[j].valid
    <2>1. ValidFrames # 0 /\ j \in 1 .. ValidFrames
      BY <1>1, <1>6
    <2> QED BY <1>3, <1>5, <2>1
  <1>7. ASSUME \A j \in 1 .. k : wal[j].valid PROVE k <= ValidFrames
    <2>1. CASE k = 0
      BY <1>1, <2>1
    <2>2. CASE k # 0
      <3>1. k \in 1 .. Len(wal)
        BY <1>1, <2>2
      <3> QED BY <1>4, <1>5, <1>7, <3>1
    <2> QED BY <2>1, <2>2
  <1> QED BY <1>6, <1>7

\* The commits that survive are the first ones.
LEMMA SurvivingPrefix ==
  ASSUME FilesInv
  PROVE  /\ SurvivingCommits \in 0 .. Len(ends)
         /\ \A c \in 1 .. Len(ends) : ends[c] <= ValidFrames <=> c <= SurvivingCommits
PROOF
  <1> DEFINE T == {c \in 1 .. Len(ends) : ends[c] <= ValidFrames}
             g == Greatest(T)
  <1>1. /\ Len(ends) \in Nat /\ DOMAIN ends = 1 .. Len(ends)
        /\ Len(wal) \in Nat /\ ValidFrames \in 0 .. Len(wal)
        /\ \A c \in 1 .. Len(ends) : ends[c] \in Nat \ {0}
    <2>1. \A c \in 1 .. Len(ends) : ends[c] \in Nat \ {0}
      BY EndBound, WalFilesAssumption
    <2>2. /\ Len(ends) \in Nat /\ DOMAIN ends = 1 .. Len(ends)
          /\ Len(wal) \in Nat
      BY DEF FilesInv
    <2> QED BY <2>1, <2>2, SelectionType
  <1>2. T \in SUBSET (1 .. Len(ends))
    OBVIOUS
  <1>3. \A c \in 1 .. Len(ends) : c \in T <=> ends[c] <= ValidFrames
    OBVIOUS
  <1>4. {c \in DOMAIN ends : ends[c] <= Len(wal) /\ \A j \in 1 .. ends[c] : wal[j].valid} = T
    <2> SUFFICES ASSUME NEW c \in 1 .. Len(ends)
                 PROVE  (ends[c] <= Len(wal) /\ \A j \in 1 .. ends[c] : wal[j].valid)
                          <=> ends[c] <= ValidFrames
      BY <1>1
    <2>1. CASE ends[c] <= Len(wal)
      <3>1. ends[c] \in 0 .. Len(wal)
        BY <1>1, <2>1
      <3> QED BY <2>1, <3>1, ValidPrefix
    <2>2. CASE ~(ends[c] <= Len(wal))
      BY <1>1, <2>2
    <2> QED BY <2>1, <2>2
  <1>5. SurvivingCommits = Cardinality(T)
    BY <1>4 DEF SurvivingCommits
  <1> HIDE DEF T
  <1>6. /\ g \in 0 .. Len(ends)
        /\ g # 0 => g \in T
        /\ \A c \in T : c <= g
    BY <1>1, <1>2, GreatestProperties
  <1> HIDE DEF g
  <1>7. ASSUME NEW c \in 1 .. g PROVE c \in T
    <2>1. g \in T /\ g \in 1 .. Len(ends) /\ c \in 1 .. Len(ends)
      BY <1>1, <1>6
    <2>2. ends[g] <= ValidFrames
      BY <1>3, <2>1
    <2>3. c = g \/ ends[c] < ends[g]
      <3>1. c = g \/ c < g
        BY <2>1
      <3> QED BY <1>1, <2>1, <3>1 DEF FilesInv
    <2>4. ends[c] <= ValidFrames
      BY <1>1, <2>1, <2>2, <2>3
    <2> QED BY <1>3, <2>1, <2>4
  <1>8. T = 1 .. g
    <2>1. \A c \in T : c \in 1 .. g
      BY <1>1, <1>2, <1>6
    <2> QED BY <1>7, <2>1
  <1>9. Cardinality(T) = g
    <2>1. 1 \in Int /\ g \in Int
      BY <1>6
    <2>2. Cardinality(1 .. g) = IF 1 > g THEN 0 ELSE g - 1 + 1
      BY <2>1, FS_Interval
    <2> QED BY <1>6, <1>8, <2>2
  <1>10. \A c \in 1 .. Len(ends) : c \in T <=> c <= g
    BY <1>6, <1>8
  <1> QED BY <1>3, <1>5, <1>6, <1>9, <1>10

\* Turso commits where the last surviving transaction ended.
LEMMA SelectedCommit ==
  ASSUME FilesInv, RecoveryInv, forgeries = 0
  PROVE  CommitFrame = End(SurvivingCommits)
PROOF
  <1> DEFINE S == {k \in 1 .. ValidFrames : wal[k].commit # 0}
             g == SurvivingCommits
  <1>1. /\ ValidFrames \in 0 .. Len(wal) /\ ValidFrames \in Nat /\ Len(wal) \in Nat
        /\ DOMAIN wal = 1 .. Len(wal)
        /\ DOMAIN ends = 1 .. Len(ends) /\ Len(ends) \in Nat
    BY SelectionType DEF FilesInv
  <1>2. \A c \in 1 .. Len(ends) : ends[c] \in Nat \ {0}
    <2>1. \A c \in 1 .. Len(ends) : ends[c] \in 1 .. MaxFrames
      BY EndBound
    <2> QED BY <2>1, WalFilesAssumption
  <1>3. S \in SUBSET (1 .. ValidFrames) /\ CommitFrame = Greatest(S)
    BY DEF CommitFrame
  <1>4. \A k \in S : \E c \in 1 .. Len(ends) : ends[c] = k
    <2> SUFFICES ASSUME NEW k \in 1 .. ValidFrames, wal[k].commit # 0
                 PROVE  \E c \in 1 .. Len(ends) : ends[c] = k
      OBVIOUS
    <2>1. k \in DOMAIN wal
      BY <1>1
    <2> QED BY <1>1, <2>1 DEF RecoveryInv
  <1>5. \A c \in 1 .. Len(ends) : ends[c] <= ValidFrames => ends[c] \in S
    <2> SUFFICES ASSUME NEW c \in 1 .. Len(ends), ends[c] <= ValidFrames
                 PROVE  ends[c] \in S
      OBVIOUS
    <2>1. ends[c] \in 1 .. ValidFrames /\ ends[c] \in DOMAIN wal
      BY <1>1, <1>2
    <2> QED BY <1>1, <2>1 DEF RecoveryInv
  <1> HIDE DEF S
  <1>6. /\ CommitFrame \in 0 .. ValidFrames
        /\ CommitFrame # 0 => CommitFrame \in S
        /\ \A k \in S : k <= CommitFrame
    BY <1>1, <1>3, GreatestProperties
  <1>7. /\ g \in 0 .. Len(ends)
        /\ \A c \in 1 .. Len(ends) : ends[c] <= ValidFrames <=> c <= g
    BY SurvivingPrefix
  <1> HIDE DEF g
  <1>8. CASE g = 0
    <2> SUFFICES ASSUME CommitFrame # 0 PROVE FALSE
      BY <1>8 DEF End, g
    <2>1. PICK c \in 1 .. Len(ends) : ends[c] = CommitFrame
      BY <1>4, <1>6
    <2>2. c <= g
      BY <1>1, <1>6, <1>7, <2>1
    <2> QED BY <1>8, <2>2
  <1>9. CASE g # 0
    <2>1. g \in 1 .. Len(ends) /\ g <= g
      BY <1>1, <1>7, <1>9
    <2>2. ends[g] \in S /\ ends[g] \in Nat \ {0}
      BY <1>2, <1>5, <1>7, <2>1
    <2>3. ends[g] <= CommitFrame /\ CommitFrame # 0 /\ CommitFrame \in Nat
      BY <1>1, <1>6, <2>2
    <2>4. PICK c \in 1 .. Len(ends) : ends[c] = CommitFrame
      BY <1>4, <1>6, <2>3
    <2>5. c <= g
      BY <1>1, <1>6, <1>7, <2>4
    <2>6. c = g \/ ends[c] < ends[g]
      <3>1. c = g \/ c < g
        BY <2>1, <2>5
      <3> QED BY <1>1, <2>1, <3>1 DEF FilesInv
    <2>7. ends[g] = CommitFrame
      BY <2>2, <2>3, <2>4, <2>6
    <2> QED BY <1>9, <2>7 DEF End, g
  <1> QED BY <1>8, <1>9

\* The selection is the image of the last surviving commit.
LEMMA Recovered ==
  ASSUME FilesInv, RecoveryInv, forgeries = 0
  PROVE  /\ LastCommittedImage \in Seq(PhysicalPages)
         /\ Len(LastCommittedImage) \in 1 .. MaxPages
         /\ IsWritten(LastCommittedImage, 1 .. Len(LastCommittedImage))
         /\ Holds(wal, main, CommitFrame, LastCommittedImage, 1 .. Len(LastCommittedImage))
         /\ \A n \in 1 .. MaxPages : FrameIndex[n] = FrameOf(wal, CommitFrame, n)
         /\ CommitFrame \in 0 .. Len(wal)
PROOF
  <1>1. SurvivingCommits \in 0 .. Len(ends)
    BY SurvivingPrefix
  <1>2. LastCommittedImage \in Images
    <2>1. history \in Seq(Images) /\ SurvivingCommits + 1 \in 1 .. Len(history)
      BY <1>1 DEF FilesInv
    <2> QED BY <2>1, ElementOfSeq DEF LastCommittedImage
  <1>3. CommitFrame \in 0 .. Len(wal) /\ CommitFrame <= Len(wal)
    BY SelectionType DEF FilesInv
  <1>4. /\ IsWritten(LastCommittedImage, 1 .. Len(LastCommittedImage))
        /\ Holds(wal, main, CommitFrame, LastCommittedImage, 1 .. Len(LastCommittedImage))
    BY <1>1, <1>3, SelectedCommit DEF RecoveryInv, LastCommittedImage
  <1>5. \A n \in 1 .. MaxPages : FrameIndex[n] = FrameOf(wal, CommitFrame, n)
    BY DEF FrameIndex, FrameOf
  <1> QED BY <1>2, <1>3, <1>4, <1>5 DEF Images

\* Every page the main file does not have needs a frame of its own.
LEMMA FramesBoundPages ==
  ASSUME FilesInv, RecoveryInv, forgeries = 0
  PROVE  Len(LastCommittedImage) <= Len(main) + CommitFrame
PROOF
  <1> DEFINE size == Len(LastCommittedImage)
             m == Len(main)
             k == CommitFrame
             f == [n \in m + 1 .. size |-> FrameOf(wal, k, n)]
  <1>1. size \in Nat /\ m \in Nat /\ k \in Nat
    BY Recovered, WalFilesAssumption DEF FilesInv
  <1>2. ASSUME NEW n \in m + 1 .. size
        PROVE  FrameOf(wal, k, n) \in 1 .. k /\ wal[FrameOf(wal, k, n)].page_no = n
    <2>1. FrameOf(wal, k, n) # 0
      <3>1. n \in 1 .. size /\ ~(n <= m)
        BY <1>1
      <3> QED BY <3>1, Recovered DEF Holds
    <2>2. FrameOf(wal, k, n) \in 0 .. k /\ wal[FrameOf(wal, k, n)].page_no = n
      BY <1>1, <2>1, FrameOfProperties
    <2> QED BY <1>1, <2>1, <2>2
  <1> HIDE DEF size, m, k
  <1>3. f \in Injection(m + 1 .. size, 1 .. k)
    <2>1. f \in [m + 1 .. size -> 1 .. k]
      BY <1>2
    <2>2. \A a, b \in m + 1 .. size : f[a] = f[b] => a = b
      BY <1>2
    <2> QED BY <2>1, <2>2 DEF Injection, IsInjective
  <1> HIDE DEF f
  <1>4. /\ IsFiniteSet(1 .. k) /\ Cardinality(1 .. k) = k
        /\ Cardinality(m + 1 .. size) = IF m + 1 > size THEN 0 ELSE size - (m + 1) + 1
    <2>1. 1 \in Int /\ k \in Int /\ m + 1 \in Int /\ size \in Int
      BY <1>1
    <2>2. /\ IsFiniteSet(1 .. k)
          /\ Cardinality(1 .. k) = IF 1 > k THEN 0 ELSE k - 1 + 1
          /\ Cardinality(m + 1 .. size) = IF m + 1 > size THEN 0 ELSE size - (m + 1) + 1
      BY <2>1, FS_Interval
    <2> QED BY <1>1, <2>2
  <1>5. Cardinality(m + 1 .. size) <= Cardinality(1 .. k)
    BY <1>3, <1>4, FS_Injection
  <1>6. size <= m + k
    BY <1>1, <1>4, <1>5
  <1> QED BY <1>6 DEF size, m, k

-----------------------------------------------------------------------------
(* Sizes and pages.                                                        *)

\* The page count is that of the whole pages; an incomplete one is rejected.
LEMMA MainPages ==
  ASSUME FilesInv
  PROVE  MainSize \div PageSize = Len(main) /\ Len(main) \in 0 .. MaxPages
PROOF
  <1> DEFINE r == IF main_rest THEN PageSize - 1 ELSE 0
  <1>1. Len(main) \in Nat /\ Len(main) <= MaxPages /\ PageSize \in Nat /\ PageSize > 0
    BY LayoutAssumption DEF FilesInv
  <1>2. r \in 0 .. PageSize - 1
    BY <1>1
  <1>3. Len(main) * PageSize = PageSize * Len(main) /\ PageSize * Len(main) \in Nat
    BY <1>1
  <1> HIDE DEF r
  <1>4. PageSize * Len(main) + r \in Nat
    BY <1>1, <1>2, <1>3
  <1>5. MainSize = PageSize * Len(main) + r
    BY <1>3 DEF MainSize, r
  <1>6. MainSize \div PageSize = Len(main)
    BY <1>1, <1>2, <1>4, <1>5, DivUnique
  <1> QED BY <1>1, <1>6, WalFilesAssumption

LEMMA WalSizeType ==
  ASSUME FilesInv
  PROVE  WalSize \in Nat
PROOF
  <1>1. Len(wal) \in Nat /\ FrameSize \in Nat /\ PageSize \in Nat /\ PageSize > 0
    BY LayoutAssumption DEF FilesInv, FrameSize
  <1>2. Len(wal) * FrameSize \in Nat
    BY <1>1
  <1>3. (IF wal_rest THEN FrameSize - 11 ELSE 0) \in Nat
    BY <1>1 DEF FrameSize
  <1> HIDE DEF FrameSize
  <1> QED BY <1>1, <1>2, <1>3 DEF WalSize, WalHeaderSize

LEMMA SaturatingType ==
  /\ \A a \in Nat : SaturatingU32(a) \in 0 .. U32Max
  /\ \A size \in Nat : WalPages(size) \in 0 .. U32Max
PROOF
  <1>1. \A a \in Nat : SaturatingU32(a) \in 0 .. U32Max
    BY SnapshotAssumption DEF SaturatingU32
  <1>2. ASSUME NEW size \in Nat PROVE WalPages(size) \in 0 .. U32Max
    <2>1. SaturatingSub(size, WalHeaderSize) \in Nat
      BY DEF SaturatingSub, WalHeaderSize
    <2>2. FrameSize \in Nat /\ FrameSize > 0
      BY LayoutAssumption DEF FrameSize
    <2>3. SaturatingSub(size, WalHeaderSize) \div FrameSize \in Nat
      BY <2>1, <2>2
    <2> QED BY <1>1, <2>3 DEF WalPages
  <1> QED BY <1>1, <1>2

\* A page of the selection that is there is a page.
LEMMA ContentType ==
  ASSUME FilesInv, NEW idx \in [1 .. MaxPages -> 0 .. MaxFrames],
         NEW n \in 1 .. MaxPages, Present(idx, n)
  PROVE  /\ Content(idx, n) \in PhysicalPages
         /\ Content(idx, n).data.size \in 0 .. MaxPages
PROOF
  <1>1. Content(idx, n) \in PhysicalPages
    <2>1. CASE idx[n] # 0
      <3>1. idx[n] \in 1 .. Len(wal)
        BY <2>1, WalFilesAssumption DEF Present, FilesInv
      <3>2. wal[idx[n]] \in Frames
        BY <3>1 DEF FilesInv
      <3> QED BY <2>1, <3>2, FrameFields DEF Content
    <2>2. CASE idx[n] = 0
      BY <2>2, WalFilesAssumption DEF Present, Content, FilesInv
    <2> QED BY <2>1, <2>2
  <1>2. \A pg \in PhysicalPages : pg.data.size \in 0 .. MaxPages
    BY WalFilesAssumption DEF PhysicalPages
  <1> QED BY <1>1, <1>2

\* Reading changes neither the files nor what they hold.
LEMMA FilesUntouched ==
  ASSUME FilesInv, TxInv, RecoveryInv, UNCHANGED fileVars
  PROVE  /\ FilesInv' /\ TxInv' /\ RecoveryInv' /\ FrameIndex' = FrameIndex
         /\ \A idx, n : /\ Content(idx, n)' = Content(idx, n)
                        /\ Present(idx, n)' = Present(idx, n)
         /\ WalSize' = WalSize /\ UNCHANGED <<main, forgeries>>
PROOF
  <1>1. FilesInv' /\ TxInv' /\ FrameIndex' = FrameIndex
    BY DEF fileVars, FilesInv, TxInv, CommittedFrames, FrameIndex, CommitFrame, ValidFrames
  <1>2. RecoveryInv'
    <2>1. \A c : End(c)' = End(c)
      BY DEF fileVars, End
    <2> QED BY <2>1 DEF fileVars, RecoveryInv
  <1>3. \A idx, n : Content(idx, n)' = Content(idx, n) /\ Present(idx, n)' = Present(idx, n)
    BY DEF fileVars, Content, Present
  <1> QED BY <1>1, <1>2, <1>3 DEF fileVars, WalSize

LEMMA FirstPage == 1 \in 1 .. MaxPages
  BY WalFilesAssumption

LEMMA KeysAreNotNone == NoKeys \notin Keys /\ WriterKeys # NoKeys
  BY WalFilesAssumption, NamesAssumption DEF Keys

\* The bounds stay right as long as neither they nor the files change.
LEMMA LimitKept ==
  ASSUME LimitInv, pc # "absent", WalSize' = WalSize, UNCHANGED <<main, forgeries>>,
         UNCHANGED <<wal_size, keys, page_count, wal_page_limit, late>>,
         forgeries + late = 0 => status' # "SnapshotSize"
  PROVE  LimitInv'
PROOF
  <1>1. WalPages(WalSize)' = WalPages(WalSize)
    BY DEF WalPages
  <1> QED BY <1>1 DEF LimitInv

-----------------------------------------------------------------------------
(* The selection and the bounds, when nothing was forged.                  *)

LEMMA DivOf ==
  ASSUME NEW p \in Nat, NEW q \in Nat, NEW r \in 0 .. p - 1
  PROVE  (q * p + r) \div p = q
PROOF
  <1> DEFINE a == q * p + r
  <1>1. p > 0 /\ q * p \in Nat /\ q * p = p * q
    OBVIOUS
  <1>2. a \in Nat /\ a = p * q + r
    BY <1>1
  <1> HIDE DEF a
  <1> DEFINE Q == a \div p
             R == a % p
  <1>3. Q \in Nat /\ R \in 0 .. p - 1 /\ a = p * Q + R
    BY <1>1, <1>2
  <1> HIDE DEF Q, R
  <1>4. ASSUME Q < q PROVE FALSE
    <2>1. p * Q + p <= p * q
      BY <1>3, <1>4, Times
    <2> QED BY <1>1, <1>2, <1>3, <2>1
  <1>5. ASSUME q < Q PROVE FALSE
    <2>1. p * q + p <= p * Q
      BY <1>3, <1>5, Times
    <2>2. p * Q \in Nat
      BY <1>3
    <2> QED BY <1>1, <1>2, <1>3, <2>1, <2>2
  <1>6. Q = q
    BY <1>3, <1>4, <1>5
  <1> QED BY <1>6 DEF Q, a

\* The size of the WAL counts its whole frames.
LEMMA WalPagesOfFrames ==
  ASSUME FilesInv
  PROVE  Len(wal) \in Nat /\ WalPages(WalSize) = SaturatingU32(Len(wal))
PROOF
  <1> DEFINE r == IF wal_rest THEN FrameSize - 11 ELSE 0
  <1>1. /\ Len(wal) \in Nat /\ FrameSize \in Nat /\ FrameSize >= 24
        /\ r \in 0 .. FrameSize - 1
    BY LayoutAssumption DEF FilesInv, FrameSize
  <1>2. CASE wal_header = "cut"
    <2>1. Len(wal) = 0 /\ WalSize = 16
      BY <1>2, EmptySeq DEF FilesInv, WalSize, WalHeaderSize
    <2>2. SaturatingSub(WalSize, WalHeaderSize) = 0
      BY <2>1 DEF SaturatingSub, WalHeaderSize
    <2>3. 0 \div FrameSize = 0
      BY <1>1
    <2> QED BY <1>1, <2>1, <2>2, <2>3 DEF WalPages
  <1>3. CASE wal_header # "cut"
    <2> HIDE DEF r
    <2>1. Len(wal) * FrameSize \in Nat
      BY <1>1
    <2>2. WalSize = 32 + Len(wal) * FrameSize + r
      BY <1>3 DEF WalSize, WalHeaderSize, r
    <2> DEFINE l == Len(wal) * FrameSize
    <2> HIDE DEF l
    <2>3. SaturatingSub(32 + l + r, 32) = l + r
      BY <1>1, <2>1 DEF SaturatingSub, l
    <2>4. (Len(wal) * FrameSize + r) \div FrameSize = Len(wal)
      BY <1>1, DivOf
    <2> QED BY <1>1, <2>2, <2>3, <2>4 DEF WalPages, WalHeaderSize, l
  <1> QED BY <1>2, <1>3

\* The selection has the pages of the last surviving commit.
LEMMA SelectionIsCommitted ==
  ASSUME FilesInv, RecoveryInv, forgeries = 0, NEW n \in 1 .. Len(LastCommittedImage)
  PROVE  /\ n \in 1 .. MaxPages /\ n <= Len(LastCommittedImage)
         /\ Present(FrameIndex, n)
         /\ Content(FrameIndex, n) = LastCommittedImage[n]
         /\ Genuine(WriterKeys, n, Content(FrameIndex, n))
         /\ FrameIndex[n] = 0 => n <= Len(main)
PROOF
  <1>1. n \in 1 .. MaxPages /\ n <= Len(LastCommittedImage)
    BY Recovered, WalFilesAssumption
  <1>2. FrameIndex[n] = FrameOf(wal, CommitFrame, n)
    BY <1>1, Recovered
  <1>3. FrameIndex[n] \in 0 .. CommitFrame /\ CommitFrame \in 0 .. Len(wal) /\ Len(wal) \in Nat
    BY <1>2, Recovered, FrameOfProperties DEF FilesInv
  <1>4. /\ IF FrameIndex[n] # 0 THEN LastCommittedImage[n] = wal[FrameIndex[n]].page
           ELSE n <= Len(main) /\ LastCommittedImage[n] = main[n]
        /\ Genuine(WriterKeys, n, LastCommittedImage[n])
    BY <1>2, Recovered DEF Holds, IsWritten
  <1> QED BY <1>1, <1>3, <1>4 DEF Present, Content

\* Its page count is that of the image, which the bound admits.
LEMMA SelectionCount ==
  ASSUME FilesInv, RecoveryInv, forgeries = 0
  PROVE  /\ Len(LastCommittedImage) \in 1 .. MaxPages
         /\ Content(FrameIndex, 1).data.size = Len(LastCommittedImage)
         /\ Len(LastCommittedImage) <= SaturatingU32(Len(main) + WalPages(WalSize))
PROOF
  <1> DEFINE size == Len(LastCommittedImage)
             m == Len(main)
  <1>1. size \in 1 .. MaxPages /\ 1 \in 1 .. size
    BY Recovered, WalFilesAssumption
  <1>2. Content(FrameIndex, 1).data.size = size
    <2>1. Content(FrameIndex, 1) = LastCommittedImage[1]
      BY <1>1, SelectionIsCommitted
    <2>2. LastCommittedImage[1].data.size = size
      BY <1>1, Recovered DEF IsWritten
    <2> QED BY <2>1, <2>2
  <1>3. size <= m + CommitFrame /\ CommitFrame \in 0 .. Len(wal) /\ m \in Nat
    BY FramesBoundPages, Recovered DEF FilesInv
  <1>4. WalPages(WalSize) = SaturatingU32(Len(wal)) /\ Len(wal) \in Nat
    BY WalPagesOfFrames
  <1>5. U32Max \in Nat /\ MaxPages \in Nat /\ MaxPages <= U32Max
    BY SnapshotAssumption, WalFilesAssumption
  <1> HIDE DEF size, m
  <1>6. size <= SaturatingU32(m + SaturatingU32(Len(wal)))
    BY <1>1, <1>3, <1>4, <1>5 DEF SaturatingU32
  <1> QED BY <1>1, <1>2, <1>4, <1>6 DEF size, m

-----------------------------------------------------------------------------
(* The initial state and every action keep the invariant.                  *)

LEMMA InitInv == Init => SnapshotInv
PROOF
  <1> SUFFICES ASSUME Init PROVE SnapshotInv
    OBVIOUS
  <1>1. FilesInv /\ TxInv /\ RecoveryInv
    BY FilesInitInv, FilesInitRecovery DEF Init
  <1>2. delivered \in Seq(PhysicalPages) /\ Len(delivered) = 0
    BY EmptySeq DEF Init
  <1>3. ReaderType
    BY <1>2, SnapshotAssumption, WalFilesAssumption
       DEF Init, ReaderType, Steps, Statuses, NoIndex
  <1>4. StepInv /\ ~Selected
    BY <1>2 DEF Init, StepInv, Selected
  <1>5. DeliveryInv
    BY <1>2, <1>4 DEF Init, DeliveryInv
  <1>6. LimitInv
    BY DEF Init, LimitInv
  <1> QED BY <1>1, <1>3, <1>4, <1>5, <1>6 DEF SnapshotInv

\* Before the page count is read there is nothing to deliver from.
LEMMA NotSelected ==
  ASSUME StepInv, pc \in {"absent", "input", "checked", "connected"}
  PROVE  /\ ~Selected /\ status = "none" /\ number = 1 /\ count = 0
         /\ Len(delivered) = 0
  BY DEF StepInv, Selected

\* The files are prepared before anything is read.
LEMMA PreparingInv ==
  ASSUME SnapshotInv, Preparing
  PROVE  SnapshotInv'
PROOF
  <1>1. FilesInv' /\ TxInv' /\ RecoveryInv'
    BY FilesNextInv, FilesNextRecovery DEF SnapshotInv, Preparing
  <1>2. UNCHANGED readerVars /\ pc = "absent" /\ keys = NoKeys
    BY DEF SnapshotInv, Preparing, StepInv
  <1>3. ReaderType' /\ StepInv'
    BY <1>2 DEF SnapshotInv, readerVars, ReaderType, StepInv, Selected
  <1>4. ~Selected /\ ~Selected' /\ status = "none"
    BY <1>2, NotSelected DEF SnapshotInv, readerVars, Selected
  <1>5. DeliveryInv'
    BY <1>2, <1>4 DEF SnapshotInv, readerVars, DeliveryInv
  <1>6. LimitInv'
    BY <1>2, <1>4 DEF readerVars, LimitInv
  <1> QED BY <1>1, <1>3, <1>5, <1>6 DEF SnapshotInv

\* A change while the files are read is counted in late.
LEMMA ChangingInv ==
  ASSUME SnapshotInv, Changing
  PROVE  SnapshotInv'
PROOF
  <1>1. FilesInv' /\ TxInv' /\ RecoveryInv'
    BY FilesNextInv, FilesNextRecovery DEF SnapshotInv, Changing
  <1>2. UNCHANGED <<pc, wal_size, keys, page_count, wal_page_limit, index,
                    count, number, delivered, status>>
        /\ late' \in 1 .. MaxLate
    BY SnapshotAssumption DEF SnapshotInv, Changing, ReaderType
  <1>3. ReaderType' /\ StepInv'
    BY <1>2 DEF SnapshotInv, ReaderType, StepInv, Selected
  <1>4. DeliveryInv'
    BY <1>2 DEF SnapshotInv, DeliveryInv
  <1>5. LimitInv'
    <2>1. forgeries' \in Nat
      BY <1>1, WalFilesAssumption DEF FilesInv
    <2>2. late' \in Nat \ {0}
      BY <1>2, SnapshotAssumption
    <2>3. (forgeries + late)' # 0
      <3>1. \A a \in Nat, b \in Nat \ {0} : a + b # 0
        OBVIOUS
      <3> QED BY <2>1, <2>2, <3>1
    <2> QED BY <2>2, <2>3 DEF LimitInv
  <1> QED BY <1>1, <1>3, <1>4, <1>5 DEF SnapshotInv

LEMMA OpenInputInv ==
  ASSUME SnapshotInv, OpenInput
  PROVE  SnapshotInv'
PROOF
  <1>1. /\ FilesInv' /\ TxInv' /\ RecoveryInv' /\ WalSize' = WalSize
        /\ UNCHANGED <<main, forgeries>>
    BY FilesUntouched DEF SnapshotInv, OpenInput
  <1>2. /\ pc = "absent" /\ pc' = "input" /\ wal_size' = WalSize /\ keys = NoKeys
        /\ UNCHANGED <<keys, page_count, wal_page_limit, index, count,
                       number, delivered, status, late>>
    BY DEF SnapshotInv, OpenInput, StepInv
  <1>3. ReaderType'
    BY <1>2, WalSizeType DEF SnapshotInv, ReaderType, Steps
  <1>4. StepInv'
    BY <1>2 DEF SnapshotInv, StepInv, Selected
  <1>5. ~Selected' /\ status' = "none"
    BY <1>2, <1>4, NotSelected DEF SnapshotInv, Selected
  <1>6. DeliveryInv'
    BY <1>2, <1>5 DEF SnapshotInv, DeliveryInv
  <1>7. LimitInv'
    BY <1>1, <1>2, <1>5 DEF LimitInv
  <1> QED BY <1>1, <1>3, <1>4, <1>6, <1>7 DEF SnapshotInv

LEMMA AuthenticateInv ==
  ASSUME SnapshotInv, NEW passphrase \in Passphrases, Authenticate(passphrase)
  PROVE  SnapshotInv'
PROOF
  <1> DEFINE derived == DeriveKeys(passphrase, WriterKeys.salt)
  <1>1. /\ FilesInv' /\ TxInv' /\ RecoveryInv' /\ WalSize' = WalSize
        /\ UNCHANGED <<main, forgeries>>
    BY FilesUntouched DEF SnapshotInv, Authenticate
  <1>2. /\ pc = "input" /\ status = "none" /\ number = 1 /\ count = 0
        /\ Len(delivered) = 0
        /\ delivered \in Seq(PhysicalPages) /\ keys = NoKeys
    BY NotSelected DEF SnapshotInv, Authenticate, StepInv, ReaderType
  <1>3. /\ UNCHANGED <<wal_size, index, count, number, delivered, late>>
        /\ \/ /\ pc' = "failing"
              /\ status' \in Statuses \ {"none", "ok", "Callback", "Read", "PageLength",
                                       "SnapshotSize"}
              /\ UNCHANGED <<keys, page_count, wal_page_limit>>
           \/ /\ passphrase # EmptyPassphrase
              /\ keys' = derived
              /\ page_count' = MainSize \div PageSize
              /\ wal_page_limit' =
                   SaturatingU32(MainSize \div PageSize + WalPages(wal_size))
              /\ pc' = "checked" /\ status' = status
    BY DEF Authenticate, Fail, MainStatus, DecryptError, Statuses
  <1>4. passphrase # EmptyPassphrase => derived \in Keys
    BY WalFilesAssumption DEF DeriveKeys, Keys
  <1> HIDE DEF derived
  <1>5. ReaderType'
    <2>1. MainSize \div PageSize \in 0 .. MaxPages
      BY MainPages DEF SnapshotInv
    <2>2. SaturatingU32(MainSize \div PageSize + WalPages(wal_size)) \in 0 .. U32Max
      <3>1. WalPages(wal_size) \in 0 .. U32Max
        BY SaturatingType DEF SnapshotInv, ReaderType
      <3>2. MainSize \div PageSize + WalPages(wal_size) \in Nat
        BY <2>1, <3>1, SnapshotAssumption, WalFilesAssumption
      <3> QED BY <3>2, SaturatingType
    <2> QED BY <1>3, <1>4, <2>1, <2>2 DEF SnapshotInv, ReaderType, Steps
  <1>6. ~Selected'
    BY <1>2, <1>3 DEF Selected
  <1>7. pc' = "checked" => keys' # NoKeys
    BY <1>3, <1>4, KeysAreNotNone
  <1>8. StepInv'
    BY <1>2, <1>3, <1>7 DEF SnapshotInv, StepInv
  <1>9. DeliveryInv'
    BY <1>2, <1>3, <1>6 DEF DeliveryInv
  <1>10. LimitInv'
    <2>1. late = 0 => wal_size = WalSize
      BY <1>2 DEF SnapshotInv, LimitInv
    <2>2. WalPages(WalSize)' = WalPages(WalSize)
      BY <1>1 DEF WalPages
    <2>3. MainSize \div PageSize = Len(main)
      BY MainPages DEF SnapshotInv
    <2> QED BY <1>1, <1>2, <1>3, <2>1, <2>2, <2>3 DEF LimitInv
  <1> QED BY <1>1, <1>5, <1>8, <1>9, <1>10 DEF SnapshotInv

\* From here on the selection is fixed.
LEMMA OpenDatabaseInv ==
  ASSUME SnapshotInv, OpenDatabase
  PROVE  SnapshotInv'
PROOF
  <1>1. /\ FilesInv' /\ TxInv' /\ RecoveryInv' /\ FrameIndex' = FrameIndex
        /\ WalSize' = WalSize /\ UNCHANGED <<main, forgeries>>
    BY FilesUntouched DEF SnapshotInv, OpenDatabase
  <1>2. /\ pc = "checked" /\ status = "none" /\ number = 1 /\ count = 0
        /\ Len(delivered) = 0
        /\ delivered \in Seq(PhysicalPages)
    BY NotSelected DEF SnapshotInv, OpenDatabase, StepInv, ReaderType
  <1>3. /\ index' = FrameIndex
        /\ UNCHANGED <<wal_size, keys, page_count, wal_page_limit, count,
                       number, delivered, late>>
        /\ \/ pc' = "connected" /\ status' = status
           \/ pc' = "failing" /\ status' = "Turso"
    BY DEF OpenDatabase, Fail
  <1>4. ReaderType'
    BY <1>3, SelectionType DEF SnapshotInv, ReaderType, Steps, Statuses
  <1>5. ~Selected'
    BY <1>2, <1>3 DEF Selected
  <1>6. StepInv'
    BY <1>2, <1>3 DEF SnapshotInv, StepInv
  <1>7. DeliveryInv'
    BY <1>1, <1>2, <1>3, <1>5 DEF DeliveryInv
  <1>8. LimitInv'
    BY <1>1, <1>2, <1>3, LimitKept DEF SnapshotInv
  <1> QED BY <1>1, <1>4, <1>6, <1>7, <1>8 DEF SnapshotInv

\* The page count is read from page 1 of the selection.
LEMMA BeginReadInv ==
  ASSUME SnapshotInv, BeginRead
  PROVE  SnapshotInv'
PROOF
  <1>1. /\ FilesInv' /\ TxInv' /\ RecoveryInv' /\ FrameIndex' = FrameIndex
        /\ \A idx, n : /\ Content(idx, n)' = Content(idx, n)
                       /\ Present(idx, n)' = Present(idx, n)
        /\ WalSize' = WalSize /\ UNCHANGED <<main, forgeries>>
    BY FilesUntouched DEF SnapshotInv, BeginRead
  <1>2. /\ pc = "connected" /\ status = "none" /\ number = 1 /\ count = 0
        /\ Len(delivered) = 0
        /\ delivered \in Seq(PhysicalPages)
        /\ late = 0 => index = FrameIndex
    BY NotSelected DEF SnapshotInv, BeginRead, StepInv, ReaderType, DeliveryInv
  <1>3. /\ UNCHANGED <<wal_size, keys, page_count, wal_page_limit, index, number,
                       delivered, late>>
        /\ \/ pc' = "failing" /\ status' = "Turso" /\ count' = count
           \/ /\ pc' = "begun" /\ status' = status
              /\ Present(index, 1) /\ count' = Content(index, 1).data.size
    BY DEF BeginRead, Fail, Decodes
  <1>4. ReaderType'
    <2>1. Present(index, 1) => Content(index, 1).data.size \in 0 .. MaxPages
      BY ContentType, FirstPage DEF SnapshotInv, ReaderType
    <2> QED BY <1>3, <2>1 DEF SnapshotInv, ReaderType, Steps, Statuses
  <1>5. StepInv'
    <2>1. count' \in Nat
      BY <1>4, WalFilesAssumption DEF ReaderType
    <2>2. keys # NoKeys
      BY <1>2 DEF SnapshotInv, StepInv
    <2>3. CASE pc' = "failing" /\ status' = "Turso" /\ count' = count
      BY <1>2, <1>3, <2>3 DEF StepInv, Selected
    <2>4. CASE pc' = "begun" /\ status' = status
      <3>1. /\ pc' = "begun" /\ status' = "none" /\ keys' # NoKeys
            /\ number' = 1 /\ Len(delivered') = number' - 1
        BY <1>2, <1>3, <2>2, <2>4
      <3>2. \A c \in Nat : 1 <= c + 1
        OBVIOUS
      <3>3. number' <= count' + 1
        BY <2>1, <3>1, <3>2
      <3> QED BY <3>1, <3>3 DEF StepInv, Selected
    <2> QED BY <1>3, <2>3, <2>4
  <1>6. DeliveryInv'
    <2>1. Content(index, 1)' = Content(index, 1) /\ Present(index, 1)' = Present(index, 1)
      BY <1>3, <1>1
    <2>2. pc' # "begun" => ~Selected' /\ pc' # "connected"
      BY <1>3 DEF Selected
    <2> QED BY <1>1, <1>2, <1>3, <2>1, <2>2 DEF DeliveryInv
  <1>7. LimitInv'
    BY <1>1, <1>2, <1>3, LimitKept DEF SnapshotInv
  <1> QED BY <1>1, <1>4, <1>5, <1>6, <1>7 DEF SnapshotInv

\* A committed image is never refused: see SelectionCount.
LEMMA CheckCountInv ==
  ASSUME SnapshotInv, CheckCount
  PROVE  SnapshotInv'
PROOF
  <1>1. /\ FilesInv' /\ TxInv' /\ RecoveryInv' /\ FrameIndex' = FrameIndex
        /\ \A idx, n : /\ Content(idx, n)' = Content(idx, n)
                       /\ Present(idx, n)' = Present(idx, n)
        /\ WalSize' = WalSize /\ UNCHANGED <<main, forgeries>>
    BY FilesUntouched DEF SnapshotInv, CheckCount
  <1>2. /\ UNCHANGED <<wal_size, keys, page_count, wal_page_limit, index,
                       count, number, delivered, late>>
        /\ pc = "begun"
        /\ \/ pc' = "visiting" /\ status' = status
           \/ pc' = "failing" /\ status' = "SnapshotSize" /\ ~(count > 0 /\ count <= wal_page_limit)
    BY DEF CheckCount, Fail
  <1>3. /\ status = "none" /\ number = 1 /\ Len(delivered) = 0 /\ keys # NoKeys
        /\ Selected /\ delivered \in Seq(PhysicalPages) /\ count \in Nat
    BY <1>2, WalFilesAssumption DEF SnapshotInv, StepInv, Selected, ReaderType
  <1>4. ReaderType'
    BY <1>2 DEF SnapshotInv, ReaderType, Steps, Statuses
  <1>5. StepInv'
    BY <1>2, <1>3 DEF SnapshotInv, StepInv, Selected
  <1>6. DeliveryInv'
    <2>1. \A n : Content(index, n)' = Content(index, n) /\ Present(index, n)' = Present(index, n)
      BY <1>1, <1>2
    <2> QED BY <1>1, <1>2, <1>3, <2>1 DEF SnapshotInv, DeliveryInv
  <1>7. forgeries + late = 0 => status' # "SnapshotSize"
    <2> SUFFICES ASSUME forgeries + late = 0 PROVE count > 0 /\ count <= wal_page_limit
      BY <1>2, <1>3
    <2>1. forgeries = 0 /\ late = 0
      BY SnapshotAssumption, WalFilesAssumption DEF SnapshotInv, FilesInv, ReaderType
    <2>2. count = Content(FrameIndex, 1).data.size
      BY <1>3, <2>1 DEF SnapshotInv, DeliveryInv
    <2>3. wal_page_limit = SaturatingU32(Len(main) + WalPages(WalSize))
      BY <1>3, <2>1 DEF SnapshotInv, LimitInv
    <2>4. /\ Len(LastCommittedImage) \in 1 .. MaxPages
          /\ Content(FrameIndex, 1).data.size = Len(LastCommittedImage)
          /\ Len(LastCommittedImage) <= SaturatingU32(Len(main) + WalPages(WalSize))
      BY <2>1, SelectionCount DEF SnapshotInv
    <2> QED BY <2>2, <2>3, <2>4
  <1>8. LimitInv'
    BY <1>1, <1>2, <1>7, LimitKept DEF SnapshotInv
  <1> QED BY <1>1, <1>4, <1>5, <1>6, <1>8 DEF SnapshotInv

\* What is delivered has been read through the selection and authenticated.
LEMMA VisitInv ==
  ASSUME SnapshotInv, Visit
  PROVE  SnapshotInv'
PROOF
  <1>1. /\ FilesInv' /\ TxInv' /\ RecoveryInv' /\ FrameIndex' = FrameIndex
        /\ \A idx, n : /\ Content(idx, n)' = Content(idx, n)
                       /\ Present(idx, n)' = Present(idx, n)
        /\ WalSize' = WalSize /\ UNCHANGED <<main, forgeries>>
    BY FilesUntouched DEF SnapshotInv, Visit
  <1>2. UNCHANGED <<wal_size, keys, page_count, wal_page_limit, index,
                    count, late>>
    BY DEF Visit
  <1>3. /\ pc = "visiting" /\ status = "none" /\ Selected
        /\ Len(delivered) = number - 1 /\ delivered \in Seq(PhysicalPages)
        /\ number \in 1 .. MaxPages /\ number <= count /\ count \in 0 .. MaxPages
    BY WalFilesAssumption
       DEF SnapshotInv, Visit, StepInv, ReaderType, LastNumber, Selected
  <1>4. \A n : Content(index, n)' = Content(index, n) /\ Present(index, n)' = Present(index, n)
    BY <1>1, <1>2
  <1>5. status' # "SnapshotSize"
    BY <1>3 DEF Visit, ReadFails, Fail
  <1>6. LimitInv'
    BY <1>1, <1>2, <1>3, <1>5, LimitKept DEF SnapshotInv
  <1>7. CASE pc' = "failing" /\ status' \in {"Read", "PageLength"} /\ UNCHANGED <<number, delivered>>
    <2>1. ReaderType'
      BY <1>2, <1>7 DEF SnapshotInv, ReaderType, Steps, Statuses
    <2>2. StepInv'
      BY <1>2, <1>3, <1>7, WalFilesAssumption DEF SnapshotInv, StepInv, Selected
    <2>3. DeliveryInv'
      BY <1>1, <1>2, <1>3, <1>4, <1>7 DEF SnapshotInv, DeliveryInv
    <2> QED BY <1>1, <1>6, <2>1, <2>2, <2>3 DEF SnapshotInv
  <1>8. CASE /\ delivered' = Append(delivered, Content(index, number))
             /\ Decodes(index, number)
             /\ \/ number' = number + 1 /\ UNCHANGED <<pc, status>>
                \/ pc' = "failing" /\ status' = "Callback" /\ number' = number
    <2> DEFINE page == Content(index, number)
    <2>1. page \in PhysicalPages /\ Genuine(keys, number, page)
      BY <1>3, <1>8, ContentType DEF Decodes, SnapshotInv, ReaderType
    <2> HIDE DEF page
    <2>2. /\ delivered' \in Seq(PhysicalPages) /\ Len(delivered') = number
          /\ \A n \in 1 .. number - 1 : delivered'[n] = delivered[n]
          /\ delivered'[number] = page
      BY <1>3, <1>8, <2>1, AppendProperties DEF page
    <2>3. ReaderType'
      BY <1>2, <1>3, <1>8, <2>2, WalFilesAssumption
         DEF SnapshotInv, ReaderType, Steps, Statuses
    <2>4. StepInv'
      <3>1. CASE number' = number + 1 /\ UNCHANGED <<pc, status>>
        <4>1. number' = number + 1 /\ pc' = "visiting" /\ status' = "none"
              /\ Len(delivered') = number' - 1 /\ number' <= count' + 1
          BY <1>2, <1>3, <2>2, <3>1
        <4> QED BY <1>2, <1>3, <4>1 DEF SnapshotInv, StepInv, Selected
      <3>2. CASE pc' = "failing" /\ status' = "Callback" /\ number' = number
        BY <1>2, <1>3, <2>2, <3>2 DEF SnapshotInv, StepInv, Selected
      <3> QED BY <1>8, <3>1, <3>2
    <2>5. DeliveryInv'
      <3>1. DOMAIN delivered' = 1 .. number /\ DOMAIN delivered = 1 .. number - 1
        BY <1>3, <2>2
      <3>2. ASSUME NEW n \in DOMAIN delivered'
            PROVE  /\ Genuine(keys', n, delivered'[n])
                   /\ late' = 0 => delivered'[n] = Content(index, n)'
        <4>1. CASE n = number
          BY <1>2, <1>4, <2>1, <2>2, <4>1 DEF page
        <4>2. CASE n # number
          <5>1. n \in 1 .. number - 1
            BY <1>3, <3>1, <4>2
          <5>2. delivered'[n] = delivered[n] /\ n \in DOMAIN delivered
            BY <2>2, <3>1, <5>1
          <5>3. Genuine(keys, n, delivered[n])
            BY <5>2 DEF SnapshotInv, DeliveryInv
          <5>4. late = 0 => delivered[n] = Content(index, n)
            BY <1>3, <5>2 DEF SnapshotInv, DeliveryInv
          <5> QED BY <1>2, <1>4, <5>2, <5>3, <5>4
        <4> QED BY <4>1, <4>2
      <3>3. late' = 0 => /\ index' = FrameIndex'
                         /\ Present(index, 1)' /\ count' = Content(index, 1)'.data.size
        BY <1>1, <1>2, <1>3, <1>4 DEF SnapshotInv, DeliveryInv
      <3>4. (\A n \in DOMAIN delivered : Genuine(keys, n, delivered[n]))'
        BY <3>2
      <3>5. late' = 0 => (\A n \in DOMAIN delivered : delivered[n] = Content(index, n))'
        BY <3>2
      <3> QED BY <3>3, <3>4, <3>5 DEF DeliveryInv
    <2> QED BY <1>1, <1>6, <2>3, <2>4, <2>5 DEF SnapshotInv
  <1> QED BY <1>7, <1>8 DEF Visit, Reads, ReadFails, Fail

LEMMA VisitEndInv ==
  ASSUME SnapshotInv, VisitEnd
  PROVE  SnapshotInv'
PROOF
  <1>1. /\ FilesInv' /\ TxInv' /\ RecoveryInv' /\ FrameIndex' = FrameIndex
        /\ \A idx, n : /\ Content(idx, n)' = Content(idx, n)
                       /\ Present(idx, n)' = Present(idx, n)
        /\ WalSize' = WalSize /\ UNCHANGED <<main, forgeries>>
    BY FilesUntouched DEF SnapshotInv, VisitEnd
  <1>2. /\ UNCHANGED <<wal_size, keys, page_count, wal_page_limit, index, count,
                       number, delivered, late>>
        /\ pc = "visiting" /\ pc' = "done" /\ status' = "ok"
        /\ number > count
    BY DEF VisitEnd, LastNumber
  <1>3. ReaderType'
    BY <1>2 DEF SnapshotInv, ReaderType, Steps, Statuses
  <1>4. /\ Selected /\ Selected' /\ number = count + 1 /\ Len(delivered) = number - 1
        /\ number <= count + 1
    BY <1>2, WalFilesAssumption DEF SnapshotInv, StepInv, ReaderType, Selected
  <1>5. StepInv'
    BY <1>2, <1>4 DEF SnapshotInv, StepInv
  <1>6. DeliveryInv'
    <2>1. \A n : Content(index, n)' = Content(index, n) /\ Present(index, n)' = Present(index, n)
      BY <1>1, <1>2
    <2> QED BY <1>1, <1>2, <1>4, <2>1 DEF SnapshotInv, DeliveryInv
  <1>7. LimitInv'
    BY <1>1, <1>2, LimitKept DEF SnapshotInv
  <1> QED BY <1>1, <1>3, <1>5, <1>6, <1>7 DEF SnapshotInv

LEMMA ReleaseInv ==
  ASSUME SnapshotInv, Release
  PROVE  SnapshotInv'
PROOF
  <1>1. /\ FilesInv' /\ TxInv' /\ RecoveryInv' /\ FrameIndex' = FrameIndex
        /\ \A idx, n : /\ Content(idx, n)' = Content(idx, n)
                       /\ Present(idx, n)' = Present(idx, n)
        /\ WalSize' = WalSize /\ UNCHANGED <<main, forgeries>>
    BY FilesUntouched DEF SnapshotInv, Release
  <1>2. /\ UNCHANGED <<wal_size, keys, page_count, wal_page_limit, index, count,
                       number, delivered, status, late>>
        /\ pc = "failing" /\ pc' = "done"
    BY DEF Release
  <1>3. Selected' <=> Selected
    BY <1>2 DEF Selected
  <1>4. ReaderType'
    BY <1>2 DEF SnapshotInv, ReaderType, Steps
  <1>5. StepInv'
    BY <1>2, <1>3 DEF SnapshotInv, StepInv
  <1>6. DeliveryInv'
    <2>1. \A n : Content(index, n)' = Content(index, n) /\ Present(index, n)' = Present(index, n)
      BY <1>1, <1>2
    <2> QED BY <1>1, <1>2, <1>3, <2>1 DEF SnapshotInv, DeliveryInv
  <1>7. LimitInv'
    BY <1>1, <1>2, LimitKept DEF SnapshotInv, LimitInv
  <1> QED BY <1>1, <1>4, <1>5, <1>6, <1>7 DEF SnapshotInv

-----------------------------------------------------------------------------
(* The invariant, and what it says of the visit.                           *)

LEMMA NextInv == SnapshotInv /\ [Next]_vars => SnapshotInv'
PROOF
  <1> SUFFICES ASSUME SnapshotInv, [Next]_vars PROVE SnapshotInv'
    OBVIOUS
  <1>1. CASE UNCHANGED vars
    <2>1. /\ FilesInv' /\ TxInv' /\ RecoveryInv' /\ FrameIndex' = FrameIndex
          /\ \A idx, n : /\ Content(idx, n)' = Content(idx, n)
                         /\ Present(idx, n)' = Present(idx, n)
          /\ WalSize' = WalSize /\ UNCHANGED <<main, forgeries>>
      BY <1>1, FilesUntouched DEF vars, fileVars, SnapshotInv
    <2>2. UNCHANGED readerVars
      BY <1>1 DEF vars, readerVars
    <2>3. ReaderType' /\ StepInv' /\ (Selected' <=> Selected)
      BY <2>2 DEF readerVars, SnapshotInv, ReaderType, StepInv, Selected
    <2>4. \A n : Content(index, n)' = Content(index, n) /\ Present(index, n)' = Present(index, n)
      BY <2>1, <2>2 DEF readerVars
    <2>5. DeliveryInv'
      BY <2>1, <2>2, <2>3, <2>4 DEF readerVars, SnapshotInv, DeliveryInv
    <2>6. LimitInv'
      <3>1. WalPages(WalSize)' = WalPages(WalSize)
        BY <2>1 DEF WalPages
      <3> QED BY <2>1, <2>2, <3>1 DEF readerVars, SnapshotInv, LimitInv
    <2> QED BY <2>1, <2>3, <2>5, <2>6 DEF SnapshotInv
  <1>2. CASE Reading
    BY <1>2, AuthenticateInv, OpenDatabaseInv, BeginReadInv, CheckCountInv, VisitInv,
       VisitEndInv, ReleaseInv DEF Reading
  <1> QED BY <1>1, <1>2, PreparingInv, OpenInputInv, ChangingInv DEF Next

\* The inductive invariant: what the files hold, which status and
\* deliveries go with which step, and that what was delivered is authentic.
THEOREM SnapshotInvariant == Spec => []SnapshotInv
  BY InitInv, NextInv, PTL DEF Spec

\* The types hold for every writer, WAL, crash, forgery and change.
THEOREM SnapshotTypeCorrectness == Spec => []TypeOK
PROOF
  <1>1. SnapshotInv => TypeOK
    <2> SUFFICES ASSUME SnapshotInv PROVE TypeOK
      OBVIOUS
    <2>1. crashes = 0 => tx.at <= Len(wal)
      BY DEF SnapshotInv, FilesInv, TxInv, NoTx
    <2>2. Len(delivered) \in {number - 1, number}
      BY DEF SnapshotInv, StepInv
    <2> QED BY <2>1, <2>2 DEF SnapshotInv, FilesInv, ReaderType, TypeOK
  <1> QED BY <1>1, SnapshotInvariant, PTL

\* Every page the callback ever receives was authenticated with the caller's
\* keys for its own number, even if the files change while they are read.
THEOREM AuthenticDelivery == Spec => []OnlyAuthenticatedPagesDelivered
PROOF
  <1>1. SnapshotInv => OnlyAuthenticatedPagesDelivered
    BY GenuineIsAuthentic
       DEF SnapshotInv, DeliveryInv, OnlyAuthenticatedPagesDelivered
  <1> QED BY <1>1, SnapshotInvariant, PTL

\* What a caller has of files that did not change is the selection, and of
\* files nobody forged the last surviving commit.
LEMMA Faithful ==
  ASSUME SnapshotInv, late = 0
  PROVE  /\ status = "ok" => Selected /\ Len(delivered) = count
         /\ ~Selected => Len(delivered) = 0 /\ count = 0
         /\ Selected => /\ index = FrameIndex /\ count = Content(FrameIndex, 1).data.size
                        /\ Len(delivered) \in 0 .. count
                        /\ \A n \in DOMAIN delivered : delivered[n] = Content(FrameIndex, n)
         /\ Selected /\ forgeries = 0 =>
              /\ count = Len(LastCommittedImage)
              /\ \A n \in DOMAIN delivered : delivered[n] = LastCommittedImage[n]
PROOF
  <1> DEFINE l == Len(delivered)
  <1>1. /\ count \in Nat /\ number \in Nat \ {0} /\ l \in Nat
        /\ DOMAIN delivered = 1 .. l
    BY WalFilesAssumption DEF SnapshotInv, ReaderType
  <1>2. status = "ok" => Selected /\ l = count
    <2>1. status = "ok" => Selected /\ l = number - 1 /\ number = count + 1
      BY DEF SnapshotInv, StepInv, Selected
    <2> HIDE DEF l
    <2> QED BY <1>1, <2>1
  <1>3. ~Selected => Len(delivered) = 0 /\ count = 0
    BY DEF SnapshotInv, StepInv, Selected
  <1>4. l \in 0 .. count
    <2>1. \/ l = number /\ number <= count
          \/ l = number - 1 /\ number <= count + 1
      BY DEF SnapshotInv, StepInv
    <2> HIDE DEF l
    <2> QED BY <1>1, <2>1
  <1>5. Selected => /\ index = FrameIndex /\ count = Content(FrameIndex, 1).data.size
                    /\ \A n \in DOMAIN delivered : delivered[n] = Content(FrameIndex, n)
    BY DEF SnapshotInv, DeliveryInv
  <1>6. ASSUME Selected, forgeries = 0
        PROVE  /\ count = Len(LastCommittedImage)
               /\ \A n \in DOMAIN delivered : delivered[n] = LastCommittedImage[n]
    <2>1. count = Len(LastCommittedImage)
      BY <1>5, <1>6, SelectionCount DEF SnapshotInv
    <2>2. ASSUME NEW n \in DOMAIN delivered PROVE delivered[n] = LastCommittedImage[n]
      <3>1. n \in 1 .. Len(LastCommittedImage)
        BY <1>1, <1>4, <2>1
      <3> QED BY <1>5, <1>6, <3>1, SelectionIsCommitted DEF SnapshotInv
    <2> QED BY <2>1, <2>2
  <1> QED BY <1>2, <1>3, <1>4, <1>5, <1>6

LEMMA NoChange ==
  ASSUME SnapshotInv, forgeries + late = 0
  PROVE  forgeries = 0 /\ late = 0
  BY SnapshotAssumption, WalFilesAssumption DEF SnapshotInv, FilesInv, ReaderType

\* From files that only a crash has damaged, the callback receives a prefix of
\* the image of the last surviving commit.
THEOREM LastCommitIsDelivered == Spec => []DeliversLastCommit
PROOF
  <1>1. SnapshotInv => DeliversLastCommit
    <2> SUFFICES ASSUME SnapshotInv, forgeries + late = 0
                 PROVE  IsPrefix(delivered, LastCommittedImage)
      BY DEF DeliversLastCommit
    <2> DEFINE k == Len(delivered)
               image == LastCommittedImage
    <2>1. /\ delivered \in Seq(PhysicalPages) /\ image \in Seq(PhysicalPages)
          /\ Len(image) \in Nat /\ k \in Nat /\ DOMAIN delivered = 1 .. k
      BY NoChange, Recovered, WalFilesAssumption DEF SnapshotInv, ReaderType
    <2>2. k <= Len(image) /\ \A n \in 1 .. k : delivered[n] = image[n]
      <3>1. CASE Selected
        BY <2>1, <3>1, NoChange, Faithful
      <3>2. CASE ~Selected
        BY <2>1, <3>2, NoChange, Faithful
      <3> QED BY <3>1, <3>2
    <2> HIDE DEF image
    <2>3. k \in 0 .. Len(delivered) /\ k \in 0 .. Len(image)
      BY <2>1, <2>2
    <2>4. /\ SubSeq(delivered, 1, k) \in Seq(PhysicalPages) /\ Len(SubSeq(delivered, 1, k)) = k
          /\ \A i \in 1 .. k : SubSeq(delivered, 1, k)[i] = delivered[i]
      BY <2>1, <2>3, Prefix
    <2>5. /\ SubSeq(image, 1, k) \in Seq(PhysicalPages) /\ Len(SubSeq(image, 1, k)) = k
          /\ \A i \in 1 .. k : SubSeq(image, 1, k)[i] = image[i]
      BY <2>1, <2>3, Prefix
    <2>6. SubSeq(delivered, 1, k) = SubSeq(image, 1, k)
      BY <2>2, <2>4, <2>5, SeqEqual
    <2> QED BY <2>2, <2>6 DEF IsPrefix, image
  <1> QED BY <1>1, SnapshotInvariant, PTL

\* A visit that succeeds on such files has delivered all of that image.
THEOREM SuccessDeliversAll == Spec => []SuccessIsComplete
PROOF
  <1>1. SnapshotInv => SuccessIsComplete
    <2> SUFFICES ASSUME SnapshotInv, forgeries + late = 0, status = "ok"
                 PROVE  delivered = LastCommittedImage
      BY DEF SuccessIsComplete
    <2>1. delivered \in Seq(PhysicalPages) /\ LastCommittedImage \in Seq(PhysicalPages)
      BY NoChange, Recovered DEF SnapshotInv, ReaderType
    <2>2. /\ Len(delivered) = Len(LastCommittedImage)
          /\ \A n \in DOMAIN delivered : delivered[n] = LastCommittedImage[n]
      BY NoChange, Faithful
    <2>3. DOMAIN delivered = 1 .. Len(delivered)
      BY <2>1
    <2> QED BY <2>1, <2>2, <2>3, SeqEqual
  <1> QED BY <1>1, SnapshotInvariant, PTL

\* The bound on page numbers that connect takes from the file sizes refuses no
\* image the writer committed, and the codec can decode every page of it.
THEOREM CommittedImagesAdmitted == Spec => []BoundAdmitsCommittedImages
PROOF
  <1>1. SnapshotInv => BoundAdmitsCommittedImages
    <2> SUFFICES ASSUME SnapshotInv, forgeries = 0, late = 0
                 PROVE  /\ status # "SnapshotSize"
                        /\ keys = WriterKeys /\ count > 0 =>
                             \A n \in 1 .. count : Decodes(index, n)
      BY NoChange DEF BoundAdmitsCommittedImages
    <2>1. status # "SnapshotSize"
      BY DEF SnapshotInv, LimitInv
    <2>2. ASSUME keys = WriterKeys, count > 0, NEW n \in 1 .. count
          PROVE  Decodes(index, n)
      <3>1. Selected /\ index = FrameIndex /\ count = Len(LastCommittedImage)
        BY <2>2, Faithful
      <3>2. /\ Present(index, n) /\ Genuine(keys, n, Content(index, n))
            /\ index[n] = 0 => n <= Len(main)
        BY <2>2, <3>1, SelectionIsCommitted DEF SnapshotInv
      <3>3. /\ page_count = Len(main)
            /\ wal_page_limit = SaturatingU32(Len(main) + WalPages(WalSize))
        BY <2>2, KeysAreNotNone DEF SnapshotInv, LimitInv
      <3>4. n <= wal_page_limit
        <4>1. count <= wal_page_limit
          BY <3>1, <3>3, SelectionCount DEF SnapshotInv
        <4>2. count \in Nat /\ wal_page_limit \in Nat
          BY SnapshotAssumption, WalFilesAssumption DEF SnapshotInv, ReaderType
        <4> QED BY <2>2, <4>1, <4>2
      <3>5. InRange(Location(index, n), n)
        BY <3>2, <3>3, <3>4 DEF InRange, Location
      <3> QED BY <3>2, <3>5 DEF Decodes
    <2> QED BY <2>1, <2>2
  <1> QED BY <1>1, SnapshotInvariant, PTL

\* A visit that succeeds has delivered the whole selected image and nothing
\* else, every page authentic, whatever was done to the files before.
THEOREM AuthenticSelection == Spec => []SuccessAuthenticatesSelection
PROOF
  <1>1. SnapshotInv => SuccessAuthenticatesSelection
    <2> SUFFICES ASSUME SnapshotInv, late = 0, status = "ok"
                 PROVE  /\ Len(delivered) = Content(FrameIndex, 1).data.size
                        /\ \A n \in DOMAIN delivered :
                             /\ delivered[n] = Content(FrameIndex, n)
                             /\ delivered[n].keys = keys /\ delivered[n].no = n
      BY DEF SuccessAuthenticatesSelection
    <2>1. \A n \in DOMAIN delivered : delivered[n].keys = keys /\ delivered[n].no = n
      BY GenuineIsAuthentic DEF SnapshotInv, DeliveryInv
    <2> QED BY <2>1, Faithful
  <1> QED BY <1>1, SnapshotInvariant, PTL

\* After the first failure nothing is delivered and the error stands.
THEOREM FailureIsFinal == Spec => NothingAfterFailure
PROOF
  <1>1. SnapshotInv /\ [Next]_vars => [status # "none" => UNCHANGED <<delivered, status>>]_vars
    <2> SUFFICES ASSUME SnapshotInv, Next, status # "none"
                 PROVE  UNCHANGED <<delivered, status>>
      OBVIOUS
    <2>1. pc \in {"failing", "done"}
      BY DEF SnapshotInv, StepInv
    <2> QED BY <2>1 DEF Next, Preparing, readerVars, OpenInput, Reading, Changing, Authenticate,
              OpenDatabase, BeginRead, CheckCount, Visit, VisitEnd, Release
  <1> QED BY <1>1, SnapshotInvariant, PTL DEF Spec, NothingAfterFailure

-----------------------------------------------------------------------------
(* The committed snapshot: WalSnapshot implements CommittedSnapshot.       *)

\* What can be recovered are the first of the images ever committed, and the
\* last of them is the one a crash-only visit is of.
LEMMA RecoverableImages ==
  ASSUME FilesInv
  PROVE  /\ SurvivingCommits \in 0 .. Len(ends)
         /\ Recoverable \in Seq(Images) /\ Len(Recoverable) = SurvivingCommits + 1
         /\ \A i \in 1 .. SurvivingCommits + 1 : Recoverable[i] = history[i]
         /\ Abstract!Snapshot = LastCommittedImage
PROOF
  <1>1. SurvivingCommits \in 0 .. Len(ends)
    BY SurvivingPrefix
  <1>2. history \in Seq(Images) /\ Len(history) = Len(ends) + 1 /\ Len(ends) \in Nat
    BY DEF FilesInv
  <1>3. SurvivingCommits + 1 \in 0 .. Len(history)
    BY <1>1, <1>2
  <1>4. /\ Recoverable \in Seq(Images) /\ Len(Recoverable) = SurvivingCommits + 1
        /\ \A i \in 1 .. SurvivingCommits + 1 : Recoverable[i] = history[i]
    BY <1>2, <1>3, Prefix DEF Recoverable
  <1>5. Abstract!Snapshot = LastCommittedImage
    BY <1>1, <1>4 DEF Abstract!Snapshot, LastCommittedImage
  <1> QED BY <1>1, <1>4, <1>5

\* Before a crash every commit survives.
LEMMA AllSurvive ==
  ASSUME FilesInv, CrashInv, forgeries = 0, crashes = 0
  PROVE  SurvivingCommits = Len(ends) /\ Recoverable = history
PROOF
  <1>1. /\ SurvivingCommits \in 0 .. Len(ends)
        /\ \A c \in 1 .. Len(ends) : ends[c] <= ValidFrames <=> c <= SurvivingCommits
    BY SurvivingPrefix
  <1>2. /\ history \in Seq(Images) /\ Len(history) = Len(ends) + 1 /\ Len(ends) \in Nat
        /\ ends \in Seq(1 .. MaxFrames) /\ CommittedFrames <= Len(wal) /\ Len(wal) \in Nat
    BY DEF FilesInv
  <1>3. SurvivingCommits = Len(ends)
    <2>1. CASE Len(ends) = 0
      BY <1>1, <2>1
    <2>2. CASE Len(ends) # 0
      <3>1. CommittedFrames = ends[Len(ends)] /\ Len(ends) \in 1 .. Len(ends)
        BY <1>2, <2>2, LastEnd DEF End
      <3>2. CommittedFrames \in 0 .. Len(wal)
        BY <1>2, CommittedType, WalFilesAssumption
      <3>3. CommittedFrames <= ValidFrames
        BY <3>2, ValidPrefix DEF CrashInv
      <3>4. Len(ends) <= SurvivingCommits
        BY <1>1, <3>1, <3>3
      <3> QED BY <1>1, <1>2, <3>4
    <2> QED BY <2>1, <2>2
  <1>4. Recoverable = history
    <2>1. /\ Recoverable \in Seq(Images) /\ Len(Recoverable) = Len(history)
          /\ \A i \in 1 .. Len(history) : Recoverable[i] = history[i]
      BY <1>2, <1>3, RecoverableImages
    <2> QED BY <1>2, <2>1, SeqEqual
  <1> QED BY <1>3, <1>4

\* What these lemmas say, as formulas of one state that can be said of the
\* next one too.
SurvivorsKnown ==
  /\ SurvivingCommits \in 0 .. Len(ends) /\ ValidFrames \in 0 .. Len(wal)
  /\ \A c \in 1 .. Len(ends) : ends[c] <= ValidFrames <=> c <= SurvivingCommits
  /\ \A k \in 0 .. Len(wal) : k <= ValidFrames <=> \A j \in 1 .. k : wal[j].valid
  /\ Recoverable \in Seq(Images) /\ Len(Recoverable) = SurvivingCommits + 1
  /\ \A i \in 1 .. SurvivingCommits + 1 : Recoverable[i] = history[i]

AllSurviveNow == forgeries = 0 /\ crashes = 0 => Recoverable = history

LEMMA NextSurvivors ==
  /\ FilesInv => SurvivorsKnown
  /\ FilesInv' => SurvivorsKnown'
  /\ FilesInv /\ CrashInv => AllSurviveNow
  /\ FilesInv' /\ CrashInv' => AllSurviveNow'
PROOF
  <1>1. FilesInv => SurvivorsKnown
    BY SurvivingPrefix, ValidPrefix, SelectionType, RecoverableImages DEF SurvivorsKnown
  <1>2. FilesInv /\ CrashInv => AllSurviveNow
    BY AllSurvive DEF AllSurviveNow
  <1> QED BY <1>1, <1>2, PTL

-----------------------------------------------------------------------------
(* What a crash leaves.                                                    *)

LEMMA InitCrash == Init => CrashInv
PROOF
  <1> SUFFICES ASSUME Init PROVE CrashInv
    OBVIOUS
  <1>1. main = history[1] /\ ~main_rest /\ keys = NoKeys
    BY DEF Init, FilesInit
  <1>2. CommittedFrames = 0 /\ tx = NoTx
    BY DEF Init, FilesInit, CommittedFrames
  <1> QED BY <1>1, <1>2 DEF CrashInv

\* What a frame adds to the image of its transaction is an image.
LEMMA NewImage ==
  ASSUME FilesInv, TxInv, crashes = 0, NEW n \in 1 .. MaxPages, WriteFrame(n)
  PROVE  [tx.image EXCEPT ![n] = Written(n, Len(ends) + 1, tx.size)] \in Images
PROOF
  <1> DEFINE page == Written(n, Len(ends) + 1, tx.size)
  <1>1. /\ tx.image \in Seq(PhysicalPages) /\ Len(tx.image) = tx.size
        /\ tx.size \in 1 .. MaxPages /\ n \in 1 .. Len(tx.image) /\ page \in PhysicalPages
    BY WriteFrameEffect
  <1> HIDE DEF page
  <1>2. /\ [tx.image EXCEPT ![n] = page] \in Seq(PhysicalPages)
        /\ Len([tx.image EXCEPT ![n] = page]) = tx.size
    BY <1>1
  <1> QED BY <1>1, <1>2 DEF Images, page

LEMMA WriteFrameCrash ==
  ASSUME FilesInv, TxInv, CrashInv, forgeries = 0, crashes = 0, UNCHANGED keys,
         NEW n \in 1 .. MaxPages, WriteFrame(n)
  PROVE  CrashInv'
PROOF
  <1> DEFINE at == tx.at + 1
  <1>1. /\ tx # NoTx /\ tx.at \in Nat /\ CommittedFrames <= tx.at
        /\ \A j \in 1 .. tx.at : wal'[j] = wal[j]
        /\ wal'[at].valid
    <2>1. /\ tx # NoTx /\ tx.at \in 0 .. Len(wal) /\ CommittedFrames <= tx.at
          /\ \A j \in 1 .. tx.at : wal'[j] = wal[j]
          /\ wal'[at] = [page_no |-> n, page |-> Written(n, Len(ends) + 1, tx.size),
                         valid |-> TRUE, commit |-> IF tx.todo = {n} THEN tx.size ELSE 0]
      BY WriteFrameEffect
    <2> QED BY <2>1 DEF FilesInv
  <1>2. \A j \in 1 .. tx.at : wal[j].valid
    BY <1>1 DEF CrashInv
  <1>3. \A j \in 1 .. at : wal'[j].valid
    BY <1>1, <1>2
  <1>4. /\ UNCHANGED <<main, main_rest, crashes, forgeries>>
        /\ \/ UNCHANGED history
           \/ history' = Append(history, [tx.image EXCEPT ![n] =
                                            Written(n, Len(ends) + 1, tx.size)])
    BY DEF WriteFrame
  <1>5. history'[1] = history[1]
    <2>1. history \in Seq(Images) /\ Len(history) \in Nat \ {0}
      BY DEF FilesInv
    <2> QED BY <1>4, <2>1, NewImage, AppendProperties
  <1>6. CASE UNCHANGED ends /\ tx' = [tx EXCEPT !.todo = @ \ {n},
                                        !.image = [tx.image EXCEPT ![n] =
                                          Written(n, Len(ends) + 1, tx.size)],
                                        !.at = at]
    <2>1. CommittedFrames' = CommittedFrames /\ CommittedFrames \in Nat
      BY <1>6, CommittedType, WalFilesAssumption DEF CommittedFrames
    <2>2. tx'.at = at
      BY <1>6 DEF TxInv, Transactions
    <2>3. \A j \in 1 .. CommittedFrames : j \in 1 .. at
      BY <1>1, <2>1
    <2> QED BY <1>3, <1>4, <1>5, <2>1, <2>2, <2>3 DEF CrashInv
  <1>7. CASE ends' = Append(ends, at) /\ tx' = NoTx
    <2>1. CommittedFrames' = at
      BY <1>7 DEF CommittedFrames, Last, FilesInv
    <2> QED BY <1>3, <1>4, <1>5, <1>7, <2>1 DEF CrashInv
  <1> QED BY <1>6, <1>7 DEF WriteFrame

LEMMA FilesCrash ==
  ASSUME FilesInv, TxInv, CrashInv, UNCHANGED keys,
         (crashes + forgeries = 0 /\ Writing) \/ Crashing \/ Forging
  PROVE  CrashInv'
PROOF
  <1>1. forgeries \in Nat /\ crashes \in Nat
    BY WalFilesAssumption DEF FilesInv
  <1>2. CASE Forging
    <2>1. forgeries' = forgeries + 1
      BY <1>2 DEF Forging, ForgeFrame, ForgeMain, CutMain, Forge
    <2> QED BY <1>1, <2>1 DEF CrashInv
  <1>3. CASE Crashing
    <2>1. crashes' = crashes + 1 /\ UNCHANGED <<main, main_rest, history, forgeries>>
      BY <1>3 DEF Crashing, CutWal, CutWalHeader, BreakChecksum, Crash
    <2> QED BY <1>1, <2>1 DEF CrashInv
  <1>4. CASE crashes + forgeries = 0 /\ Writing
    <2>1. crashes = 0 /\ forgeries = 0
      BY <1>1, <1>4
    <2>2. ASSUME NEW size \in 1 .. MaxPages, NEW todo \in SUBSET (1 .. size),
                 Begin(size, todo)
          PROVE  CrashInv'
      <3>1. UNCHANGED <<main, main_rest, wal, history, ends, forgeries, crashes>>
            /\ tx'.at = CommittedFrames
        BY <2>2 DEF Begin, files
      <3>2. CommittedFrames' = CommittedFrames
        BY <3>1 DEF CommittedFrames
      <3> QED BY <3>1, <3>2 DEF CrashInv
    <2>3. ASSUME Rollback PROVE CrashInv'
      <3>1. UNCHANGED <<main, main_rest, wal, history, ends, forgeries, crashes>>
            /\ tx' = NoTx
        BY <2>3 DEF Rollback, files
      <3>2. CommittedFrames' = CommittedFrames
        BY <3>1 DEF CommittedFrames
      <3> QED BY <3>1, <3>2 DEF CrashInv
    <2> QED BY <1>4, <2>1, <2>2, <2>3, WriteFrameCrash DEF Writing
  <1> QED BY <1>2, <1>3, <1>4

\* The main file a crash leaves is one that connect accepts, and its first page
\* authenticates with the writer's keys only.
LEMMA MainIsWhole ==
  ASSUME FilesInv, RecoveryInv, CrashInv, forgeries = 0
  PROVE  /\ MainStatus(MainSize) = "ok"
         /\ \A k : DecryptError(k, 1, main[1]) =
                     IF k = WriterKeys THEN "ok" ELSE "AuthenticationFailed"
PROOF
  <1>1. /\ main = history[1] /\ ~main_rest /\ history[1] \in Images
        /\ Len(main) \in 1 .. MaxPages
    <2>1. main = history[1] /\ ~main_rest
      BY DEF CrashInv
    <2>2. history[1] \in Images
      BY DEF FilesInv
    <2> QED BY <2>1, <2>2 DEF Images
  <1>2. MainStatus(MainSize) = "ok"
    <2> DEFINE size == MainSize
    <2>1. Len(main) \in Nat \ {0} /\ PageSize \in Nat \ {0} /\ Len(main) <= U32Max
      BY <1>1, SnapshotAssumption, WalFilesAssumption, LayoutAssumption
    <2>2. size = Len(main) * PageSize
      BY <1>1, <2>1 DEF MainSize
    <2>3. size = PageSize * Len(main) + 0 /\ size \in Nat
      BY <2>1, <2>2
    <2>4. size >= PageSize
      BY <2>1, <2>2, SMT
    <2> HIDE DEF size
    <2>5. size \div PageSize = Len(main) /\ size % PageSize = 0
      BY <2>1, <2>3, DivUnique
    <2>6. /\ size # 0 /\ ~(size < PageSize) /\ ~(size % PageSize # 0)
          /\ ~(size \div PageSize > U32Max)
      BY <2>1, <2>3, <2>4, <2>5, SnapshotAssumption
    <2>7. MainStatus(size) = "ok"
      BY <2>6, Zenon DEF MainStatus
    <2> QED BY <2>7 DEF size
  <1>3. Genuine(WriterKeys, 1, main[1])
    <2>1. IsWritten(history[1], 1 .. Len(history[1]))
      <3>1. 0 \in 0 .. Len(ends)
        BY DEF FilesInv
      <3> QED BY <3>1 DEF RecoveryInv
    <2> QED BY <1>1, <2>1 DEF IsWritten
  <1> QED BY <1>2, <1>3 DEF Genuine, DecryptError, VerifyPageHmac

\* The writer's keys are those of this caller, or the caller is turned away.
LEMMA AuthenticateOutcome ==
  ASSUME FilesInv, RecoveryInv, CrashInv, forgeries = 0,
         NEW passphrase \in Passphrases, Authenticate(passphrase)
  PROVE  \/ /\ pc' = "failing" /\ UNCHANGED keys
            /\ status' \in {"EmptyPassphrase", "Source", "AuthenticationFailed"}
         \/ pc' = "checked" /\ keys' = WriterKeys /\ UNCHANGED status
  BY MainIsWhole DEF Authenticate, Fail

LEMMA StepCrash == SnapshotInv /\ CrashInv /\ [Next]_vars => CrashInv'
PROOF
  <1> SUFFICES ASSUME SnapshotInv, CrashInv, [Next]_vars PROVE CrashInv'
    OBVIOUS
  <1>1. CASE Preparing \/ Changing
    <2>1. UNCHANGED keys
      BY <1>1 DEF Preparing, Changing, readerVars
    <2> QED BY <1>1, <2>1, FilesCrash DEF Preparing, Changing, SnapshotInv
  <1>2. ASSUME UNCHANGED fileVars, forgeries = 0 /\ keys' # NoKeys => keys' = WriterKeys
        PROVE  CrashInv'
    <2>1. CommittedFrames' = CommittedFrames
      BY <1>2 DEF fileVars, CommittedFrames
    <2> QED BY <1>2, <2>1 DEF CrashInv, fileVars
  <1>3. CASE \E passphrase \in Passphrases : Authenticate(passphrase)
    <2>1. PICK passphrase \in Passphrases : Authenticate(passphrase)
      BY <1>3
    <2>2. UNCHANGED fileVars
      BY <2>1 DEF Authenticate
    <2>3. forgeries = 0 /\ keys' # NoKeys => keys' = WriterKeys
      BY <2>1, AuthenticateOutcome DEF SnapshotInv, CrashInv
    <2> QED BY <1>2, <2>2, <2>3
  <1>4. CASE OpenInput \/ OpenDatabase \/ BeginRead \/ CheckCount \/ Visit \/ VisitEnd
             \/ Release \/ UNCHANGED vars
    <2>1. UNCHANGED fileVars /\ UNCHANGED keys
      BY <1>4 DEF OpenInput, OpenDatabase, BeginRead, CheckCount, Visit, VisitEnd,
                  Release, vars, fileVars
    <2>2. forgeries = 0 /\ keys' # NoKeys => keys' = WriterKeys
      BY <2>1 DEF CrashInv
    <2> QED BY <1>2, <2>1, <2>2
  <1> QED BY <1>1, <1>3, <1>4 DEF Next, Reading

-----------------------------------------------------------------------------
(* The steps of the committed snapshot.                                    *)

\* The state the refinement starts every step from.
CrashOnly == SnapshotInv /\ CrashInv /\ forgeries = 0 /\ late = 0

LEMMA InitRefines == Init => Abstract!Init
PROOF
  <1> SUFFICES ASSUME Init PROVE Abstract!Init
    OBVIOUS
  <1>1. FilesInv /\ SurvivorsKnown
    BY FilesInitInv, NextSurvivors DEF Init
  <1>2. Len(ends) = 0
    BY DEF Init, FilesInit
  <1>3. Recoverable \in Seq(Images) /\ Len(Recoverable) = 1
    BY <1>1, <1>2 DEF SurvivorsKnown
  <1>4. Recoverable \in [1 .. 1 -> Images]
    BY <1>3, LenProperties
  <1>5. ~(pc # "absent") /\ ~(keys = WriterKeys) /\ delivered = << >> /\ status = "none"
    BY KeysAreNotNone DEF Init
  <1> QED BY <1>4, <1>5 DEF Abstract!Init

\* A step of the writer commits or is not seen.
LEMMA WritingRefines ==
  ASSUME CrashOnly, CrashOnly', Preparing, crashes = 0, Writing
  PROVE  Abstract!Commit \/ UNCHANGED Abstract!vars
PROOF
  <1>1. pc = "absent" /\ UNCHANGED readerVars
    BY DEF Preparing
  <1>2. crashes' = crashes
    BY DEF Writing, Begin, WriteFrame, Rollback
  <1>3. Recoverable = history /\ Recoverable' = history'
    BY <1>2, NextSurvivors DEF CrashOnly, SnapshotInv, AllSurviveNow
  <1>4. history \in Seq(Images) /\ Len(history) \in Nat \ {0}
    BY DEF CrashOnly, SnapshotInv, FilesInv
  <1>5. CASE UNCHANGED history
    BY <1>1, <1>3, <1>5 DEF Abstract!vars, readerVars
  <1>6. ASSUME NEW image \in Images, history' = Append(history, image)
        PROVE  Abstract!Commit
    <2>1. /\ history' \in Seq(Images) /\ Len(history') = Len(history) + 1
          /\ \A i \in 1 .. Len(history) : history'[i] = history[i]
          /\ history'[Len(history) + 1] = image
      BY <1>4, <1>6, AppendProperties
    <2>2. SubSeq(history', 1, Len(history)) = history
      <3>1. Len(history) \in 0 .. Len(history')
        BY <1>4, <2>1
      <3>2. /\ SubSeq(history', 1, Len(history)) \in Seq(Images)
            /\ Len(SubSeq(history', 1, Len(history))) = Len(history)
            /\ \A i \in 1 .. Len(history) : SubSeq(history', 1, Len(history))[i] = history'[i]
        BY <2>1, <3>1, Prefix
      <3> QED BY <1>4, <2>1, <3>2, SeqEqual
    <2> QED BY <1>1, <1>3, <2>1, <2>2 DEF Abstract!Commit, readerVars
  <1>7. ASSUME NEW n \in 1 .. MaxPages, WriteFrame(n)
        PROVE  \/ UNCHANGED history
               \/ \E image \in Images : history' = Append(history, image)
    BY <1>7, NewImage DEF WriteFrame, CrashOnly, SnapshotInv
  <1> QED BY <1>5, <1>6, <1>7 DEF Writing, Begin, Rollback

\* A crash loses the latest commits or none.
LEMMA CrashingRefines ==
  ASSUME CrashOnly, CrashOnly', Preparing, Crashing
  PROVE  Abstract!Lose \/ UNCHANGED Abstract!vars
PROOF
  <1>1. pc = "absent" /\ UNCHANGED readerVars
    BY DEF Preparing
  <1>2. /\ UNCHANGED <<history, ends>> /\ wal \in Seq(Frames) /\ wal' \in Seq(Frames)
        /\ Len(wal') <= Len(wal)
        /\ \A j \in 1 .. Len(wal') : wal'[j].valid => wal[j].valid
    <2>1. wal \in Seq(Frames) /\ wal' \in Seq(Frames) /\ Len(wal) <= MaxFrames
      BY DEF CrashOnly, SnapshotInv, FilesInv
    <2>2. UNCHANGED <<history, ends>>
      BY DEF Crashing, CutWal, CutWalHeader, BreakChecksum, Crash
    <2>3. ASSUME NEW k \in 0 .. MaxFrames, NEW rest \in BOOLEAN, CutWal(k, rest)
          PROVE  Len(wal') <= Len(wal) /\ \A j \in 1 .. Len(wal') : wal'[j] = wal[j]
      <3>1. k \in 0 .. Len(wal) /\ wal' = SubSeq(wal, 1, k)
        BY <2>1, <2>3, WalFilesAssumption DEF CutWal
      <3> QED BY <2>1, <3>1, Prefix
    <2>4. ASSUME CutWalHeader PROVE Len(wal') = 0
      BY <2>4, EmptySeq DEF CutWalHeader
    <2>5. ASSUME NEW k \in 1 .. MaxFrames, BreakChecksum(k)
          PROVE  Len(wal') = Len(wal) /\ \A j \in 1 .. Len(wal') : wal'[j].valid => wal[j].valid
      <3>1. wal' = [j \in 1 .. Len(wal) |-> IF j < k THEN wal[j]
                                            ELSE [wal[j] EXCEPT !.valid = FALSE]]
        BY <2>1, <2>5 DEF BreakChecksum
      <3>2. \A j \in 1 .. Len(wal) : wal[j] \in Frames
        BY <2>1
      <3>3. Len(wal') = Len(wal)
        BY <2>1, <3>1
      <3> QED BY <3>1, <3>2, <3>3 DEF Frames
    <2> QED BY <2>1, <2>2, <2>3, <2>4, <2>5 DEF Crashing
  <1>3. FilesInv /\ SurvivorsKnown /\ SurvivorsKnown'
    BY NextSurvivors DEF CrashOnly, SnapshotInv
  <1> DEFINE s == SurvivingCommits
             t == SurvivingCommits'
             v == ValidFrames'
  <1>4. v <= ValidFrames
    <2>1. v \in 0 .. Len(wal') /\ v \in 0 .. Len(wal) /\ Len(wal') \in Nat /\ Len(wal) \in Nat
      BY <1>2, <1>3 DEF SurvivorsKnown
    <2>2. \A j \in 1 .. v : wal'[j].valid
      BY <1>3, <2>1 DEF SurvivorsKnown
    <2>3. \A j \in 1 .. v : wal[j].valid
      BY <1>2, <2>1, <2>2
    <2> HIDE DEF v
    <2> QED BY <1>3, <2>1, <2>3 DEF SurvivorsKnown
  <1>5. s \in 0 .. Len(ends) /\ t \in 0 .. s /\ Len(ends) \in Nat
    <2>1. s \in 0 .. Len(ends) /\ t \in 0 .. Len(ends) /\ Len(ends) \in Nat
      BY <1>2, <1>3 DEF SurvivorsKnown, FilesInv
    <2>2. CASE t # 0
      <3>1. t \in 1 .. Len(ends) /\ ends[t] \in Nat
        BY <1>3, <2>1, <2>2, EndBound, WalFilesAssumption
      <3>2. ends[t] <= v
        BY <1>2, <1>3, <3>1 DEF SurvivorsKnown
      <3>3. ends[t] <= ValidFrames
        <4>1. v \in Nat /\ ValidFrames \in Nat
          BY <1>2, <1>3 DEF SurvivorsKnown
        <4> HIDE DEF v, t
        <4> QED BY <1>4, <3>1, <3>2, <4>1
      <3>4. t <= s
        BY <1>3, <3>1, <3>3 DEF SurvivorsKnown
      <3> QED BY <2>1, <3>4
    <2> QED BY <2>1, <2>2
  <1>6. /\ Recoverable \in Seq(Images) /\ Len(Recoverable) = s + 1
        /\ Recoverable' \in Seq(Images) /\ Len(Recoverable') = t + 1
        /\ \A i \in 1 .. t + 1 : Recoverable'[i] = Recoverable[i]
    <2>1. /\ Recoverable \in Seq(Images) /\ Len(Recoverable) = s + 1
          /\ \A i \in 1 .. s + 1 : Recoverable[i] = history[i]
          /\ Recoverable' \in Seq(Images) /\ Len(Recoverable') = t + 1
          /\ \A i \in 1 .. t + 1 : Recoverable'[i] = history[i]
      BY <1>2, <1>3 DEF SurvivorsKnown
    <2> HIDE DEF s, t
    <2> QED BY <1>5, <2>1
  <1>7. CASE t = s
    <2>1. Recoverable' = Recoverable
      BY <1>6, <1>7, SeqEqual
    <2> QED BY <1>1, <2>1 DEF Abstract!vars, readerVars
  <1>8. CASE t # s
    <2> DEFINE k == t + 1
    <2>1. k \in 1 .. Len(Recoverable) - 1 /\ k \in 0 .. Len(Recoverable)
      <3>1. s \in Nat /\ t \in 0 .. s /\ Len(Recoverable) = s + 1 /\ t # s
        BY <1>5, <1>6, <1>8
      <3> HIDE DEF s, t
      <3> QED BY <3>1
    <2>2. /\ SubSeq(Recoverable, 1, k) \in Seq(Images) /\ Len(SubSeq(Recoverable, 1, k)) = k
          /\ \A i \in 1 .. k : SubSeq(Recoverable, 1, k)[i] = Recoverable[i]
      BY <1>6, <2>1, Prefix
    <2>3. Recoverable' = SubSeq(Recoverable, 1, k)
      BY <1>6, <2>2, SeqEqual
    <2> QED BY <1>1, <2>1, <2>3 DEF Abstract!Lose, readerVars
  <1> QED BY <1>7, <1>8

\* While the input is in use the files, and what they can recover, stay.
LEMMA RecoverableKept ==
  ASSUME UNCHANGED fileVars
  PROVE  Recoverable' = Recoverable
  BY DEF fileVars, Recoverable, SurvivingCommits

\* What an admitted caller has of the snapshot.
LEMMA Admitted ==
  ASSUME CrashOnly, pc \in {"checked", "connected", "begun", "visiting"}
  PROVE  pc # "absent" /\ status = "none" /\ keys = WriterKeys
  BY DEF CrashOnly, SnapshotInv, StepInv, CrashInv

LEMMA SnapshotIsLastCommit ==
  ASSUME CrashOnly
  PROVE  /\ Abstract!Snapshot = LastCommittedImage
         /\ LastCommittedImage \in Seq(PhysicalPages)
  BY RecoverableImages, Recovered DEF CrashOnly, SnapshotInv

\* The caller is admitted with the writer's keys, or turned away.
LEMMA AuthenticateRefines ==
  ASSUME CrashOnly, NEW passphrase \in Passphrases, Authenticate(passphrase)
  PROVE  Abstract!Admit \/ Abstract!Refuse
PROOF
  <1>1. /\ pc = "input" /\ UNCHANGED fileVars /\ UNCHANGED delivered
        /\ pc' \in {"failing", "checked"}
    BY DEF Authenticate, Fail
  <1>2. Recoverable' = Recoverable
    BY <1>1, RecoverableKept
  <1>3. status = "none" /\ keys = NoKeys /\ ~(keys = WriterKeys)
    BY <1>1, KeysAreNotNone DEF CrashOnly, SnapshotInv, StepInv
  <1>4. CASE /\ UNCHANGED keys
             /\ status' \in {"EmptyPassphrase", "Source", "AuthenticationFailed"}
    BY <1>1, <1>2, <1>3, <1>4 DEF Abstract!Refuse, Abstract!Refusals, Abstract!Running
  <1>5. CASE keys' = WriterKeys /\ UNCHANGED status
    BY <1>1, <1>2, <1>3, <1>5 DEF Abstract!Admit, Abstract!Running
  <1> QED BY <1>4, <1>5, AuthenticateOutcome DEF CrashOnly, SnapshotInv

\* Selecting an image and reading its size are not seen, unless they fail; the
\* size never does.
LEMMA ConnectRefines ==
  ASSUME CrashOnly, CrashOnly', OpenDatabase \/ BeginRead \/ CheckCount
  PROVE  Abstract!Break \/ UNCHANGED Abstract!vars
PROOF
  <1>1. /\ pc \in {"checked", "connected", "begun"} /\ pc' # "absent"
        /\ UNCHANGED fileVars /\ UNCHANGED <<keys, delivered>>
        /\ UNCHANGED status \/ status' \in {"Turso", "SnapshotSize"}
    BY DEF OpenDatabase, BeginRead, CheckCount, Fail
  <1>2. Recoverable' = Recoverable
    BY <1>1, RecoverableKept
  <1>3. status' # "SnapshotSize"
    BY DEF CrashOnly, SnapshotInv, LimitInv
  <1>4. pc # "absent" /\ status = "none" /\ keys = WriterKeys
    BY <1>1, Admitted
  <1>5. CASE UNCHANGED status
    BY <1>1, <1>2, <1>4, <1>5 DEF Abstract!vars
  <1>6. CASE status' = "Turso"
    BY <1>1, <1>2, <1>4, <1>6 DEF Abstract!Break, Abstract!Breaks, Abstract!Running
  <1> QED BY <1>1, <1>3, <1>5, <1>6

\* The page that is read is the next one of the last committed image.
LEMMA VisitRefines ==
  ASSUME CrashOnly, Visit
  PROVE  Abstract!Deliver \/ Abstract!Break
PROOF
  <1>1. /\ pc = "visiting" /\ pc' # "absent" /\ number <= count
        /\ UNCHANGED fileVars /\ UNCHANGED keys
        /\ \/ UNCHANGED delivered /\ status' \in {"Read", "PageLength"}
           \/ /\ delivered' = Append(delivered, Content(index, number))
              /\ status' \in {"none", "Callback"}
    BY DEF Visit, Reads, ReadFails, Fail, LastNumber, CrashOnly, SnapshotInv, StepInv
  <1>2. Recoverable' = Recoverable
    BY <1>1, RecoverableKept
  <1>3. pc # "absent" /\ status = "none" /\ keys = WriterKeys
    BY <1>1, Admitted
  <1>4. CASE UNCHANGED delivered /\ status' \in {"Read", "PageLength"}
    BY <1>1, <1>2, <1>3, <1>4 DEF Abstract!Break, Abstract!Breaks, Abstract!Running
  <1>5. CASE /\ delivered' = Append(delivered, Content(index, number))
             /\ status' \in {"none", "Callback"}
    <2>1. /\ index = FrameIndex /\ count = Len(LastCommittedImage)
          /\ Len(delivered) = number - 1 /\ number \in Nat \ {0}
      BY <1>1, <1>3, Faithful, WalFilesAssumption
         DEF CrashOnly, SnapshotInv, StepInv, ReaderType, Selected
    <2>2. number \in 1 .. Len(LastCommittedImage)
      BY <1>1, <2>1, SnapshotIsLastCommit
    <2>3. Content(index, number) = LastCommittedImage[number]
      BY <2>1, <2>2, SelectionIsCommitted DEF CrashOnly, SnapshotInv
    <2>4. /\ Len(delivered) < Len(LastCommittedImage)
          /\ Len(delivered) + 1 = number
      BY <2>1, <2>2, SnapshotIsLastCommit
    <2> QED BY <1>1, <1>2, <1>3, <1>5, <2>3, <2>4, SnapshotIsLastCommit
            DEF Abstract!Deliver, Abstract!Running
  <1> QED BY <1>1, <1>4, <1>5

LEMMA VisitEndRefines ==
  ASSUME CrashOnly, VisitEnd
  PROVE  Abstract!Succeed
PROOF
  <1>1. /\ pc = "visiting" /\ pc' = "done" /\ number > count /\ status' = "ok"
        /\ UNCHANGED fileVars /\ UNCHANGED <<keys, delivered>>
    BY DEF VisitEnd, LastNumber
  <1>2. Recoverable' = Recoverable
    BY <1>1, RecoverableKept
  <1>3. pc # "absent" /\ status = "none" /\ keys = WriterKeys
    BY <1>1, Admitted
  <1>4. /\ count = Len(LastCommittedImage) /\ Len(delivered) = number - 1
        /\ number <= count + 1 /\ number \in Nat /\ count \in Nat
        /\ delivered \in Seq(PhysicalPages)
        /\ \A n \in DOMAIN delivered : delivered[n] = LastCommittedImage[n]
    BY <1>1, <1>3, Faithful, WalFilesAssumption
       DEF CrashOnly, SnapshotInv, StepInv, ReaderType, Selected
  <1>5. /\ Len(delivered) = Len(LastCommittedImage)
        /\ \A n \in 1 .. Len(delivered) : delivered[n] = LastCommittedImage[n]
    BY <1>1, <1>4
  <1>6. delivered = LastCommittedImage
    BY <1>4, <1>5, SnapshotIsLastCommit, SeqEqual
  <1> QED BY <1>1, <1>2, <1>3, <1>6, SnapshotIsLastCommit
          DEF Abstract!Succeed, Abstract!Running

LEMMA StepRefines ==
  ASSUME MaxForgeries = 0, MaxLate = 0, CrashOnly, CrashOnly', [Next]_vars
  PROVE  [Abstract!Next]_(Abstract!vars)
PROOF
  <1>1. ~Forging
    <2>1. ~(forgeries < MaxForgeries)
      BY DEF CrashOnly
    <2> QED BY <2>1 DEF Forging, ForgeFrame, ForgeMain, CutMain, Forge
  <1>2. ~Changing
    BY DEF Changing, CrashOnly
  <1>3. CASE Preparing
    <2>1. CASE Crashing
      BY <1>3, <2>1, CrashingRefines DEF Abstract!Next
    <2>2. CASE crashes + forgeries = 0 /\ Writing
      <3>1. crashes = 0
        BY <2>2 DEF CrashOnly, SnapshotInv, FilesInv
      <3> QED BY <1>3, <2>2, <3>1, WritingRefines DEF Abstract!Next
    <2> QED BY <1>1, <1>3, <2>1, <2>2 DEF Preparing
  <1>4. CASE OpenInput
    <2>1. /\ pc = "absent" /\ pc' = "input"
          /\ UNCHANGED fileVars /\ UNCHANGED <<keys, delivered, status>>
      BY <1>4 DEF OpenInput
    <2>2. Recoverable' = Recoverable
      BY <2>1, RecoverableKept
    <2> QED BY <2>1, <2>2 DEF Abstract!Next, Abstract!Open
  <1>5. CASE Reading
    <2>1. CASE \E passphrase \in Passphrases : Authenticate(passphrase)
      BY <2>1, AuthenticateRefines DEF Abstract!Next
    <2>2. CASE OpenDatabase \/ BeginRead \/ CheckCount
      BY <2>2, ConnectRefines DEF Abstract!Next
    <2>3. CASE Visit
      BY <2>3, VisitRefines DEF Abstract!Next
    <2>4. CASE VisitEnd
      BY <2>4, VisitEndRefines DEF Abstract!Next
    <2>5. CASE Release
      <3>1. /\ pc = "failing" /\ pc' = "done"
            /\ UNCHANGED fileVars /\ UNCHANGED <<keys, delivered, status>>
        BY <2>5 DEF Release
      <3>2. Recoverable' = Recoverable
        BY <3>1, RecoverableKept
      <3> QED BY <3>1, <3>2 DEF Abstract!vars
    <2> QED BY <1>5, <2>1, <2>2, <2>3, <2>4, <2>5 DEF Reading
  <1>6. CASE UNCHANGED vars
    <2>1. UNCHANGED fileVars /\ UNCHANGED <<pc, keys, delivered, status>>
      BY <1>6 DEF vars, fileVars
    <2>2. Recoverable' = Recoverable
      BY <2>1, RecoverableKept
    <2> QED BY <2>1, <2>2 DEF Abstract!vars
  <1> QED BY <1>2, <1>3, <1>4, <1>5, <1>6 DEF Next

\* What a crash leaves is the main file as it was and, until there is one,
\* every frame of a commit.
THEOREM CrashInvariant == Spec => []CrashInv
  BY InitCrash, StepCrash, SnapshotInvariant, PTL DEF Spec

\* For files that are only written and crash, and do not change while they are
\* read, the WAL reader implements the log of commits: for every page layout,
\* number of frames, spill, rollback and crash, a visit is one of the last
\* image that survived, in order, and no error is about the form of the files.
THEOREM SnapshotImplementsCommitted ==
  MaxForgeries = 0 /\ MaxLate = 0 /\ Spec => RefinesCommittedSnapshot
PROOF
  <1> SUFFICES ASSUME MaxForgeries = 0, MaxLate = 0
               PROVE  Spec => RefinesCommittedSnapshot
    OBVIOUS
  <1>1. Init => Abstract!Init
    BY InitRefines
  <1>2. SnapshotInv /\ CrashInv => CrashOnly
    BY DEF CrashOnly, SnapshotInv, FilesInv, ReaderType
  <1>3. CrashOnly /\ CrashOnly' /\ [Next]_vars => [Abstract!Next]_(Abstract!vars)
    BY StepRefines
  <1> QED BY <1>1, <1>2, <1>3, SnapshotInvariant, CrashInvariant, PTL
          DEF Spec, RefinesCommittedSnapshot, Abstract!Spec
=============================================================================
