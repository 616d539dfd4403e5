----------------------- MODULE SqlCipherReader_proofs -----------------------
(***************************************************************************)
(* ReaderInv is an inductive invariant of SqlCipherReader, for every page  *)
(* layout, source, call and number of contract-breaking rewrites; the      *)
(* safety properties of the reader follow from it.  Together with ImageInv *)
(* it shows that the reader implements AuthenticatedRead.                  *)
(***************************************************************************)
EXTENDS SqlCipherReader, SequenceTheorems, TLAPS

-----------------------------------------------------------------------------
(* Division by the page size.                                              *)

LEMMA DivMod ==
  ASSUME NEW a \in Nat
  PROVE  /\ a \div PageSize \in Nat
         /\ a % PageSize \in 0 .. PageSize - 1
         /\ a = PageSize * (a \div PageSize) + (a % PageSize)
  BY LayoutAssumption

LEMMA Times ==
  ASSUME NEW a \in Int, NEW b \in Int, NEW p \in Nat, a < b
  PROVE  p * a + p <= p * b
  BY SMT

\* Quotient and remainder are the only ones.
LEMMA DivUnique ==
  ASSUME NEW q \in Nat, NEW r \in 0 .. PageSize - 1,
         NEW a \in Nat, a = PageSize * q + r
  PROVE  a \div PageSize = q /\ a % PageSize = r
PROOF
  <1> DEFINE Q == a \div PageSize
  <1> DEFINE R == a % PageSize
  <1>1. Q \in Nat /\ R \in 0 .. PageSize - 1 /\ a = PageSize * Q + R
    BY DivMod
  <1>2. PageSize \in Nat
    BY LayoutAssumption
  <1> HIDE DEF Q, R
  <1>3. CASE Q < q
    <2>1. PageSize * Q + PageSize <= PageSize * q
      BY <1>1, <1>2, <1>3, Times
    <2> QED BY <2>1, <1>1, <1>2
  <1>4. CASE q < Q
    <2>1. PageSize * q + PageSize <= PageSize * Q
      BY <1>1, <1>2, <1>4, Times
    <2> QED BY <2>1, <1>1, <1>2
  <1>5. CASE q = Q
    BY <1>1, <1>2, <1>5 DEF Q, R
  <1> QED BY <1>1, <1>3, <1>4, <1>5

\* A position k bytes further on that is still before the end of the page of a
\* is in the page of a, k bytes further on.
LEMMA SamePage ==
  ASSUME NEW a \in Nat, NEW k \in Nat, (a % PageSize) + k < PageSize
  PROVE  /\ (a + k) \div PageSize = a \div PageSize
         /\ (a + k) % PageSize = (a % PageSize) + k
PROOF
  <1> DEFINE q == a \div PageSize
  <1> DEFINE r == a % PageSize
  <1>1. q \in Nat /\ r \in 0 .. PageSize - 1 /\ a = PageSize * q + r
    BY DivMod
  <1>2. PageSize \in Nat
    BY LayoutAssumption
  <1>3. r + k < PageSize
    OBVIOUS
  <1> HIDE DEF q, r
  <1>4. r + k \in 0 .. PageSize - 1 /\ a + k \in Nat
    BY <1>1, <1>2, <1>3
  <1>5. PageSize * q \in Nat
    BY <1>1, <1>2
  <1>6. a + k = PageSize * q + (r + k)
    BY <1>1, <1>2, <1>5
  <1>7. (a + k) \div PageSize = q /\ (a + k) % PageSize = r + k
    BY <1>1, <1>4, <1>6, DivUnique
  <1> QED BY <1>7 DEF q, r

\* Later positions are in the same page or a later one.
LEMMA LaterPage ==
  ASSUME NEW a \in Nat, NEW b \in Nat, a <= b
  PROVE  a \div PageSize <= b \div PageSize
PROOF
  <1> DEFINE qa == a \div PageSize
  <1> DEFINE qb == b \div PageSize
  <1> DEFINE ra == a % PageSize
  <1> DEFINE rb == b % PageSize
  <1>1. /\ qa \in Nat /\ ra \in 0 .. PageSize - 1 /\ a = PageSize * qa + ra
        /\ qb \in Nat /\ rb \in 0 .. PageSize - 1 /\ b = PageSize * qb + rb
    BY DivMod
  <1>2. PageSize \in Nat
    BY LayoutAssumption
  <1> HIDE DEF qa, qb, ra, rb
  <1>3. ASSUME qb < qa PROVE FALSE
    <2>1. PageSize * qb + PageSize <= PageSize * qa
      BY <1>1, <1>2, <1>3, Times
    <2> QED BY <2>1, <1>1, <1>2
  <1>4. qa <= qb
    BY <1>1, <1>3
  <1> QED BY <1>4 DEF qa, qb

\* What lies before the first byte of a page is in an earlier page.
LEMMA EarlierPage ==
  ASSUME NEW a \in Nat, NEW b \in Nat, a < b, b % PageSize = 0
  PROVE  a \div PageSize < b \div PageSize
PROOF
  <1> DEFINE qa == a \div PageSize
  <1> DEFINE qb == b \div PageSize
  <1> DEFINE ra == a % PageSize
  <1>1. /\ qa \in Nat /\ ra \in 0 .. PageSize - 1 /\ a = PageSize * qa + ra
        /\ qb \in Nat /\ b = PageSize * qb + 0
    BY DivMod
  <1>2. PageSize \in Nat
    BY LayoutAssumption
  <1> HIDE DEF qa, qb, ra
  <1>3. ASSUME qb < qa PROVE FALSE
    <2>1. PageSize * qb + PageSize <= PageSize * qa
      BY <1>1, <1>2, <1>3, Times
    <2> QED BY <2>1, <1>1, <1>2
  <1>4. ASSUME qb = qa PROVE FALSE
    BY <1>1, <1>2, <1>4
  <1>5. qa < qb
    BY <1>1, <1>3, <1>4
  <1> QED BY <1>5 DEF qa, qb

\* The first byte of page n.
LEMMA PageStart ==
  ASSUME NEW n \in Nat
  PROVE  /\ (PageSize * n) \div PageSize = n
         /\ (PageSize * n) % PageSize = 0
         /\ PageSize * n \in Nat
         /\ n * PageSize = PageSize * n
PROOF
  <1>1. PageSize \in Nat /\ PageSize > 0
    BY LayoutAssumption
  <1>2. PageSize * n \in Nat /\ n * PageSize = PageSize * n /\ 0 \in 0 .. PageSize - 1
    BY <1>1
  <1>3. PageSize * n = PageSize * n + 0
    BY <1>2
  <1> QED BY <1>2, <1>3, DivUnique

-----------------------------------------------------------------------------
(* Authentication.                                                         *)

\* A page that decrypts was authenticated with these keys for this number.
LEMMA GenuineIsAuthentic ==
  ASSUME NEW keys, NEW n, NEW pg, Genuine(keys, n, pg)
  PROVE  pg.keys = keys /\ pg.no = n
  BY DEF Genuine, DecryptError, VerifyPageHmac

-----------------------------------------------------------------------------
(* Types.                                                                  *)

LEMMA ByteTypes ==
  /\ Zero \in Bytes /\ Dirty \in Bytes
  /\ \A pg \in PhysicalPages, i \in Nat :
       /\ Raw(pg, i) \in Bytes
       /\ \A n \in Nat : DecryptedByte(n, pg, i) \in Bytes
  BY DEF Bytes, Zero, Dirty, Raw, DecryptedByte, Magic, Plain

LEMMA CallTypes ==
  ASSUME NEW c \in Calls
  PROVE  /\ c.op \in {"none", "open", "page", "range"}
         /\ c.page_no \in 0 .. U32Max
         /\ c.offset \in 0 .. U64Max
         /\ c.length \in 0 .. MaxLength
         /\ c.op = "none" => c = NoCall
         /\ c.op \in {"none", "open"} => c.length = 0
         /\ c.op = "page" => c.page_no \in 1 .. U32Max
  BY BoundsAssumption
     DEF Calls, NoCall, OpenCall, PageCall, RangeCall

LEMMA CallIsTyped ==
  /\ NoCall \in Calls /\ NoCall.op = "none" /\ NoCall.length = 0
  /\ OpenCall \in Calls /\ OpenCall.op = "open" /\ OpenCall.length = 0
  /\ OpenCall # NoCall
  /\ \A n \in 1 .. U32Max, len \in 0 .. MaxLength :
       /\ PageCall(n, len) \in Calls /\ PageCall(n, len) # NoCall
       /\ PageCall(n, len).op = "page" /\ PageCall(n, len).page_no = n
       /\ PageCall(n, len).length = len
  /\ \A off \in 0 .. U64Max, len \in 0 .. MaxLength :
       /\ RangeCall(off, len) \in Calls /\ RangeCall(off, len) # NoCall
       /\ RangeCall(off, len).op = "range" /\ RangeCall(off, len).offset = off
       /\ RangeCall(off, len).length = len
PROOF
  <1>1. /\ NoCall \in Calls /\ NoCall.op = "none" /\ NoCall.length = 0
        /\ OpenCall \in Calls /\ OpenCall.op = "open" /\ OpenCall.length = 0
        /\ OpenCall # NoCall
    BY DEF Calls, NoCall, OpenCall
  <1>2. ASSUME NEW n \in 1 .. U32Max, NEW len \in 0 .. MaxLength
        PROVE  /\ PageCall(n, len) \in Calls /\ PageCall(n, len) # NoCall
               /\ PageCall(n, len).op = "page" /\ PageCall(n, len).page_no = n
               /\ PageCall(n, len).length = len
    <2>1. PageCall(n, len) \in {PageCall(m, l) : m \in 1 .. U32Max, l \in 0 .. MaxLength}
      OBVIOUS
    <2> QED BY <2>1 DEF Calls, PageCall, NoCall
  <1>3. ASSUME NEW off \in 0 .. U64Max, NEW len \in 0 .. MaxLength
        PROVE  /\ RangeCall(off, len) \in Calls /\ RangeCall(off, len) # NoCall
               /\ RangeCall(off, len).op = "range" /\ RangeCall(off, len).offset = off
               /\ RangeCall(off, len).length = len
    <2>1. RangeCall(off, len) \in {RangeCall(o, l) : o \in 0 .. U64Max, l \in 0 .. MaxLength}
      OBVIOUS
    <2> QED BY <2>1 DEF Calls, RangeCall, NoCall
  <1> QED BY <1>1, <1>2, <1>3

LEMMA ResultTypes ==
  /\ NoResult.status = "none"
  /\ \A status \in ReaderErrors \cup {"ok"}, n \in Nat :
       /\ PageResult(status, n) \in Results /\ PageResult(status, n) # NoResult
       /\ PageResult(status, n).status = status
       /\ Result(status) \in Results /\ Result(status) # NoResult
       /\ Result(status).status = status
  BY DEF NoResult, PageResult, Result, Results, ReaderErrors

LEMMA Geometry ==
  /\ PageSize \in Nat /\ PageSize > 0
  /\ 0 \in Offsets /\ Offsets = 0 .. PageSize - 1
  /\ UsableEnd \in Nat /\ UsableEnd < PageSize
  BY LayoutAssumption DEF Offsets, UsableEnd

LEMMA SlotTypes ==
  ASSUME slots \in Seq(Stored), NEW n \in Nat, n > 0, n <= Len(slots)
  PROVE  slots[n] \in Stored /\ slots[n] \in PhysicalPages
  BY StoredAssumption

\* A buffer that Zeroize leaves, and a caller's fresh one.
LEMMA ClearedBuffers ==
  /\ \A b : /\ IsCleared(Zeroize(b)) /\ DOMAIN Zeroize(b) = DOMAIN b
            /\ \A i \in DOMAIN b : Zeroize(b)[i] \in Bytes
  /\ DOMAIN ZeroPage = Offsets /\ IsCleared(ZeroPage)
  /\ \A i \in Offsets : ZeroPage[i] \in Bytes
  BY ByteTypes DEF IsCleared, Zeroize, ZeroPage

LEMMA EmptyBufferType ==
  DOMAIN EmptyBuffer = 0 .. 0 - 1 /\ \A i \in DOMAIN EmptyBuffer : EmptyBuffer[i] \in Bytes
  BY DEF EmptyBuffer

\* The prefix of an untouched buffer stays authenticated.
LEMMA KeepsPrefix ==
  ASSUME NEW m, UNCHANGED <<call, reader, output>>, AuthenticatedUpTo(m)
  PROVE  AuthenticatedUpTo(m)'
  BY DEF AuthenticatedUpTo, AuthenticatedFor, PageAt, ByteAt, FirstByte

-----------------------------------------------------------------------------
(* Every action keeps the invariant.                                       *)

LEMMA InitInv == Init => ReaderInv
PROOF
  <1> SUFFICES ASSUME Init PROVE ReaderInv
    OBVIOUS
  <1>1. TypeOK
    <2>1. slots \in Seq(Stored)
      BY DEF Init
    <2>2. tail \in 0 .. PageSize - 1
      BY Geometry DEF Init
    <2>3. reader \in Readers
      BY DEF Init, ClosedReader, Readers
    <2>4. call \in Calls /\ call.length = 0
      BY CallIsTyped DEF Init
    <2>5. DOMAIN output = 0 .. call.length - 1 /\ \A i \in DOMAIN output : output[i] \in Bytes
      BY <2>4, EmptyBufferType DEF Init
    <2>6. DOMAIN scratch = Offsets /\ \A i \in Offsets : scratch[i] \in Bytes
      BY ClearedBuffers DEF Init
    <2> QED
      BY <2>1, <2>2, <2>3, <2>4, <2>5, <2>6, RewritesAssumption, BoundsAssumption
      DEF Init, TypeOK, Steps
  <1>2. ControlInv
    BY CallIsTyped DEF Init, ControlInv
  <1>3. DirectInv /\ LoopInv /\ BufferInv
    BY DEF Init, DirectInv, LoopInv, Looping, BufferInv
  <1>4. FailedCallsAreCleared /\ OnlyAuthenticatedPages
    BY ResultTypes DEF Init, FailedCallsAreCleared, OnlyAuthenticatedPages
  <1>5. ScratchIsCleared
    BY ClearedBuffers DEF Init, ScratchIsCleared
  <1> QED BY <1>1, <1>2, <1>3, <1>4, <1>5 DEF ReaderInv

LEMMA OpenInv ==
  ASSUME ReaderInv, NEW passphrase \in Passphrases, Open(passphrase)
  PROVE  ReaderInv'
PROOF
  <1> USE DEF Open, source, cursor
  <1>1. PICK status \in {"Source", OpenStatus(passphrase, FileSize)} :
          /\ result' = Result(status)
          /\ reader' = IF status = "ok"
                       THEN [keys |-> DeriveKeys(passphrase, salt),
                             file_size |-> FileSize,
                             page_count |-> FileSize \div PageSize]
                       ELSE ClosedReader
    OBVIOUS
  <1>2. status \in ReaderErrors \cup {"ok"}
    BY DEF OpenStatus, ReaderErrors
  <1>3. status = "ok" => passphrase # EmptyPassphrase
    BY DEF OpenStatus
  <1>4. FileSize \in Nat
    <2>1. Len(slots) \in Nat /\ tail \in Nat /\ PageSize \in Nat
      BY Geometry DEF ReaderInv, TypeOK
    <2>2. PageSize * Len(slots) \in Nat
      BY <2>1
    <2> QED BY <2>1, <2>2 DEF FileSize
  <1>5. reader' \in Readers
    BY <1>1, <1>3, <1>4, DivMod DEF ReaderInv, TypeOK, Readers, ClosedReader, DeriveKeys, Keys
  <1>6. call' \in Calls /\ call'.length = 0 /\ call' # NoCall /\ call'.op = "open"
    BY CallIsTyped
  <1>7. call = NoCall /\ call.length = 0
    BY CallIsTyped DEF ReaderInv, ControlInv
  <1>8. result' \in Results /\ result' # NoResult
    BY <1>1, <1>2, ResultTypes
  <1>9. TypeOK'
    BY <1>5, <1>6, <1>7, <1>8 DEF ReaderInv, TypeOK, Steps
  <1>10. ControlInv'
    BY <1>6, <1>8 DEF ControlInv
  <1>11. DirectInv' /\ LoopInv' /\ BufferInv'
    BY DEF DirectInv, LoopInv, Looping, BufferInv
  <1>12. FailedCallsAreCleared' /\ OnlyAuthenticatedPages'
    BY <1>6, <1>7 DEF FailedCallsAreCleared, OnlyAuthenticatedPages, ReaderInv, TypeOK, IsCleared
  <1>13. ScratchIsCleared'
    BY DEF ScratchIsCleared, ReaderInv
  <1> QED BY <1>9, <1>10, <1>11, <1>12, <1>13 DEF ReaderInv

LEMMA CallReadPageIntoInv ==
  ASSUME ReaderInv, NEW n \in 1 .. U32Max, NEW len \in 0 .. MaxLength,
         CallReadPageInto(n, len)
  PROVE  ReaderInv'
PROOF
  <1> USE DEF CallReadPageInto, source, cursor
  <1>1. /\ call' \in Calls /\ call' # NoCall /\ call'.op = "page"
        /\ call'.page_no = n /\ call'.length = len
    BY CallIsTyped
  <1>2. DOMAIN output' = 0 .. len - 1 /\ \A i \in DOMAIN output' : output'[i] \in Bytes
    BY ByteTypes DEF CallerBuffer
  <1>3. call = NoCall /\ call.length = 0 /\ result = NoResult
    BY CallIsTyped DEF ReaderInv, ControlInv
  <1>4. output_offset = 0 /\ n \in 0 .. U32Max /\ len \in Nat
    BY <1>3, BoundsAssumption DEF ReaderInv, TypeOK
  <1>5. TypeOK'
    BY <1>1, <1>2, <1>4 DEF ReaderInv, TypeOK, Steps
  <1>6. ControlInv'
    BY <1>1, <1>3 DEF ControlInv
  <1>7. DirectInv' /\ LoopInv' /\ BufferInv'
    BY <1>1 DEF ReaderInv, ScratchIsCleared, IsCleared, DirectInv, LoopInv, Looping, BufferInv
  <1>8. FailedCallsAreCleared' /\ OnlyAuthenticatedPages' /\ ScratchIsCleared'
    BY <1>3, ResultTypes DEF FailedCallsAreCleared, OnlyAuthenticatedPages, ScratchIsCleared
  <1> QED BY <1>5, <1>6, <1>7, <1>8 DEF ReaderInv

LEMMA CallReadExactAtInv ==
  ASSUME ReaderInv, NEW off \in 0 .. U64Max, NEW len \in 0 .. MaxLength,
         CallReadExactAt(off, len)
  PROVE  ReaderInv'
PROOF
  <1> USE DEF CallReadExactAt, source, cursor
  <1>1. /\ call' \in Calls /\ call' # NoCall /\ call'.op = "range"
        /\ call'.length = len
    BY CallIsTyped
  <1>2. DOMAIN output' = 0 .. len - 1 /\ \A i \in DOMAIN output' : output'[i] \in Bytes
    BY ByteTypes DEF CallerBuffer
  <1>3. call = NoCall /\ call.length = 0 /\ result = NoResult
    BY CallIsTyped DEF ReaderInv, ControlInv
  <1>4. output_offset = 0 /\ len \in Nat
    BY <1>3, BoundsAssumption DEF ReaderInv, TypeOK
  <1>5. TypeOK'
    BY <1>1, <1>2, <1>4 DEF ReaderInv, TypeOK, Steps
  <1>6. ControlInv'
    BY <1>1, <1>3 DEF ControlInv
  <1>7. DirectInv' /\ LoopInv' /\ BufferInv'
    BY DEF DirectInv, LoopInv, Looping, BufferInv
  <1>8. FailedCallsAreCleared' /\ OnlyAuthenticatedPages' /\ ScratchIsCleared'
    BY <1>3, ResultTypes
    DEF FailedCallsAreCleared, OnlyAuthenticatedPages, ScratchIsCleared, ReaderInv, IsCleared
  <1> QED BY <1>5, <1>6, <1>7, <1>8 DEF ReaderInv

\* A step that returns from a call of read_page_into or read_exact_at.
LEMMA ReturnInv ==
  ASSUME ReaderInv, pc \notin {"idle", "returned"},
         NEW res \in Results, NEW buffer, Return(res, buffer),
         DOMAIN buffer = 0 .. call.length - 1,
         \A i \in DOMAIN buffer : buffer[i] \in Bytes,
         UNCHANGED <<source, reader, call>>,
         target' \in {"output", "scratch"}, page_no' \in 0 .. U32Max,
         database_offset' \in 0 .. U64Max, output_offset' \in 0 .. call.length,
         res.status # "ok" /\ call.op = "page" => IsCleared(buffer),
         res.status = "ok" => AuthenticatedUpTo(call.length)'
  PROVE  ReaderInv'
PROOF
  <1> USE DEF source, Return, DropScratch
  <1>1. call \in Calls /\ call.op \in {"page", "range"}
    BY CallTypes DEF ReaderInv, TypeOK, ControlInv
  <1>2. /\ DOMAIN output' = 0 .. call.length - 1
        /\ \A i \in DOMAIN output' : output'[i] \in Bytes
    BY ClearedBuffers DEF ReturnedOutput
  <1>3. DOMAIN scratch' = Offsets /\ \A i \in Offsets : scratch'[i] \in Bytes
    BY ClearedBuffers DEF ReaderInv, TypeOK
  <1>4. TypeOK'
    BY <1>2, <1>3 DEF ReaderInv, TypeOK, Steps
  <1>5. ControlInv'
    BY <1>1, ResultTypes DEF ReaderInv, ControlInv, Results, NoResult, ReaderErrors
  <1>6. DirectInv' /\ LoopInv' /\ BufferInv'
    BY DEF DirectInv, LoopInv, Looping, BufferInv
  <1>7. FailedCallsAreCleared'
    <2>1. CASE res.status = "ok"
      BY <2>1 DEF FailedCallsAreCleared
    <2>2. CASE res.status # "ok" /\ call.op = "page"
      BY <2>2 DEF FailedCallsAreCleared, ReturnedOutput, IsCleared
    <2>3. CASE res.status # "ok" /\ call.op = "range"
      BY <2>3, ClearedBuffers DEF FailedCallsAreCleared, ReturnedOutput, IsCleared
    <2> QED BY <1>1, <2>1, <2>2, <2>3
  <1>8. ScratchIsCleared'
    BY ClearedBuffers DEF ScratchIsCleared, IsCleared
  <1>9. OnlyAuthenticatedPages'
    BY DEF OnlyAuthenticatedPages
  <1> QED BY <1>4, <1>5, <1>6, <1>7, <1>8, <1>9 DEF ReaderInv

LEMMA PageNumberType ==
  ASSUME NEW index \in Nat
  PROVE  /\ PageNumberFromIndex(index) \in 0 .. U32Max
         /\ PageNumberFromIndex(index) # 0 => PageNumberFromIndex(index) = index + 1
  BY BoundsAssumption DEF PageNumberFromIndex

\* What is known of a call in progress.
LEMMA InProgress ==
  ASSUME ReaderInv, pc \notin {"idle", "returned"}
  PROVE  /\ call \in Calls /\ call.op \in {"page", "range"} /\ call # NoCall
         /\ call.length \in Nat /\ call.offset \in Nat /\ call.page_no \in Nat
         /\ call.offset <= U64Max
         /\ call.op = "page" => call.page_no > 0
         /\ result = NoResult /\ reader # ClosedReader
         /\ DOMAIN output = 0 .. call.length - 1
         /\ \A i \in DOMAIN output : output[i] \in Bytes
         /\ U64Max \in Nat /\ U32Max \in Nat
PROOF
  <1>1. call \in Calls /\ call.op \in {"page", "range"}
    BY CallTypes DEF ReaderInv, TypeOK, ControlInv
  <1>2. /\ call.length \in Nat /\ call.offset \in Nat /\ call.page_no \in Nat
        /\ call.offset <= U64Max
        /\ call.op = "page" => call.page_no > 0
    BY <1>1, CallTypes, BoundsAssumption
  <1> QED BY <1>1, <1>2, BoundsAssumption DEF ReaderInv, TypeOK, ControlInv

LEMMA EnterRangeInv ==
  ASSUME ReaderInv, EnterRange
  PROVE  ReaderInv'
PROOF
  <1> DEFINE off == call.offset
             len == call.length
             cleared == Zeroize(output)
             first == PageNumberFromIndex(off \div PageSize)
  <1> USE DEF source, cursor
  <1>1. pc = "range" /\ call.op = "range" /\ UNCHANGED <<source, reader, call>>
    BY DEF EnterRange, ReaderInv, ControlInv
  <1>2. /\ len \in Nat /\ off \in Nat /\ off <= U64Max /\ result = NoResult
        /\ DOMAIN output = 0 .. len - 1 /\ \A i \in DOMAIN output : output[i] \in Bytes
        /\ reader # ClosedReader /\ call # NoCall /\ call \in Calls /\ U64Max \in Nat
    BY <1>1, InProgress
  <1>3. DOMAIN cleared = 0 .. len - 1 /\ \A i \in DOMAIN cleared : cleared[i] \in Bytes
    BY <1>2, ClearedBuffers
  <1>4. /\ target \in {"output", "scratch"} /\ page_no \in 0 .. U32Max
        /\ database_offset \in 0 .. U64Max /\ output_offset \in 0 .. len
    BY DEF ReaderInv, TypeOK
  <1>5. CASE len = 0 /\ Return(Result("ok"), output) /\ UNCHANGED <<target, page_no, cursor>>
    <2>1. AuthenticatedUpTo(0)'
      BY DEF AuthenticatedUpTo
    <2> QED BY <1>1, <1>2, <1>4, <1>5, <2>1, ReturnInv, ResultTypes
  <1>6. ASSUME NEW status \in {"OffsetOverflow", "UnexpectedEof"},
               Return(Result(status), cleared), UNCHANGED <<target, page_no, cursor>>
        PROVE  ReaderInv'
    <2>1. Result(status) \in Results /\ Result(status).status # "ok"
      BY ResultTypes DEF ReaderErrors
    <2> QED BY <1>1, <1>3, <1>4, <1>6, <2>1, ReturnInv
  <1>7. CASE /\ IsAlignedPage(off, len) /\ first # 0
             /\ output' = cleared /\ target' = "output" /\ page_no' = first
             /\ pc' = "page" /\ UNCHANGED <<scratch, result, cursor>>
    <2>0. off \div PageSize \in Nat
      BY <1>2, DivMod
    <2>1. first \in 0 .. U32Max /\ first = off \div PageSize + 1 /\ first > 0
      BY <1>7, <2>0, PageNumberType, BoundsAssumption
    <2>2. TypeOK'
      BY <1>1, <1>2, <1>3, <1>7, <2>1 DEF ReaderInv, TypeOK, Steps
    <2>3. ControlInv'
      BY <1>1, <1>2, <1>7 DEF ReaderInv, ControlInv
    <2>4. DirectInv'
      BY <1>1, <1>7, <2>1 DEF ReaderInv, DirectInv, ScratchIsCleared, IsCleared
    <2>5. LoopInv' /\ BufferInv'
      BY <1>7, <2>1 DEF LoopInv, Looping, BufferInv
    <2>6. FailedCallsAreCleared' /\ OnlyAuthenticatedPages' /\ ScratchIsCleared'
      BY <1>2, <1>7, ResultTypes DEF FailedCallsAreCleared, OnlyAuthenticatedPages, ScratchIsCleared
    <2> QED BY <2>2, <2>3, <2>4, <2>5, <2>6 DEF ReaderInv
  <1>8. CASE /\ off + len <= U64Max
             /\ output' = cleared /\ scratch' = ZeroPage
             /\ database_offset' = off /\ output_offset' = 0
             /\ pc' = "loop" /\ UNCHANGED <<target, page_no, result>>
    <2>1. TypeOK'
      BY <1>1, <1>2, <1>3, <1>8, ClearedBuffers DEF ReaderInv, TypeOK, Steps
    <2>2. ControlInv'
      BY <1>1, <1>2, <1>8 DEF ReaderInv, ControlInv
    <2>3. AuthenticatedUpTo(0)'
      BY DEF AuthenticatedUpTo
    <2>4. LoopInv'
      BY <1>1, <1>2, <1>8, <2>3 DEF LoopInv
    <2>5. DirectInv' /\ BufferInv'
      BY <1>8 DEF DirectInv, BufferInv
    <2>6. FailedCallsAreCleared' /\ OnlyAuthenticatedPages' /\ ScratchIsCleared'
      BY <1>2, <1>8, ResultTypes DEF FailedCallsAreCleared, OnlyAuthenticatedPages, ScratchIsCleared
    <2> QED BY <2>1, <2>2, <2>4, <2>5, <2>6 DEF ReaderInv
  <1> QED BY <1>5, <1>6, <1>7, <1>8 DEF EnterRange

LEMMA LoopHeadInv ==
  ASSUME ReaderInv, LoopHead
  PROVE  ReaderInv'
PROOF
  <1> DEFINE next == PageNumberFromIndex(database_offset \div PageSize)
  <1> USE DEF source, cursor
  <1>1. pc = "loop" /\ UNCHANGED <<source, reader, call, cursor>>
    BY DEF LoopHead
  <1>2. /\ call.op = "range" /\ call.offset + call.length <= U64Max
        /\ database_offset = call.offset + output_offset
        /\ output_offset \in {0, call.length} \/ database_offset % PageSize = 0
        /\ AuthenticatedUpTo(output_offset)
    BY <1>1 DEF ReaderInv, LoopInv, Looping
  <1>3. /\ call.length \in Nat /\ result = NoResult /\ reader # ClosedReader /\ call # NoCall
        /\ DOMAIN output = 0 .. call.length - 1 /\ \A i \in DOMAIN output : output[i] \in Bytes
    BY <1>1, InProgress
  <1>4. /\ target \in {"output", "scratch"} /\ page_no \in 0 .. U32Max
        /\ database_offset \in 0 .. U64Max /\ output_offset \in 0 .. call.length
        /\ database_offset \in Nat
    BY BoundsAssumption DEF ReaderInv, TypeOK
  <1>5. CASE output_offset >= call.length /\ Return(Result("ok"), output)
             /\ UNCHANGED <<target, page_no>>
    <2>1. output_offset = call.length
      BY <1>3, <1>4, <1>5
    <2>2. call.op = "range" /\ output' = output
      BY <1>2, <1>5, ResultTypes DEF Return, ReturnedOutput
    <2>3. AuthenticatedUpTo(call.length)'
      BY <1>1, <1>2, <2>1, <2>2, KeepsPrefix
    <2> QED BY <1>1, <1>3, <1>4, <1>5, <2>3, ReturnInv, ResultTypes
  <1>6. CASE Return(Result("OffsetOverflow"), output) /\ UNCHANGED <<target, page_no>>
    <2>1. Result("OffsetOverflow") \in Results /\ Result("OffsetOverflow").status # "ok"
      BY ResultTypes DEF ReaderErrors
    <2> QED BY <1>1, <1>2, <1>3, <1>4, <1>6, <2>1, ReturnInv
  <1>7. CASE /\ ~(output_offset >= call.length) /\ next # 0
             /\ target' = "scratch" /\ page_no' = next /\ pc' = "page"
             /\ UNCHANGED <<output, scratch, result>>
    <2>1. next \in 0 .. U32Max /\ next = database_offset \div PageSize + 1 /\ next > 0
      BY <1>4, <1>7, DivMod, PageNumberType
    <2>2. TypeOK'
      BY <1>1, <1>7, <2>1 DEF ReaderInv, TypeOK, Steps
    <2>3. ControlInv'
      BY <1>1, <1>3, <1>7 DEF ReaderInv, ControlInv
    <2>4. AuthenticatedUpTo(output_offset)'
      BY <1>1, <1>2, <1>7, KeepsPrefix
    <2>5. output_offset < call.length
      BY <1>3, <1>4, <1>7
    <2>6. LoopInv'
      BY <1>1, <1>2, <1>7, <2>1, <2>4, <2>5 DEF LoopInv
    <2>7. DirectInv' /\ BufferInv'
      BY <1>7, <2>1 DEF DirectInv, BufferInv
    <2>8. FailedCallsAreCleared' /\ OnlyAuthenticatedPages' /\ ScratchIsCleared'
      BY <1>3, <1>7, ResultTypes DEF FailedCallsAreCleared, OnlyAuthenticatedPages, ScratchIsCleared
    <2> QED BY <2>2, <2>3, <2>6, <2>7, <2>8 DEF ReaderInv
  <1> QED BY <1>5, <1>6, <1>7 DEF LoopHead

LEMMA TargetBufferType ==
  ASSUME ReaderInv, pc \notin {"idle", "returned"}
  PROVE  /\ \A i \in DOMAIN TargetBuffer : TargetBuffer[i] \in Bytes
         /\ target = "scratch" => DOMAIN TargetBuffer = Offsets
  BY InProgress DEF TargetBuffer, ReaderInv, TypeOK

\* A failing read_page_into hands back a cleared buffer.
LEMMA FailPageInv ==
  ASSUME ReaderInv, pc \in {"page", "fetch", "decrypt"},
         NEW res \in Results, res.status # "ok",
         NEW buffer, IsCleared(buffer), DOMAIN buffer = DOMAIN TargetBuffer,
         FailPage(res, buffer),
         UNCHANGED <<source, reader, call, target, page_no, cursor>>
  PROVE  ReaderInv'
PROOF
  <1> DEFINE returned == IF target = "output" THEN buffer ELSE output
  <1>1. /\ DOMAIN output = 0 .. call.length - 1
        /\ \A i \in DOMAIN output : output[i] \in Bytes
        /\ pc \notin {"idle", "returned"}
    BY InProgress
  <1>2. \A i \in DOMAIN buffer : buffer[i] \in Bytes
    BY ByteTypes DEF IsCleared
  <1>3. DOMAIN returned = 0 .. call.length - 1 /\ \A i \in DOMAIN returned : returned[i] \in Bytes
    BY <1>1, <1>2 DEF TargetBuffer
  <1>4. call.op = "page" => target = "output"
    BY DEF ReaderInv, TypeOK, LoopInv, Looping
  <1>5. Return(res, returned)
    BY DEF FailPage
  <1>6. /\ target \in {"output", "scratch"} /\ page_no \in 0 .. U32Max
        /\ database_offset \in 0 .. U64Max /\ output_offset \in 0 .. call.length
    BY DEF ReaderInv, TypeOK
  <1>7. call.op = "page" => IsCleared(returned)
    BY <1>4
  <1> HIDE DEF returned
  <1> QED BY <1>1, <1>3, <1>5, <1>6, <1>7, ReturnInv DEF cursor

LEMMA EnterPageInv ==
  ASSUME ReaderInv, EnterPage
  PROVE  ReaderInv'
PROOF
  <1> DEFINE cleared == Zeroize(TargetBuffer)
             status == CASE DOMAIN TargetBuffer # Offsets -> "InvalidOutputPageLength"
                         [] DOMAIN TargetBuffer = Offsets /\ page_no > reader.page_count
                              -> "PageOutOfRange"
                         [] OTHER -> IF (page_no - 1) * PageSize > U64Max
                                     THEN "OffsetOverflow" ELSE "ok"
  <1>1. pc = "page" /\ UNCHANGED <<source, reader, call, target, page_no, cursor>>
    BY DEF EnterPage
  <1>2. IsCleared(cleared) /\ DOMAIN cleared = DOMAIN TargetBuffer
        /\ \A i \in DOMAIN cleared : cleared[i] \in Bytes
    BY ClearedBuffers
  <1>3. CASE status # "ok"
    <2>1. Result(status) \in Results /\ Result(status).status # "ok"
      BY <1>3, ResultTypes DEF ReaderErrors
    <2>2. FailPage(Result(status), cleared)
      BY <1>3 DEF EnterPage
    <2> HIDE DEF cleared, status
    <2> QED BY <1>1, <1>2, <2>1, <2>2, FailPageInv
  <1>4. CASE status = "ok"
    <2>1. SetTarget(cleared) /\ pc' = "fetch" /\ UNCHANGED result
      BY <1>4 DEF EnterPage
    <2>2. DOMAIN TargetBuffer = Offsets
      BY <1>4
    <2> HIDE DEF cleared, status
    <2> USE DEF source, cursor
    <2>3. /\ DOMAIN output = 0 .. call.length - 1
          /\ \A i \in DOMAIN output : output[i] \in Bytes
          /\ reader # ClosedReader /\ call # NoCall /\ result = NoResult
      BY <1>1, InProgress
    <2>4. target \in {"output", "scratch"} /\ (target = "output" \/ target = "scratch")
      BY DEF ReaderInv, TypeOK
    <2>5. /\ target = "output" => output' = cleared /\ scratch' = scratch
          /\ target = "scratch" => output' = output /\ scratch' = cleared
      BY <2>1, <2>4 DEF SetTarget
    <2>6. /\ DOMAIN output' = 0 .. call.length - 1
          /\ \A i \in DOMAIN output' : output'[i] \in Bytes
          /\ DOMAIN scratch' = Offsets
          /\ \A i \in Offsets : scratch'[i] \in Bytes
      BY <1>2, <2>2, <2>3, <2>4, <2>5 DEF TargetBuffer, ReaderInv, TypeOK
    <2>7. TypeOK'
      BY <1>1, <2>1, <2>6 DEF ReaderInv, TypeOK, Steps
    <2>8. ControlInv'
      BY <1>1, <2>1, <2>3 DEF ReaderInv, ControlInv
    <2>9. DirectInv'
      BY <1>1, <2>1, <2>5 DEF ReaderInv, DirectInv, IsCleared
    <2>10. LoopInv'
      <3>1. CASE target = "output"
        BY <1>1, <2>1, <3>1 DEF LoopInv, Looping
      <3>2. CASE target = "scratch"
        <4>1. AuthenticatedUpTo(output_offset)
          BY <1>1, <3>2 DEF ReaderInv, LoopInv, Looping
        <4>2. AuthenticatedUpTo(output_offset)'
          BY <1>1, <2>5, <3>2, <4>1, KeepsPrefix
        <4> QED BY <1>1, <2>1, <3>2, <4>2 DEF ReaderInv, LoopInv, Looping
      <3> QED BY <2>4, <3>1, <3>2
    <2>11. BufferInv'
      BY <1>1, <1>2, <2>1, <2>2, <2>4, <2>5 DEF ReaderInv, BufferInv, TargetBuffer
    <2>12. FailedCallsAreCleared' /\ OnlyAuthenticatedPages' /\ ScratchIsCleared'
      BY <2>1, <2>3, ResultTypes DEF FailedCallsAreCleared, OnlyAuthenticatedPages, ScratchIsCleared
    <2> QED BY <2>7, <2>8, <2>9, <2>10, <2>11, <2>12 DEF ReaderInv
  <1> QED BY <1>3, <1>4

LEMMA FetchInv ==
  ASSUME ReaderInv, Fetch
  PROVE  ReaderInv'
PROOF
  <1> DEFINE pg == slots[page_no]
             raw == RawPage(pg)
  <1>1. /\ pc = "fetch" /\ page_no <= Len(slots) /\ SetTarget(raw) /\ pc' = "decrypt"
        /\ UNCHANGED <<source, reader, call, target, page_no, cursor, result>>
    BY DEF Fetch
  <1>2. page_no \in Nat /\ page_no > 0 /\ DOMAIN TargetBuffer = Offsets
    BY <1>1, BoundsAssumption DEF ReaderInv, TypeOK, BufferInv
  <1>3. pg \in Stored /\ pg \in PhysicalPages
    BY <1>1, <1>2, SlotTypes DEF ReaderInv, TypeOK
  <1>4. DOMAIN raw = Offsets /\ \A i \in Offsets : raw[i] \in Bytes
    BY <1>3, ByteTypes, Geometry DEF RawPage
  <1>5. \E p \in Stored : raw = RawPage(p)
    BY <1>3
  <1> HIDE DEF raw, pg
  <1> USE DEF source, cursor
  <1>6. /\ DOMAIN output = 0 .. call.length - 1
        /\ \A i \in DOMAIN output : output[i] \in Bytes
        /\ reader # ClosedReader /\ call # NoCall /\ result = NoResult
    BY <1>1, InProgress
  <1>7. target = "output" \/ target = "scratch"
    BY DEF ReaderInv, TypeOK
  <1>8. /\ target = "output" => output' = raw /\ scratch' = scratch
        /\ target = "scratch" => output' = output /\ scratch' = raw
    BY <1>1, <1>7 DEF SetTarget
  <1>9. /\ DOMAIN output' = 0 .. call.length - 1
        /\ \A i \in DOMAIN output' : output'[i] \in Bytes
        /\ DOMAIN scratch' = Offsets
        /\ \A i \in Offsets : scratch'[i] \in Bytes
    BY <1>2, <1>4, <1>6, <1>7, <1>8 DEF TargetBuffer, ReaderInv, TypeOK
  <1>10. TypeOK'
    BY <1>1, <1>9 DEF ReaderInv, TypeOK, Steps
  <1>11. ControlInv'
    BY <1>1, <1>6 DEF ReaderInv, ControlInv
  <1>12. DirectInv'
    BY <1>1, <1>8 DEF ReaderInv, DirectInv, IsCleared
  <1>13. LoopInv'
    <2>1. CASE target = "output"
      BY <1>1, <2>1 DEF LoopInv, Looping
    <2>2. CASE target = "scratch"
      <3>1. AuthenticatedUpTo(output_offset)
        BY <1>1, <2>2 DEF ReaderInv, LoopInv, Looping
      <3>2. AuthenticatedUpTo(output_offset)'
        BY <1>1, <1>8, <2>2, <3>1, KeepsPrefix
      <3> QED BY <1>1, <2>2, <3>2 DEF ReaderInv, LoopInv, Looping
    <2> QED BY <1>7, <2>1, <2>2
  <1>14. BufferInv'
    BY <1>1, <1>2, <1>4, <1>5, <1>7, <1>8 DEF ReaderInv, BufferInv, TargetBuffer
  <1>15. FailedCallsAreCleared' /\ OnlyAuthenticatedPages' /\ ScratchIsCleared'
    BY <1>1, <1>6, ResultTypes DEF FailedCallsAreCleared, OnlyAuthenticatedPages, ScratchIsCleared
  <1> QED BY <1>10, <1>11, <1>12, <1>13, <1>14, <1>15 DEF ReaderInv

LEMMA FetchFailsInv ==
  ASSUME ReaderInv, FetchFails
  PROVE  ReaderInv'
PROOF
  <1>1. PICK k \in {0, PageSize - 1} :
          FailPage(Result("Source"),
                   SourceFailure(IF k = 0 THEN TargetBuffer
                                 ELSE PartlyRead(TargetBuffer, slots[page_no], k)))
    BY DEF FetchFails
  <1> DEFINE read == IF k = 0 THEN TargetBuffer
                     ELSE PartlyRead(TargetBuffer, slots[page_no], k)
  <1>2. DOMAIN read = DOMAIN TargetBuffer
    BY DEF PartlyRead
  <1>3. FailPage(Result("Source"), SourceFailure(read))
    BY <1>1
  <1> HIDE DEF read
  <1>4. IsCleared(SourceFailure(read)) /\ DOMAIN SourceFailure(read) = DOMAIN TargetBuffer
    BY <1>2, ClearedBuffers DEF SourceFailure
  <1>5. Result("Source") \in Results /\ Result("Source").status # "ok"
    BY ResultTypes DEF ReaderErrors
  <1>6. pc = "fetch" /\ UNCHANGED <<source, reader, call, target, page_no, cursor>>
    BY DEF FetchFails
  <1> QED BY <1>3, <1>4, <1>5, <1>6, FailPageInv

LEMMA DecryptResult ==
  ASSUME NEW n \in Nat, NEW pg \in PhysicalPages
  PROVE  LET status == DecryptError(reader.keys, n, pg)
             buffer == DecryptInPlace(reader.keys, n, pg)
         IN  /\ status \in ReaderErrors \cup {"ok"}
             /\ DOMAIN buffer = Offsets
             /\ status # "ok" => IsCleared(buffer)
             /\ status = "ok" => /\ AuthenticatedFor(n, pg)
                                 /\ buffer = DecryptedPage(n, pg)
             /\ \A i \in Offsets : buffer[i] \in Bytes
PROOF
  <1> DEFINE status == DecryptError(reader.keys, n, pg)
             inner == InnerBuffer(reader.keys, n, pg)
             buffer == DecryptInPlace(reader.keys, n, pg)
  <1>1. status \in ReaderErrors \cup {"ok"}
    BY DEF DecryptError, ReaderErrors
  <1>2. status = "ok" => AuthenticatedFor(n, pg)
    BY DEF DecryptError, VerifyPageHmac, AuthenticatedFor
  <1>3. DOMAIN inner = Offsets
    BY DEF InnerBuffer, RawPage, DecryptedPage
  <1>4. CASE status = "ok"
    <2>1. buffer = DecryptedPage(n, pg)
      BY <1>4 DEF DecryptInPlace, InnerBuffer
    <2>2. \A i \in Offsets : buffer[i] \in Bytes
      BY <2>1, ByteTypes, Geometry DEF DecryptedPage
    <2> QED BY <1>1, <1>2, <1>4, <2>1, <2>2 DEF DecryptedPage
  <1>5. CASE status # "ok"
    <2>1. buffer = Zeroize(inner)
      BY <1>5 DEF DecryptInPlace
    <2> HIDE DEF inner, buffer
    <2>2. IsCleared(buffer) /\ DOMAIN buffer = Offsets /\ \A i \in Offsets : buffer[i] \in Bytes
      BY <1>3, <2>1, ClearedBuffers
    <2> QED BY <1>1, <1>5, <2>2 DEF buffer
  <1> QED BY <1>4, <1>5

LEMMA DecryptInv ==
  ASSUME ReaderInv, Decrypt
  PROVE  ReaderInv'
PROOF
  <1> DEFINE status == DecryptError(reader.keys, page_no, TargetBuffer[0].page)
             buffer == DecryptInPlace(reader.keys, page_no, TargetBuffer[0].page)
  <1>1. pc = "decrypt" /\ UNCHANGED <<source, reader, call, target, page_no, cursor>>
    BY DEF Decrypt
  <1>2. PICK pg \in Stored : TargetBuffer = RawPage(pg)
    BY <1>1 DEF ReaderInv, BufferInv
  <1>3. pg \in PhysicalPages /\ TargetBuffer[0].page = pg
    BY <1>2, StoredAssumption, Geometry DEF RawPage, Raw
  <1>4. /\ page_no \in Nat /\ page_no > 0 /\ page_no \in 0 .. U32Max
        /\ DOMAIN TargetBuffer = Offsets
    BY <1>1, BoundsAssumption DEF ReaderInv, TypeOK, BufferInv
  <1>5. /\ status \in ReaderErrors \cup {"ok"}
        /\ DOMAIN buffer = Offsets
        /\ status # "ok" => IsCleared(buffer)
        /\ status = "ok" => AuthenticatedFor(page_no, pg) /\ buffer = DecryptedPage(page_no, pg)
        /\ \A i \in Offsets : buffer[i] \in Bytes
    BY <1>3, <1>4, DecryptResult
  <1>6. IF status # "ok"
        THEN FailPage(PageResult(status, page_no), buffer)
        ELSE IF target = "output"
        THEN Return(Result("ok"), buffer)
        ELSE SetTarget(buffer) /\ pc' = "copy" /\ UNCHANGED result
    BY DEF Decrypt
  <1> HIDE DEF status, buffer
  <1>7. /\ call \in Calls /\ call.op \in {"page", "range"} /\ call # NoCall
        /\ call.length \in Nat /\ call.offset \in Nat /\ call.page_no \in Nat
        /\ call.op = "page" => call.page_no > 0
        /\ result = NoResult /\ reader # ClosedReader
        /\ DOMAIN output = 0 .. call.length - 1
        /\ \A i \in DOMAIN output : output[i] \in Bytes
    BY <1>1, InProgress
  <1>8. target = "output" \/ target = "scratch"
    BY DEF ReaderInv, TypeOK
  <1>9. CASE status # "ok"
    <2>1. PageResult(status, page_no) \in Results /\ PageResult(status, page_no).status # "ok"
      BY <1>4, <1>5, <1>9, ResultTypes
    <2> QED BY <1>1, <1>4, <1>5, <1>6, <1>9, <2>1, FailPageInv
  <1>10. CASE status = "ok" /\ target = "output"
    <2>1. Return(Result("ok"), buffer)
      BY <1>6, <1>10
    <2>2. DOMAIN output = Offsets
      BY <1>4, <1>10 DEF TargetBuffer
    <2>3. call.length = PageSize
      <3>1. 0 .. call.length - 1 = 0 .. PageSize - 1
        BY <1>7, <2>2 DEF Offsets
      <3> QED BY <1>7, <3>1, Geometry
    <2>4. output' = buffer /\ output' = DecryptedPage(page_no, pg)
      BY <1>5, <1>10, <2>1, ResultTypes DEF Return, ReturnedOutput
    <2>5. /\ FirstByte(call) \in Nat /\ FirstByte(call) % PageSize = 0
          /\ FirstByte(call) \div PageSize + 1 = page_no
      <3>1. CASE call.op = "page" /\ page_no = call.page_no
        <4>1. page_no - 1 \in Nat
          BY <1>4
        <4>2. FirstByte(call) = PageSize * (page_no - 1)
          BY <3>1, <4>1, PageStart DEF FirstByte
        <4> QED BY <1>4, <4>1, <4>2, PageStart
      <3>2. CASE /\ call.op = "range" /\ IsAlignedPage(call.offset, call.length)
                 /\ page_no = call.offset \div PageSize + 1
        BY <1>7, <3>2 DEF FirstByte, IsAlignedPage
      <3> QED BY <1>1, <1>10, <3>1, <3>2 DEF ReaderInv, DirectInv
    <2>6. \A k \in Offsets : PageAt(k) = page_no /\ ByteAt(k) % PageSize = k
      <3> SUFFICES ASSUME NEW k \in Offsets
                   PROVE  PageAt(k) = page_no /\ ByteAt(k) % PageSize = k
        OBVIOUS
      <3>1. k \in Nat /\ 0 + k < PageSize
        BY Geometry
      <3>2. /\ (FirstByte(call) + k) \div PageSize = FirstByte(call) \div PageSize
            /\ (FirstByte(call) + k) % PageSize = 0 + k
        BY <2>5, <3>1, SamePage
      <3> QED BY <2>5, <3>1, <3>2 DEF PageAt, ByteAt
    <2>7. AuthenticatedUpTo(call.length)'
      <3>1. 0 .. call.length - 1 = Offsets
        BY <2>3 DEF Offsets
      <3>2. \A k \in Offsets : output'[k] = DecryptedByte(page_no, pg, k)
        BY <2>4 DEF DecryptedPage
      <3>3. call' = call /\ reader' = reader /\ AuthenticatedFor(page_no, pg)
        BY <1>1, <1>5, <1>10
      <3>4. ASSUME NEW j \in Offsets
            PROVE  /\ AuthenticatedFor(PageAt(j), pg)'
                   /\ \A k \in Offsets : (PageAt(k) = PageAt(j) =>
                        output[k] = DecryptedByte(PageAt(j), pg, ByteAt(k) % PageSize))'
        <4>1. PageAt(j)' = page_no /\ \A k \in Offsets : (ByteAt(k) % PageSize)' = k
          BY <2>6, <3>3 DEF PageAt, ByteAt, FirstByte
        <4> QED BY <3>2, <3>3, <4>1 DEF AuthenticatedFor
      <3> QED BY <3>1, <3>3, <3>4 DEF AuthenticatedUpTo
    <2>8. /\ DOMAIN buffer = 0 .. call.length - 1
          /\ \A i \in DOMAIN buffer : buffer[i] \in Bytes
      BY <1>5, <2>3 DEF Offsets
    <2>9. Result("ok") \in Results /\ Result("ok").status = "ok"
      BY ResultTypes
    <2>10. /\ target' \in {"output", "scratch"} /\ page_no' \in 0 .. U32Max
           /\ database_offset' \in 0 .. U64Max /\ output_offset' \in 0 .. call.length
      BY <1>1 DEF ReaderInv, TypeOK, cursor
    <2> QED BY <1>1, <2>1, <2>7, <2>8, <2>9, <2>10, ReturnInv
  <1>11. CASE status = "ok" /\ target = "scratch"
    <2> USE DEF source, cursor
    <2>1. /\ output' = output /\ scratch' = buffer /\ pc' = "copy" /\ UNCHANGED result
      BY <1>6, <1>11 DEF SetTarget
    <2>2. TypeOK'
      BY <1>1, <1>5, <1>7, <2>1 DEF ReaderInv, TypeOK, Steps
    <2>3. ControlInv'
      BY <1>1, <1>7, <2>1 DEF ReaderInv, ControlInv
    <2>4. DirectInv'
      BY <2>1 DEF DirectInv
    <2>5. AuthenticatedUpTo(output_offset)'
      BY <1>1, <1>11, <2>1, KeepsPrefix DEF ReaderInv, LoopInv, Looping
    <2>6. LoopInv'
      BY <1>1, <1>11, <2>1, <2>5 DEF ReaderInv, LoopInv, Looping
    <2>7. AuthenticatedFor(page_no, pg)' /\ scratch' = DecryptedPage(page_no, pg)
      BY <1>1, <1>5, <1>11, <2>1 DEF AuthenticatedFor
    <2>8. BufferInv'
      BY <1>1, <1>4, <2>1, <2>7 DEF BufferInv
    <2>9. FailedCallsAreCleared' /\ OnlyAuthenticatedPages' /\ ScratchIsCleared'
      BY <1>7, <2>1, ResultTypes DEF FailedCallsAreCleared, OnlyAuthenticatedPages, ScratchIsCleared
    <2> QED BY <2>2, <2>3, <2>4, <2>6, <2>8, <2>9 DEF ReaderInv
  <1> QED BY <1>8, <1>9, <1>10, <1>11

\* What a copy does: it stands at the start of a page or of the range, copies
\* bytes of page page_no only, to the end of the page or of the range, and what
\* was delivered before lies in other pages.
LEMMA CopiedBytes ==
  ASSUME ReaderInv, Copy
  PROVE  LET d == database_offset
             oo == output_offset
             L == CopyLength
             q == d \div PageSize
             r == d % PageSize
         IN  /\ q \in Nat /\ r \in 0 .. PageSize - 1 /\ d = PageSize * q + r
             /\ L \in Nat /\ L > 0 /\ r + L <= PageSize /\ oo + L <= call.length
             /\ L = PageSize - r \/ oo + L = call.length
             /\ d + L <= U64Max /\ d' = d + L /\ output' = Copied
             /\ pc' = "loop" /\ UNCHANGED <<scratch, result>>
             /\ DOMAIN output' = 0 .. call.length - 1
             /\ \A k \in 0 .. oo - 1 : output'[k] = output[k]
             /\ \A k \in oo .. oo + L - 1 : output'[k] = scratch[r + (k - oo)]
             /\ \A i \in DOMAIN output' : output'[i] \in Bytes
             /\ \A k \in oo .. oo + L - 1 :
                  PageAt(k) = page_no /\ ByteAt(k) % PageSize = r + (k - oo)
             /\ \A k \in 0 .. oo - 1 : PageAt(k) # page_no
PROOF
  <1> DEFINE d == database_offset
             oo == output_offset
             L == CopyLength
             q == d \div PageSize
             r == d % PageSize
  <1>1. /\ pc = "copy" /\ UNCHANGED <<source, reader, call, target, page_no>>
        /\ oo' = oo + L
    BY DEF Copy
  <1>2. /\ call.op = "range" /\ call.offset + call.length <= U64Max
        /\ d = call.offset + oo
        /\ oo = 0 \/ r = 0
        /\ AuthenticatedUpTo(oo)
        /\ target = "scratch" /\ oo < call.length /\ page_no = q + 1
    BY <1>1 DEF ReaderInv, TypeOK, LoopInv, Looping
  <1>4. /\ call \in Calls /\ call # NoCall
        /\ call.length \in Nat /\ call.offset \in Nat
        /\ result = NoResult /\ reader # ClosedReader
        /\ DOMAIN output = 0 .. call.length - 1
        /\ \A i \in DOMAIN output : output[i] \in Bytes
        /\ U64Max \in Nat
    BY <1>1, InProgress
  <1>5. /\ oo \in Nat /\ d \in Nat /\ page_no \in 0 .. U32Max
        /\ target \in {"output", "scratch"}
        /\ DOMAIN scratch = Offsets /\ \A i \in Offsets : scratch[i] \in Bytes
    BY BoundsAssumption DEF ReaderInv, TypeOK
  <1>6. /\ q \in Nat /\ r \in 0 .. PageSize - 1 /\ d = PageSize * q + r
        /\ PageSize \in Nat /\ PageSize > 0
    BY <1>5, DivMod, Geometry
  <1>7. /\ L \in Nat /\ L > 0 /\ r + L <= PageSize /\ oo + L <= call.length
        /\ L = PageSize - r \/ oo + L = call.length
    <2>1. L = Smaller(PageSize - r, call.length - oo)
      BY DEF CopyLength, OffsetInPage
    <2> HIDE DEF L, r, q
    <2>2. PageSize - r \in Nat /\ PageSize - r > 0
      BY <1>6
    <2>3. call.length - oo \in Nat /\ call.length - oo > 0
      BY <1>2, <1>4, <1>5
    <2>4. L \in {PageSize - r, call.length - oo} /\ L <= PageSize - r /\ L <= call.length - oo
      BY <2>1, <2>2, <2>3 DEF Smaller
    <2>5. L \in Nat /\ L > 0
      BY <2>2, <2>3, <2>4
    <2>6. r \in Nat /\ PageSize \in Nat /\ call.length \in Nat /\ oo \in Nat
      BY <1>4, <1>5, <1>6
    <2>7. r + L <= PageSize /\ oo + L <= call.length
      BY <2>4, <2>5, <2>6
    <2>8. L = PageSize - r \/ oo + L = call.length
      BY <2>4, <2>5, <2>6
    <2> QED BY <2>5, <2>7, <2>8
  <1>8. /\ d + L <= U64Max /\ d' = d + L /\ output' = Copied
        /\ pc' = "loop" /\ UNCHANGED <<scratch, result>>
    <2>1. d + L <= U64Max
      BY <1>2, <1>4, <1>5, <1>7
    <2> QED BY <2>1 DEF Copy
  <1>9. /\ DOMAIN output' = 0 .. call.length - 1
        /\ \A k \in 0 .. oo - 1 : output'[k] = output[k]
        /\ \A k \in oo .. oo + L - 1 : output'[k] = scratch[r + (k - oo)]
        /\ \A i \in DOMAIN output' : output'[i] \in Bytes
    <2>1. output' = [i \in DOMAIN output |->
                       IF i >= oo /\ i < oo + L THEN scratch[r + (i - oo)] ELSE output[i]]
      BY <1>8 DEF Copied, OffsetInPage
    <2> HIDE DEF L, r, q
    <2>2. \A k \in oo .. oo + L - 1 : r + (k - oo) \in Offsets
      BY <1>5, <1>6, <1>7 DEF Offsets
    <2>3. \A k \in 0 .. oo - 1 : output'[k] = output[k]
      BY <2>1, <1>2, <1>4, <1>5
    <2>4. \A k \in oo .. oo + L - 1 : k \in DOMAIN output /\ output'[k] = scratch[r + (k - oo)]
      BY <2>1, <1>4, <1>5, <1>7
    <2>5. ASSUME NEW i \in DOMAIN output PROVE output'[i] \in Bytes
      <3>1. CASE i >= oo /\ i < oo + L
        <4>1. i \in oo .. oo + L - 1
          BY <1>4, <1>5, <1>7, <3>1
        <4> QED BY <1>5, <2>2, <2>4, <4>1
      <3>2. CASE ~(i >= oo /\ i < oo + L)
        BY <1>4, <2>1, <3>2
      <3> QED BY <3>1, <3>2
    <2> QED BY <1>4, <2>1, <2>3, <2>4, <2>5
  \* The copied bytes lie in page page_no, the earlier ones before it.
  <1>10. \A k \in oo .. oo + L - 1 :
           PageAt(k) = page_no /\ ByteAt(k) % PageSize = r + (k - oo)
    <2> SUFFICES ASSUME NEW k \in oo .. oo + L - 1
                 PROVE  PageAt(k) = page_no /\ ByteAt(k) % PageSize = r + (k - oo)
      OBVIOUS
    <2>1. k - oo \in Nat /\ r + (k - oo) < PageSize
      <3> HIDE DEF L, r, q
      <3> QED BY <1>5, <1>6, <1>7
    <2>2. (d + (k - oo)) \div PageSize = q /\ (d + (k - oo)) % PageSize = r + (k - oo)
      BY <1>5, <2>1, SamePage
    <2>3. ByteAt(k) = d + (k - oo)
      <3> HIDE DEF L, r, q
      <3> QED BY <1>2, <1>4, <1>5, <1>7 DEF ByteAt, FirstByte
    <2> QED BY <1>2, <2>2, <2>3 DEF PageAt
  <1>11. \A k \in 0 .. oo - 1 : PageAt(k) # page_no
    <2> SUFFICES ASSUME NEW k \in 0 .. oo - 1 PROVE PageAt(k) # page_no
      OBVIOUS
    <2>1. r = 0 /\ k \in Nat /\ ByteAt(k) \in Nat /\ ByteAt(k) < d
      BY <1>2, <1>4, <1>5 DEF ByteAt, FirstByte
    <2>2. ByteAt(k) \div PageSize < q
      BY <1>5, <2>1, EarlierPage
    <2>3. ByteAt(k) \div PageSize \in Nat
      BY <2>1, DivMod
    <2> QED BY <1>2, <1>6, <2>2, <2>3 DEF PageAt
  <1> QED BY <1>6, <1>7, <1>8, <1>9, <1>10, <1>11

LEMMA CopyInv ==
  ASSUME ReaderInv, Copy
  PROVE  ReaderInv'
PROOF
  <1> DEFINE d == database_offset
             oo == output_offset
             L == CopyLength
             q == d \div PageSize
             r == d % PageSize
  <1>1. /\ pc = "copy" /\ UNCHANGED <<source, reader, call, target, page_no>>
        /\ oo' = oo + L
    BY DEF Copy
  <1>2. /\ call.op = "range" /\ call.offset + call.length <= U64Max
        /\ d = call.offset + oo
        /\ oo = 0 \/ r = 0
        /\ AuthenticatedUpTo(oo)
        /\ target = "scratch" /\ oo < call.length /\ page_no = q + 1
    BY <1>1 DEF ReaderInv, TypeOK, LoopInv, Looping
  <1>3. PICK pg \in Stored : AuthenticatedFor(page_no, pg) /\ scratch = DecryptedPage(page_no, pg)
    BY <1>1 DEF ReaderInv, BufferInv
  <1>4. /\ call \in Calls /\ call # NoCall
        /\ call.length \in Nat /\ call.offset \in Nat
        /\ result = NoResult /\ reader # ClosedReader
        /\ DOMAIN output = 0 .. call.length - 1
        /\ \A i \in DOMAIN output : output[i] \in Bytes
        /\ U64Max \in Nat
    BY <1>1, InProgress
  <1>5. /\ oo \in Nat /\ d \in Nat /\ page_no \in 0 .. U32Max
        /\ target \in {"output", "scratch"}
        /\ DOMAIN scratch = Offsets /\ \A i \in Offsets : scratch[i] \in Bytes
    BY BoundsAssumption DEF ReaderInv, TypeOK
  <1>6. /\ q \in Nat /\ r \in 0 .. PageSize - 1 /\ d = PageSize * q + r
        /\ PageSize \in Nat /\ PageSize > 0
    BY CopiedBytes, Geometry
  <1>7. /\ L \in Nat /\ L > 0 /\ r + L <= PageSize /\ oo + L <= call.length
        /\ L = PageSize - r \/ oo + L = call.length
    BY CopiedBytes
  <1>8. /\ d + L <= U64Max /\ d' = d + L /\ output' = Copied
        /\ pc' = "loop" /\ UNCHANGED <<scratch, result>>
    BY CopiedBytes
  <1>9. /\ DOMAIN output' = 0 .. call.length - 1
        /\ \A k \in 0 .. oo - 1 : output'[k] = output[k]
        /\ \A k \in oo .. oo + L - 1 : output'[k] = scratch[r + (k - oo)]
        /\ \A i \in DOMAIN output' : output'[i] \in Bytes
    BY CopiedBytes
  <1>10. \A k \in oo .. oo + L - 1 :
           PageAt(k) = page_no /\ ByteAt(k) % PageSize = r + (k - oo)
    BY CopiedBytes
  <1>11. \A k \in 0 .. oo - 1 : PageAt(k) # page_no
    BY CopiedBytes
  <1>12. call' = call /\ reader' = reader
    BY <1>1
  <1>13. AuthenticatedUpTo(output_offset)'
    <2> DEFINE Good(j, p) ==
          /\ AuthenticatedFor(PageAt(j), p)
          /\ \A k \in 0 .. (oo + L) - 1 :
               PageAt(k) = PageAt(j) =>
                 output'[k] = DecryptedByte(PageAt(j), p, ByteAt(k) % PageSize)
    <2>1. ASSUME NEW j \in 0 .. oo - 1 PROVE \E p \in Stored : Good(j, p)
      <3>1. PICK p \in Stored :
              /\ AuthenticatedFor(PageAt(j), p)
              /\ \A k \in 0 .. oo - 1 :
                   PageAt(k) = PageAt(j) =>
                     output[k] = DecryptedByte(PageAt(j), p, ByteAt(k) % PageSize)
        BY <1>2 DEF AuthenticatedUpTo
      <3>2. ASSUME NEW k \in 0 .. (oo + L) - 1, PageAt(k) = PageAt(j)
            PROVE  k \in 0 .. oo - 1
        <4>1. PageAt(k) # page_no
          BY <1>11, <3>2
        <4>2. k \notin oo .. oo + L - 1
          BY <1>10, <4>1
        <4> HIDE DEF L
        <4> QED BY <1>5, <1>7, <4>2
      <3>3. Good(j, p)
        BY <1>9, <3>1, <3>2
      <3> QED BY <3>3
    <2>2. ASSUME NEW j \in oo .. oo + L - 1 PROVE \E p \in Stored : Good(j, p)
      <3>1. PageAt(j) = page_no
        BY <1>10
      <3>2. ASSUME NEW k \in 0 .. (oo + L) - 1, PageAt(k) = page_no
            PROVE  output'[k] = DecryptedByte(page_no, pg, ByteAt(k) % PageSize)
        <4>1. k \in oo .. oo + L - 1
          <5>1. k \notin 0 .. oo - 1
            BY <1>11, <3>2
          <5> HIDE DEF L
          <5> QED BY <1>5, <1>7, <5>1
        <4>2. output'[k] = scratch[r + (k - oo)] /\ ByteAt(k) % PageSize = r + (k - oo)
          BY <1>9, <1>10, <4>1
        <4>3. r + (k - oo) \in Offsets
          <5> HIDE DEF L, r, q
          <5> QED BY <1>5, <1>6, <1>7, <4>1 DEF Offsets
        <4> QED BY <1>3, <4>2, <4>3 DEF DecryptedPage
      <3>3. Good(j, pg)
        BY <1>3, <3>1, <3>2
      <3> QED BY <3>3
    <2>3. \A j \in 0 .. (oo + L) - 1 : \E p \in Stored : Good(j, p)
      <3> HIDE DEF L, Good
      <3> SUFFICES ASSUME NEW j \in 0 .. (oo + L) - 1 PROVE \E p \in Stored : Good(j, p)
        OBVIOUS
      <3>1. j \in 0 .. oo - 1 \/ j \in oo .. oo + L - 1
        BY <1>5, <1>7
      <3> QED BY <2>1, <2>2, <3>1
    <2>4. ASSUME NEW j \in Nat, NEW p \in Stored, Good(j, p)
          PROVE  /\ AuthenticatedFor(PageAt(j), p)'
                 /\ \A k \in 0 .. (oo + L) - 1 :
                      (PageAt(k) = PageAt(j) =>
                         output[k] = DecryptedByte(PageAt(j), p, ByteAt(k) % PageSize))'
      BY <1>12, <2>4 DEF AuthenticatedFor, PageAt, ByteAt, FirstByte
    <2>5. \A j \in 0 .. (oo + L) - 1 : j \in Nat
      OBVIOUS
    <2>6. output_offset' = oo + L
      BY <1>1
    <2> HIDE DEF Good, L
    <2> QED BY <2>3, <2>4, <2>5, <2>6 DEF AuthenticatedUpTo
  <1>14. TypeOK'
    <2>1. d' \in 0 .. U64Max /\ oo' \in 0 .. call.length
      <3> HIDE DEF L
      <3> QED BY <1>1, <1>4, <1>5, <1>7, <1>8
    <2> QED BY <1>1, <1>8, <1>9, <2>1 DEF ReaderInv, TypeOK, Steps, source
  <1>15. ControlInv'
    BY <1>1, <1>4, <1>8 DEF ReaderInv, ControlInv, source
  <1>16. LoopInv'
    <2>1. d' = call.offset + oo'
      <3> HIDE DEF L
      <3> QED BY <1>1, <1>2, <1>4, <1>5, <1>7, <1>8
    <2>2. oo' \in {0, call.length} \/ d' % PageSize = 0
      <3>1. CASE oo + L = call.length
        BY <1>1, <3>1
      <3>2. CASE L = PageSize - r
        <4> HIDE DEF L, q, r
        <4>1. PageSize * (q + 1) = PageSize * q + PageSize
          BY <1>6
        <4>2. d + L = PageSize * (q + 1) /\ q + 1 \in Nat
          BY <1>6, <1>7, <3>2, <4>1
        <4> QED BY <1>8, <4>2, PageStart
      <3> QED BY <1>7, <3>1, <3>2
    <2> QED BY <1>1, <1>2, <1>8, <1>13, <2>1, <2>2 DEF LoopInv
  <1>17. DirectInv' /\ BufferInv'
    BY <1>8 DEF DirectInv, BufferInv
  <1>18. FailedCallsAreCleared' /\ OnlyAuthenticatedPages' /\ ScratchIsCleared'
    BY <1>4, <1>8, ResultTypes DEF FailedCallsAreCleared, OnlyAuthenticatedPages, ScratchIsCleared
  <1> QED BY <1>14, <1>15, <1>16, <1>17, <1>18 DEF ReaderInv

LEMMA TakeInv ==
  ASSUME ReaderInv, Take
  PROVE  ReaderInv'
PROOF
  <1> USE DEF Take, source
  <1>1. call' \in Calls /\ call' = NoCall /\ call'.op = "none" /\ call'.length = 0
    BY CallIsTyped
  <1>2. DOMAIN output' = 0 .. 0 - 1 /\ \A i \in DOMAIN output' : output'[i] \in Bytes
    BY EmptyBufferType
  <1>3. TypeOK'
    BY <1>1, <1>2, BoundsAssumption DEF ReaderInv, TypeOK, Steps
  <1>4. ControlInv'
    BY <1>1 DEF ControlInv
  <1>5. DirectInv' /\ LoopInv' /\ BufferInv'
    BY DEF DirectInv, LoopInv, Looping, BufferInv
  <1>6. FailedCallsAreCleared' /\ OnlyAuthenticatedPages' /\ ScratchIsCleared'
    BY ResultTypes
    DEF FailedCallsAreCleared, OnlyAuthenticatedPages, ReaderInv, ScratchIsCleared, IsCleared
  <1> QED BY <1>3, <1>4, <1>5, <1>6 DEF ReaderInv

\* The invariant says nothing of what the source holds, only of its types: it
\* survives stuttering and every change to the source.
LEMMA SourceInv ==
  ASSUME ReaderInv,
         salt' \in Salts, slots' \in Seq(Stored), tail' = tail,
         rewrites' \in 0 .. MaxRewrites,
         UNCHANGED <<reader, call, pc, output, scratch, target, page_no, cursor, result>>
  PROVE  ReaderInv'
PROOF
  <1> USE DEF cursor, ReaderInv
  <1>1. TypeOK'
    BY DEF TypeOK
  <1>2. ControlInv'
    BY DEF ControlInv
  <1>3. DirectInv'
    BY DEF DirectInv, IsCleared
  <1>4. LoopInv'
    <2>1. AuthenticatedUpTo(output_offset) => AuthenticatedUpTo(output_offset)'
      BY KeepsPrefix
    <2> QED BY <2>1 DEF LoopInv, Looping
  <1>5. BufferInv'
    BY DEF BufferInv, TargetBuffer, AuthenticatedFor
  <1>6. FailedCallsAreCleared' /\ ScratchIsCleared'
    BY DEF FailedCallsAreCleared, ScratchIsCleared, IsCleared
  <1>7. OnlyAuthenticatedPages'
    <2>1. AuthenticatedUpTo(call.length) => AuthenticatedUpTo(call.length)'
      BY KeepsPrefix
    <2> QED BY <2>1 DEF OnlyAuthenticatedPages
  <1> QED BY <1>1, <1>2, <1>3, <1>4, <1>5, <1>6, <1>7

LEMMA BreakingInv ==
  ASSUME ReaderInv, Breaking
  PROVE  ReaderInv'
PROOF
  <1> USE DEF Broken
  <1>1. salt \in Salts /\ slots \in Seq(Stored) /\ rewrites \in 0 .. MaxRewrites
    BY DEF ReaderInv, TypeOK
  <1>2. ASSUME Broken PROVE rewrites' \in 0 .. MaxRewrites
    BY <1>1, <1>2, RewritesAssumption
  <1>3. ASSUME NEW n \in 1 .. MaxSlots, NEW pg \in Stored, RewritePage(n, pg)
        PROVE  ReaderInv'
    <2>1. n \in 1 .. Len(slots)
      BY <1>1, <1>3, BoundsAssumption DEF RewritePage
    <2>2. slots' \in Seq(Stored)
      BY <1>1, <1>3, <2>1, ExceptSeq DEF RewritePage
    <2> QED BY <1>1, <1>2, <1>3, <2>2, SourceInv DEF RewritePage
  <1>4. ASSUME NEW s \in Salts, RewriteSalt(s)
        PROVE  ReaderInv'
    BY <1>1, <1>2, <1>4, SourceInv DEF RewriteSalt
  <1>5. ASSUME NEW k \in 0 .. MaxSlots, Truncate(k)
        PROVE  ReaderInv'
    <2>1. k \in Int /\ \A i \in 1 .. k : slots[i] \in Stored
      BY <1>1, <1>5, BoundsAssumption DEF Truncate
    <2>2. slots' \in Seq(Stored)
      BY <1>5, <2>1, SubSeqProperties DEF Truncate
    <2> QED BY <1>1, <1>2, <1>5, <2>2, SourceInv DEF Truncate
  <1> QED BY <1>3, <1>4, <1>5 DEF Breaking

LEMMA NextInv == ReaderInv /\ [Next]_vars => ReaderInv'
PROOF
  <1> SUFFICES ASSUME ReaderInv, [Next]_vars PROVE ReaderInv'
    OBVIOUS
  <1>1. CASE Calling
    BY <1>1, OpenInv, CallReadPageIntoInv, CallReadExactAtInv, TakeInv DEF Calling
  <1>2. CASE Reading
    BY <1>2, EnterRangeInv, LoopHeadInv, EnterPageInv, FetchInv, FetchFailsInv, DecryptInv, CopyInv
    DEF Reading
  <1>3. CASE Breaking
    BY <1>3, BreakingInv
  <1>4. CASE UNCHANGED vars
    <2>1. /\ salt' \in Salts /\ slots' \in Seq(Stored) /\ tail' = tail
          /\ rewrites' \in 0 .. MaxRewrites
      BY <1>4 DEF vars, ReaderInv, TypeOK
    <2> QED BY <1>4, <2>1, SourceInv DEF vars, cursor
  <1> QED BY <1>1, <1>2, <1>3, <1>4 DEF Next

-----------------------------------------------------------------------------
(* The theorems.                                                           *)

\* The invariant of read_page_into and read_exact_at (reader.rs 168-306) holds
\* in every reachable state, whatever the source does.
THEOREM ReaderInvariant == Spec => []ReaderInv
  BY InitInv, NextInv, PTL DEF Spec

\* Type correctness; the copy of read_exact_at_nonempty never leaves the
\* caller's buffer or the scratch page, and no page number is 0.
THEOREM TypeCorrectness == Spec => []TypeOK
PROOF
  <1>1. ReaderInv => TypeOK
    BY DEF ReaderInv
  <1> QED BY <1>1, ReaderInvariant, PTL

\* "output is cleared on failure" (reader.rs 166-167, 212-213), on every error
\* path of both calls and however many pages were already copied.
THEOREM Clearing == Spec => []FailedCallsAreCleared
PROOF
  <1>1. ReaderInv => FailedCallsAreCleared
    BY DEF ReaderInv
  <1> QED BY <1>1, ReaderInvariant, PTL

\* No plaintext outlives a call in the scratch page of read_exact_at_nonempty.
THEOREM ScratchClearing == Spec => []ScratchIsCleared
PROOF
  <1>1. ReaderInv => ScratchIsCleared
    BY DEF ReaderInv
  <1> QED BY <1>1, ReaderInvariant, PTL

\* "Every touched page is authenticated before its requested bytes are copied"
\* (reader.rs 212-213), even while the source is being rewritten: each page of
\* a successful answer is one page authenticated for its place.
THEOREM Authenticity == Spec => []OnlyAuthenticatedPages
PROOF
  <1>1. ReaderInv => OnlyAuthenticatedPages
    BY DEF ReaderInv
  <1> QED BY <1>1, ReaderInvariant, PTL

-----------------------------------------------------------------------------
(* The reader implements AuthenticatedRead: over a source that keeps its   *)
(* contract, what a call in progress holds are pages of the one image.     *)

(* Steps of AuthenticatedRead.                                             *)

\* AuthenticatedRead means the same by the names it shares with the reader.
LEMMA SharedNames ==
  /\ Abstract!NoCall = NoCall /\ Abstract!OpenCall = OpenCall
  /\ Abstract!NoResult = NoResult /\ Abstract!ClosedReader = ClosedReader
  /\ Abstract!EmptyBuffer = EmptyBuffer /\ Abstract!Zero = Zero
  /\ Abstract!ReaderErrors = ReaderErrors
  /\ \A n, len : Abstract!PageCall(n, len) = PageCall(n, len)
  /\ \A off, len : Abstract!RangeCall(off, len) = RangeCall(off, len)
  /\ \A status : Abstract!Result(status) = Result(status)
  /\ \A status, n : Abstract!PageResult(status, n) = PageResult(status, n)
  BY DEF Abstract!NoCall, NoCall, Abstract!OpenCall, OpenCall,
     Abstract!NoResult, NoResult, Abstract!ClosedReader, ClosedReader,
     Abstract!EmptyBuffer, EmptyBuffer, Abstract!Zero, Zero,
     Abstract!ReaderErrors, ReaderErrors, Abstract!PageCall, PageCall,
     Abstract!RangeCall, RangeCall, Abstract!Result, Result,
     Abstract!PageResult, PageResult

\* Decryption and its verdict are the same operators in both modules.
LEMMA SharedDecryption ==
  /\ \A keys, n, pg : Abstract!DecryptError(keys, n, pg) = DecryptError(keys, n, pg)
  /\ \A keys, n, pg : Abstract!Genuine(keys, n, pg) <=> Genuine(keys, n, pg)
  /\ \A n, pg, i : Abstract!DecryptedByte(n, pg, i) = DecryptedByte(n, pg, i)
PROOF
  <1>1. \A keys, n, pg : Abstract!DecryptError(keys, n, pg) = DecryptError(keys, n, pg)
    BY DEF Abstract!DecryptError, DecryptError, Abstract!VerifyPageHmac, VerifyPageHmac,
           Abstract!DecodeSqlitePageSize, DecodeSqlitePageSize
  <1>2. \A n, pg, i : Abstract!DecryptedByte(n, pg, i) = DecryptedByte(n, pg, i)
    BY DEF Abstract!DecryptedByte, DecryptedByte, Abstract!UsableEnd, UsableEnd,
           Abstract!Zero, Zero, Abstract!Magic, Magic, Abstract!Plain, Plain
  <1> QED BY <1>1, <1>2 DEF Abstract!Genuine, Genuine

\* No step of the reader is seen before the call returns.
LEMMA Unseen ==
  ASSUME result = NoResult, result' = NoResult,
         UNCHANGED <<salt, slots, tail, reader, call>>
  PROVE  UNCHANGED Abstract!vars
  BY DEF Abstract!vars

InBounds ==
  IF call.op = "page" THEN call.page_no <= Len(slots) /\ call.length = PageSize
  ELSE call.offset + call.length <= Len(slots) * PageSize

\* A call that is about to be answered.
Answering ==
  /\ call.op \in {"page", "range"} /\ result = NoResult /\ result' # NoResult
  /\ UNCHANGED <<salt, slots, tail, reader, call>>

\* A call that answers ok with the bytes of genuine pages is an abstract step.
LEMMA AnswerOkStep ==
  ASSUME Answering, result' = Result("ok"),
         \/ call.op = "range" /\ call.length = 0
         \/ InBounds /\ \A n \in Abstract!Touched(call) : Genuine(reader.keys, n, slots[n]),
         output' = [k \in 0 .. call.length - 1 |->
                      DecryptedByte(PageAt(k), slots[PageAt(k)], ByteAt(k) % PageSize)]
  PROVE  Abstract!Next
PROOF
  <1>1. Abstract!FirstByte(call) = FirstByte(call)
    BY DEF Abstract!FirstByte, FirstByte
  <1>2. output' = [k \in 0 .. call.length - 1 |->
                     Abstract!ImageByte(Abstract!FirstByte(call) + k)]
    BY <1>1, SharedDecryption DEF Abstract!ImageByte, PageAt, ByteAt
  <1>3. \/ call.op = "range" /\ call.length = 0
        \/ Abstract!InBounds(call) /\ Abstract!AllGenuine(Abstract!Touched(call))
    BY SharedDecryption DEF InBounds, Abstract!InBounds, Abstract!AllGenuine
  <1>4. Abstract!AnswerOk
    BY <1>2, <1>3, SharedNames DEF Answering, Abstract!AnswerOk
  <1> QED
    BY <1>4, SharedNames
    DEF Answering, Abstract!Next, Abstract!Answer, Abstract!source

\* A call that answers with a justified error and a cleared buffer is an
\* abstract step.
LEMMA AnswerErrorStep ==
  ASSUME Answering, NEW status \in ReaderErrors, NEW n \in 0 .. MaxSlots,
         result' = PageResult(status, n),
         output' = [k \in 0 .. call.length - 1 |-> Zero],
         n = 0 \/ status \in Abstract!PageErrors,
         Abstract!ErrorJustified(PageResult(status, n), call)
  PROVE  Abstract!Next
PROOF
  <1>1. Abstract!AnswerError
    BY SharedNames DEF Answering, Abstract!AnswerError
  <1> QED
    BY <1>1, SharedNames
    DEF Answering, Abstract!Next, Abstract!Answer, Abstract!source

-----------------------------------------------------------------------------
(* Every step of the reader is a step of AuthenticatedRead, or a stutter.  *)

LEMMA InitImage == MaxRewrites = 0 /\ Init => ImageInv /\ Abstract!Init
PROOF
  <1> SUFFICES ASSUME MaxRewrites = 0, Init PROVE ImageInv /\ Abstract!Init
    OBVIOUS
  <1>1. PICK k \in 0 .. MaxSlots : slots \in [1 .. k -> Stored]
    BY DEF Init
  <1>2. Len(slots) <= MaxSlots
    BY <1>1, BoundsAssumption
  <1>3. output = [i \in 0 .. call.length - 1 |-> output[i]]
    BY DEF Init, NoCall, EmptyBuffer
  <1>4. ImageInv
    BY <1>2, <1>3 DEF Init, ImageInv, OpenedInv, Looping
  <1>5. Abstract!Init
    BY SharedNames DEF Init, Abstract!Init
  <1> QED BY <1>4, <1>5

\* An opened reader and its source, which stay as they are.
LEMMA SourceKept ==
  ASSUME ReaderInv, ImageInv, pc \notin {"idle", "returned"}
  PROVE  /\ Len(slots) \in Nat /\ Len(slots) <= U32Max /\ Len(slots) <= MaxSlots
         /\ U32Max \in Nat /\ MaxSlots \in Nat
         /\ reader.page_count = Len(slots)
         /\ reader.file_size = Len(slots) * PageSize
         /\ Len(slots) * PageSize <= U64Max /\ Len(slots) * PageSize \in Nat
PROOF
  <1>1. reader # ClosedReader /\ slots \in Seq(Stored)
    BY InProgress DEF ReaderInv, TypeOK
  <1>2. Len(slots) \in Nat /\ U32Max \in Nat /\ MaxSlots \in Nat /\ U64Max \in Nat
        /\ Len(slots) <= U32Max
    BY <1>1, BoundsAssumption DEF ImageInv, OpenedInv
  <1>3. U32Max * PageSize <= U64Max /\ PageSize \in Nat
    BY BoundsAssumption, Geometry
  <1>4. Len(slots) * PageSize <= U32Max * PageSize /\ Len(slots) * PageSize \in Nat
    <2> DEFINE n == Len(slots)
    <2> HIDE DEF n
    <2>1. \A m, u, p \in Nat : m <= u => m * p <= u * p /\ m * p \in Nat
      BY SMT
    <2> QED BY <1>2, <1>3, <2>1 DEF n
  <1>5. U32Max * PageSize \in Nat
    BY <1>2, <1>3
  <1> QED BY <1>1, <1>2, <1>3, <1>4, <1>5 DEF ImageInv, OpenedInv

\* A position of the image lies in one of its pages, which have numbers.
LEMMA PageOfImage ==
  ASSUME ReaderInv, ImageInv, pc \notin {"idle", "returned"},
         NEW a \in Nat, a < Len(slots) * PageSize
  PROVE  /\ a \div PageSize + 1 \in 1 .. Len(slots)
         /\ PageNumberFromIndex(a \div PageSize) = a \div PageSize + 1
PROOF
  <1> DEFINE q == a \div PageSize
  <1>1. q \in Nat
    BY DivMod
  <1>2. /\ Len(slots) \in Nat /\ Len(slots) <= U32Max /\ U32Max \in Nat
        /\ U64Max \in Nat /\ PageSize \in Nat /\ PageSize > 0
    BY SourceKept, BoundsAssumption, Geometry
  <1>3. /\ PageSize * Len(slots) \in Nat /\ Len(slots) * PageSize = PageSize * Len(slots)
        /\ (PageSize * Len(slots)) \div PageSize = Len(slots)
        /\ (PageSize * Len(slots)) % PageSize = 0
    BY <1>2, PageStart
  <1>4. q < Len(slots)
    BY <1>3, EarlierPage
  <1>5. U32Max <= U64Max
    <2>1. U32Max <= U32Max * PageSize /\ U32Max * PageSize \in Nat
      BY <1>2, SMT
    <2> QED BY <1>2, <2>1, BoundsAssumption
  <1> HIDE DEF q
  <1>6. q + 1 \in 1 .. Len(slots) /\ q + 1 <= U32Max /\ q + 1 <= U64Max
    BY <1>1, <1>2, <1>4, <1>5
  <1> QED BY <1>6 DEF PageNumberFromIndex, q

\* Opening accepts or refuses the source as the contract says.
LEMMA OpenStep ==
  ASSUME ReaderInv, ImageInv, NEW passphrase \in Passphrases, Open(passphrase)
  PROVE  ImageInv' /\ Abstract!Next
PROOF
  <1> DEFINE size == FileSize
  <1> USE DEF source, cursor
  <1>1. PICK status \in {"Source", OpenStatus(passphrase, size)} :
          /\ result' = Result(status)
          /\ reader' = IF status = "ok"
                       THEN [keys |-> DeriveKeys(passphrase, salt),
                             file_size |-> size,
                             page_count |-> size \div PageSize]
                       ELSE ClosedReader
    BY DEF Open
  <1>2. /\ pc = "idle" /\ reader = ClosedReader /\ call = NoCall /\ result = NoResult
        /\ output = EmptyBuffer /\ call' = OpenCall /\ pc' = "returned"
        /\ UNCHANGED <<source, output>>
    BY DEF Open, ReaderInv, ControlInv, ImageInv
  <1>3. /\ Len(slots) \in Nat /\ tail \in 0 .. PageSize - 1 /\ PageSize \in Nat
        /\ PageSize > 0 /\ U32Max \in Nat /\ slots \in Seq(Stored)
    BY Geometry, BoundsAssumption DEF ReaderInv, TypeOK
  <1>4. /\ size \in Nat /\ size \div PageSize = Len(slots) /\ size % PageSize = tail
        /\ size = PageSize * Len(slots) + tail
        /\ PageSize * Len(slots) \in Nat /\ Len(slots) * PageSize = PageSize * Len(slots)
    <2>1. /\ PageSize * Len(slots) \in Nat
          /\ Len(slots) * PageSize = PageSize * Len(slots)
      BY <1>3, PageStart
    <2>2. size \in Nat /\ size = PageSize * Len(slots) + tail
      BY <1>3, <2>1 DEF FileSize
    <2> QED BY <1>3, <2>1, <2>2, DivUnique
  <1>5. Len(slots) = 0 <=> slots = << >>
    BY <1>3
  <1>6. /\ size = 0 <=> slots = << >> /\ tail = 0
        /\ size < PageSize <=> slots = << >>
    <2>1. Len(slots) > 0 => PageSize * Len(slots) >= PageSize
      BY <1>3, SMT
    <2>2. Len(slots) = 0 => PageSize * Len(slots) = 0
      BY <1>3
    <2> HIDE DEF size
    <2> QED BY <1>3, <1>4, <1>5, <2>1, <2>2
  <1> HIDE DEF size
  <1>7. OpenStatus(passphrase, size) =
           IF slots = << >> THEN IF tail = 0 THEN "EmptyFile" ELSE "FileTooSmall"
           ELSE IF tail # 0 THEN "InvalidFileSize"
           ELSE IF Len(slots) > U32Max THEN "TooManyPages"
           ELSE IF passphrase = EmptyPassphrase THEN "EmptyPassphrase" ELSE "ok"
    <2>1. /\ size > 0 <=> size # 0
          /\ size >= PageSize <=> ~(size < PageSize)
          /\ size = 0 => size < PageSize
      BY <1>3, <1>4
    <2>2. CASE size = 0
      BY <1>6, <2>1, <2>2 DEF OpenStatus
    <2>3. CASE size # 0 /\ size < PageSize
      BY <1>6, <2>1, <2>3 DEF OpenStatus
    <2>4. CASE size # 0 /\ ~(size < PageSize) /\ tail # 0
      BY <1>4, <1>6, <2>1, <2>4 DEF OpenStatus
    <2>5. CASE size # 0 /\ ~(size < PageSize) /\ tail = 0 /\ Len(slots) > U32Max
      BY <1>4, <1>6, <2>1, <2>5 DEF OpenStatus
    <2>6. CASE size # 0 /\ ~(size < PageSize) /\ tail = 0 /\ ~(Len(slots) > U32Max)
      BY <1>4, <1>6, <2>1, <2>6 DEF OpenStatus
    <2> QED BY <2>2, <2>3, <2>4, <2>5, <2>6
  <1>8. CASE status = "ok"
    <2>1. /\ passphrase # EmptyPassphrase /\ tail = 0
          /\ Len(slots) <= U32Max /\ slots # << >>
      BY <1>1, <1>3, <1>8, <1>7
    <2>2. size = Len(slots) * PageSize
      BY <1>4, <2>1
    <2>3. Abstract!Acceptable(passphrase)
      BY <1>3, <1>5, <2>1 DEF Abstract!Acceptable
    <2>4. Abstract!Open(passphrase)
      BY <1>1, <1>2, <1>4, <1>8, <2>2, <2>3, SharedNames, ResultTypes
      DEF Abstract!Open, Abstract!source, DeriveKeys
    <2>5. OpenedInv'
      BY <1>1, <1>2, <1>4, <1>8, <2>1, <2>2 DEF ImageInv, OpenedInv
    <2> QED BY <1>2, <2>4, <2>5 DEF ImageInv, Abstract!Next, Looping, OpenCall, EmptyBuffer
  <1>9. CASE status # "ok"
    <2>1. status \in ReaderErrors /\ Abstract!OpenJustified(status, passphrase)
      <3>1. CASE status = "Source"
        BY <3>1 DEF ReaderErrors, Abstract!OpenJustified
      <3>2. CASE status = OpenStatus(passphrase, size)
        BY <1>9, <1>7, <3>2 DEF ReaderErrors, Abstract!OpenJustified
      <3> QED BY <3>1, <3>2
    <2>2. Abstract!Open(passphrase)
      BY <1>1, <1>2, <1>9, <2>1, SharedNames, ResultTypes
      DEF Abstract!Open, Abstract!source
    <2>3. OpenedInv'
      BY <1>1, <1>2, <1>9 DEF ImageInv, OpenedInv
    <2> QED BY <1>2, <2>2, <2>3 DEF ImageInv, Abstract!Next, Looping, OpenCall, EmptyBuffer
  <1> QED BY <1>8, <1>9

\* The start of a call is an abstract step.
LEMMA CallStep ==
  ASSUME ReaderInv, ImageInv, Calling,
         ~\E passphrase \in Passphrases : Open(passphrase), ~Take
  PROVE  ImageInv' /\ Abstract!Next
PROOF
  <1> USE DEF source, cursor
  <1>1. ASSUME NEW n \in 1 .. U32Max, NEW len \in 0 .. MaxLength, CallReadPageInto(n, len)
        PROVE  ImageInv' /\ Abstract!Next
    <2>1. call = NoCall /\ result = NoResult
      BY <1>1 DEF CallReadPageInto, ReaderInv, ControlInv
    <2>2. call'.op = "page" /\ call'.length = len
      BY <1>1 DEF CallReadPageInto, PageCall
    <2>3. Abstract!Call(PageCall(n, len))
      BY <1>1, <2>1, SharedNames DEF CallReadPageInto, Abstract!Call, Abstract!source
    <2>4. ImageInv'
      BY <1>1, <2>2 DEF CallReadPageInto, ImageInv, OpenedInv, Looping, CallerBuffer
    <2> QED BY <2>3, <2>4, SharedNames DEF Abstract!Next
  <1>2. ASSUME NEW off \in 0 .. U64Max, NEW len \in 0 .. MaxLength, CallReadExactAt(off, len)
        PROVE  ImageInv' /\ Abstract!Next
    <2>1. call = NoCall /\ result = NoResult
      BY <1>2 DEF CallReadExactAt, ReaderInv, ControlInv
    <2>2. call'.op = "range" /\ call'.length = len
      BY <1>2 DEF CallReadExactAt, RangeCall
    <2>3. Abstract!Call(RangeCall(off, len))
      BY <1>2, <2>1, SharedNames DEF CallReadExactAt, Abstract!Call, Abstract!source
    <2>4. ImageInv'
      BY <1>2, <2>2 DEF CallReadExactAt, ImageInv, OpenedInv, Looping, CallerBuffer
    <2> QED BY <2>3, <2>4, SharedNames DEF Abstract!Next
  <1> QED BY <1>1, <1>2 DEF Calling

\* Taking the answer is an abstract step.
LEMMA TakeStep ==
  ASSUME ReaderInv, ImageInv, Take
  PROVE  ImageInv' /\ Abstract!Next
PROOF
  <1>1. result # NoResult
    BY DEF Take, ReaderInv, ControlInv
  <1>2. Abstract!Take
    BY <1>1, SharedNames DEF Take, Abstract!Take, Abstract!source, source
  <1>3. ImageInv'
    BY DEF Take, ImageInv, OpenedInv, Looping, source, NoCall, EmptyBuffer
  <1> QED BY <1>2, <1>3 DEF Abstract!Next

\* An error of a call clears the caller's buffer.
LEMMA ErrorOutput ==
  ASSUME ReaderInv, ImageInv, NEW res \in Results, res.status # "ok", NEW buffer
  PROVE  /\ /\ call.op = "range" /\ Return(res, buffer)
            /\ DOMAIN buffer = 0 .. call.length - 1
            => output' = [k \in 0 .. call.length - 1 |-> Zero]
         /\ /\ pc \in {"page", "fetch", "decrypt"}
            /\ FailPage(res, Zeroize(buffer)) /\ DOMAIN buffer = DOMAIN TargetBuffer
            => output' = [k \in 0 .. call.length - 1 |-> Zero]
PROOF
  <1>1. ASSUME call.op = "range", Return(res, buffer), DOMAIN buffer = 0 .. call.length - 1
        PROVE  output' = [k \in 0 .. call.length - 1 |-> Zero]
    BY <1>1 DEF Return, ReturnedOutput, Zeroize
  <1>2. ASSUME pc \in {"page", "fetch", "decrypt"},
               FailPage(res, Zeroize(buffer)), DOMAIN buffer = DOMAIN TargetBuffer
        PROVE  output' = [k \in 0 .. call.length - 1 |-> Zero]
    <2>1. DOMAIN output = 0 .. call.length - 1 /\ call.op \in {"page", "range"}
      BY <1>2, InProgress
    <2>2. target = "output" \/ target = "scratch"
      BY DEF ReaderInv, TypeOK
    <2>3. CASE target = "output"
      BY <1>2, <2>1, <2>3
      DEF FailPage, Return, ReturnedOutput, Zeroize, TargetBuffer
    <2>4. CASE target = "scratch"
      <3>1. call.op = "range"
        BY <1>2, <2>4 DEF ReaderInv, LoopInv, Looping
      <3> QED BY <1>2, <2>1, <2>4, <3>1 DEF FailPage, Return, ReturnedOutput, Zeroize
    <2> QED BY <2>2, <2>3, <2>4
  <1> QED BY <1>1, <1>2

\* A call that has returned holds nothing that has to be known of it.
LEMMA ReturnedImage ==
  ASSUME ImageInv, pc' = "returned", UNCHANGED <<source, reader, call>>,
         output' = [k \in 0 .. call.length - 1 |-> output'[k]]
  PROVE  ImageInv'
  BY DEF ImageInv, OpenedInv, Looping, source

\* The answers that are errors of the call and not of a page.
LEMMA FailStep ==
  ASSUME ReaderInv, ImageInv, pc \notin {"idle", "returned"},
         NEW status \in {"Source", "InvalidOutputPageLength", "PageOutOfRange",
                         "OffsetOverflow", "UnexpectedEof"},
         result' = Result(status), pc' = "returned",
         output' = [k \in 0 .. call.length - 1 |-> Zero],
         UNCHANGED <<source, reader, call>>,
         status = "Source" => InBounds /\ call.length > 0,
         status = "InvalidOutputPageLength" => call.op = "page" /\ call.length # PageSize,
         status = "PageOutOfRange" => call.op = "page" /\ call.page_no > Len(slots),
         status = "OffsetOverflow" =>
           call.op = "range" /\ call.length > 0 /\ call.offset + call.length > U64Max,
         status = "UnexpectedEof" => call.op = "range" /\ call.length > 0 /\ ~InBounds
  PROVE  ImageInv' /\ Abstract!Next
PROOF
  <1>1. status \in ReaderErrors
    BY DEF ReaderErrors
  <1>2. Result(status) = PageResult(status, 0) /\ PageResult(status, 0).status = status
    BY DEF Result, PageResult
  <1>3. Answering
    BY <1>1, InProgress, ResultTypes DEF Answering, source
  <1>4. Abstract!InBounds(call) <=> InBounds
    BY DEF Abstract!InBounds, InBounds
  <1>5. Abstract!ErrorJustified(PageResult(status, 0), call)
    <2>1. CASE status = "Source"
      BY <1>2, <1>4, <2>1 DEF Abstract!ErrorJustified, Abstract!PageErrors
    <2>2. CASE status = "InvalidOutputPageLength"
      BY <1>2, <1>4, <2>2 DEF Abstract!ErrorJustified, Abstract!PageErrors
    <2>3. CASE status = "PageOutOfRange"
      BY <1>2, <1>4, <2>3 DEF Abstract!ErrorJustified, Abstract!PageErrors
    <2>4. CASE status = "OffsetOverflow"
      BY <1>2, <1>4, <2>4 DEF Abstract!ErrorJustified, Abstract!PageErrors
    <2>5. CASE status = "UnexpectedEof"
      BY <1>2, <1>4, <2>5 DEF Abstract!ErrorJustified, Abstract!PageErrors
    <2> QED BY <2>1, <2>2, <2>3, <2>4, <2>5
  <1>6. 0 \in 0 .. MaxSlots
    BY BoundsAssumption
  <1>7. Abstract!Next
    BY <1>1, <1>2, <1>3, <1>5, <1>6, AnswerErrorStep
  <1>8. ImageInv'
    BY ReturnedImage
  <1> QED BY <1>7, <1>8

\* The checks of a range read: an answer or the first turn of the loop.
LEMMA EnterRangeStep ==
  ASSUME ReaderInv, ImageInv, EnterRange
  PROVE  ImageInv' /\ [Abstract!Next]_(Abstract!vars)
PROOF
  <1> DEFINE off == call.offset
             len == call.length
             cleared == Zeroize(output)
             first == PageNumberFromIndex(off \div PageSize)
  <1> USE DEF cursor
  <1>1. pc = "range" /\ call.op = "range" /\ UNCHANGED <<source, reader, call>>
    BY DEF EnterRange, ReaderInv, ControlInv
  <1>2. /\ len \in Nat /\ off \in Nat /\ result = NoResult
        /\ DOMAIN output = 0 .. len - 1
        /\ output = [k \in 0 .. len - 1 |-> output[k]]
    BY <1>1, InProgress DEF ImageInv
  <1>3. /\ reader.file_size = Len(slots) * PageSize /\ Len(slots) * PageSize <= U64Max
        /\ Len(slots) * PageSize \in Nat /\ U64Max \in Nat
    BY <1>1, SourceKept, BoundsAssumption
  <1>4. InBounds <=> off + len <= reader.file_size
    BY <1>1, <1>3 DEF InBounds
  <1>5. DOMAIN cleared = 0 .. len - 1 /\ cleared = [k \in 0 .. len - 1 |-> Zero]
    BY <1>2 DEF Zeroize
  <1>6. CASE len = 0 /\ Return(Result("ok"), output)
    <2>1. result' = Result("ok") /\ output' = output /\ pc' = "returned"
      BY <1>6, ResultTypes DEF Return, ReturnedOutput
    <2>2. output' = [k \in 0 .. len - 1 |->
                       DecryptedByte(PageAt(k), slots[PageAt(k)], ByteAt(k) % PageSize)]
      <3>1. 0 .. len - 1 = {}
        BY <1>6
      <3> QED BY <1>2, <2>1, <3>1
    <2>3. Answering
      BY <1>1, <1>2, <2>1, ResultTypes DEF Answering, source
    <2>4. Abstract!Next
      BY <1>1, <1>6, <2>1, <2>2, <2>3, AnswerOkStep
    <2> QED BY <1>1, <1>2, <2>1, <2>4, ReturnedImage
  <1>7. ASSUME NEW status \in {"OffsetOverflow", "UnexpectedEof"},
               Return(Result(status), cleared), len # 0,
               status = "OffsetOverflow" => off + len > U64Max,
               status = "UnexpectedEof" => off + len > reader.file_size
        PROVE  ImageInv' /\ Abstract!Next
    <2>1. Result(status) \in Results /\ Result(status).status # "ok" /\ len > 0
      BY <1>2, <1>7, ResultTypes DEF ReaderErrors
    <2>2. output' = [k \in 0 .. len - 1 |-> Zero]
      BY <1>1, <1>5, <1>7, <2>1, ErrorOutput
    <2>3. result' = Result(status) /\ pc' = "returned"
      BY <1>7 DEF Return
    <2>4. status = "UnexpectedEof" => ~InBounds
      BY <1>2, <1>3, <1>4, <1>7
    <2> QED BY <1>1, <1>7, <2>1, <2>2, <2>3, <2>4, FailStep
  <1>8. ASSUME len # 0, off + len <= reader.file_size
        PROVE  first # 0 /\ first \in 1 .. Len(slots)
    <2>1. off < Len(slots) * PageSize
      BY <1>2, <1>3, <1>8
    <2> QED BY <1>1, <1>2, <2>1, PageOfImage
  <1>9. CASE /\ len # 0 /\ off + len <= reader.file_size
             /\ output' = cleared /\ target' = "output" /\ pc' = "page" /\ UNCHANGED result
    <2>1. ImageInv'
      BY <1>1, <1>2, <1>3, <1>5, <1>9 DEF ImageInv, OpenedInv, Looping, source
    <2> QED BY <1>1, <1>2, <1>9, <2>1, Unseen DEF source
  <1>10. CASE /\ len # 0 /\ off + len <= reader.file_size
              /\ output' = cleared /\ output_offset' = 0 /\ pc' = "loop" /\ UNCHANGED result
    <2>1. DeliveredUpTo(output_offset)'
      BY <1>10 DEF DeliveredUpTo
    <2>2. ImageInv'
      BY <1>1, <1>2, <1>3, <1>5, <1>10, <2>1 DEF ImageInv, OpenedInv, source
    <2> QED BY <1>1, <1>2, <1>10, <2>2, Unseen DEF source
  <1>11. CASE len # 0 /\ off + len > U64Max /\ Return(Result("OffsetOverflow"), cleared)
    BY <1>7, <1>11
  <1>12. CASE len # 0 /\ off + len > reader.file_size /\ Return(Result("UnexpectedEof"), cleared)
    BY <1>7, <1>12
  <1> QED BY <1>6, <1>8, <1>9, <1>10, <1>11, <1>12 DEF EnterRange

\* Nothing that a page of the loop delivered is lost on the way to the next.
LEMMA StillDelivered ==
  ASSUME NEW m, DeliveredUpTo(m), UNCHANGED <<slots, call, reader, output>>
  PROVE  DeliveredUpTo(m)'
  BY DEF DeliveredUpTo, PageAt, ByteAt, FirstByte

\* Where the loop stands.
LEMMA LoopPosition ==
  ASSUME ReaderInv, ImageInv, Looping
  PROVE  /\ call.op = "range" /\ call.length \in Nat /\ call.offset \in Nat
         /\ database_offset \in Nat /\ output_offset \in Nat
         /\ database_offset = call.offset + output_offset
         /\ output_offset <= call.length
         /\ call.offset + call.length <= Len(slots) * PageSize
         /\ Len(slots) * PageSize \in Nat
         /\ output_offset < call.length =>
              /\ database_offset < Len(slots) * PageSize
              /\ database_offset \div PageSize + 1 \in 1 .. Len(slots)
              /\ PageNumberFromIndex(database_offset \div PageSize)
                   = database_offset \div PageSize + 1
         /\ pc # "loop" => /\ output_offset < call.length
                           /\ page_no = database_offset \div PageSize + 1
PROOF
  <1>1. pc \in {"loop", "page", "fetch", "decrypt", "copy"}
    BY DEF Looping
  <1>2. /\ call.length \in Nat /\ call.offset \in Nat /\ U64Max \in Nat
        /\ Len(slots) * PageSize \in Nat
    BY <1>1, InProgress, SourceKept
  <1>3. /\ call.op = "range" /\ database_offset = call.offset + output_offset
        /\ pc # "loop" => /\ output_offset < call.length
                          /\ page_no = database_offset \div PageSize + 1
    BY DEF ReaderInv, LoopInv
  <1>4. output_offset \in 0 .. call.length /\ database_offset \in 0 .. U64Max
    BY DEF ReaderInv, TypeOK
  <1>5. call.offset + call.length <= Len(slots) * PageSize
    BY <1>1, <1>3 DEF ImageInv
  <1>6. output_offset < call.length => database_offset < Len(slots) * PageSize
    BY <1>2, <1>3, <1>4, <1>5
  <1>7. database_offset \in Nat /\ output_offset \in Nat /\ output_offset <= call.length
    BY <1>2, <1>4
  <1> QED BY <1>1, <1>2, <1>3, <1>5, <1>6, <1>7, PageOfImage

\* The pages a range touches hold its bytes.
LEMMA TouchedPage ==
  ASSUME call.op \in {"page", "range"}, NEW n \in Abstract!Touched(call)
  PROVE  n \in 1 .. Len(slots) /\ \E k \in 0 .. call.length - 1 : PageAt(k) = n
  BY DEF Abstract!Touched, Abstract!FirstByte, FirstByte, PageAt, ByteAt

\* The head of the loop answers the call or goes on to its next page.
LEMMA LoopHeadStep ==
  ASSUME ReaderInv, ImageInv, LoopHead
  PROVE  ImageInv' /\ [Abstract!Next]_(Abstract!vars)
PROOF
  <1>1. pc = "loop" /\ Looping /\ UNCHANGED <<source, reader, call, cursor>>
    BY DEF LoopHead, Looping
  <1>2. result = NoResult /\ output = [k \in 0 .. call.length - 1 |-> output[k]]
    BY <1>1, InProgress DEF ImageInv
  <1>3. DeliveredUpTo(output_offset)
    BY <1>1 DEF ImageInv
  <1>4. CASE output_offset >= call.length
    <2>1. output_offset = call.length
      BY <1>1, <1>4, LoopPosition
    <2>2. result' = Result("ok") /\ output' = output /\ pc' = "returned"
      BY <1>4, ResultTypes DEF LoopHead, Return, ReturnedOutput
    <2>3. output' = [k \in 0 .. call.length - 1 |->
                       DecryptedByte(PageAt(k), slots[PageAt(k)], ByteAt(k) % PageSize)]
      BY <1>2, <1>3, <2>1, <2>2 DEF DeliveredUpTo
    <2>4. InBounds /\ call.op \in {"page", "range"}
      BY <1>1, LoopPosition DEF InBounds
    <2>5. \A n \in Abstract!Touched(call) : Genuine(reader.keys, n, slots[n])
      BY <1>3, <2>1, <2>4, TouchedPage DEF DeliveredUpTo
    <2>6. Answering
      BY <1>1, <1>2, <2>2, <2>4, ResultTypes DEF Answering, source
    <2>7. Abstract!Next
      BY <2>2, <2>3, <2>4, <2>5, <2>6, AnswerOkStep
    <2> QED BY <1>1, <1>2, <2>2, <2>7, ReturnedImage
  <1>5. CASE ~(output_offset >= call.length)
    <2>1. output_offset < call.length
      BY <1>1, <1>5, LoopPosition
    <2>2. PageNumberFromIndex(database_offset \div PageSize) # 0
      <3>1. PageNumberFromIndex(database_offset \div PageSize) \in 1 .. Len(slots)
        BY <1>1, <2>1, LoopPosition
      <3> QED BY <3>1
    <2>3. pc' = "page" /\ UNCHANGED <<output, scratch, result>>
      BY <1>5, <2>2 DEF LoopHead
    <2>4. DeliveredUpTo(output_offset)'
      BY <1>1, <1>3, <2>3, StillDelivered DEF source, cursor, DeliveredUpTo
    <2>5. ImageInv'
      BY <1>1, <1>2, <2>3, <2>4 DEF ImageInv, OpenedInv, source, cursor
    <2> QED BY <1>1, <1>2, <2>3, <2>5, Unseen DEF source
  <1> QED BY <1>4, <1>5

\* The page that is read: its number, and that it is touched.
LEMMA PageInProgress ==
  ASSUME ReaderInv, ImageInv, pc \in {"page", "fetch", "decrypt"}
  PROVE  /\ page_no \in Nat /\ page_no > 0
         /\ target = "output" \/ target = "scratch"
         /\ target = "scratch" => Looping
         /\ target = "output" =>
              \/ call.op = "page" /\ page_no = call.page_no
              \/ /\ call.op = "range" /\ call.length = PageSize
                 /\ call.offset % PageSize = 0
                 /\ page_no = call.offset \div PageSize + 1
         /\ call.op = "range" => page_no \in 1 .. Len(slots) /\ InBounds /\ call.length > 0
PROOF
  <1>1. /\ page_no \in Nat /\ page_no > 0
        /\ target = "output" \/ target = "scratch"
    BY BoundsAssumption DEF ReaderInv, TypeOK, BufferInv
  <1>2. target = "scratch" => Looping
    BY DEF Looping
  <1>3. target = "output" =>
          \/ call.op = "page" /\ page_no = call.page_no
          \/ /\ call.op = "range" /\ call.length = PageSize
             /\ call.offset % PageSize = 0
             /\ page_no = call.offset \div PageSize + 1
    BY DEF ReaderInv, DirectInv, IsAlignedPage
  <1>4. ASSUME call.op = "range"
        PROVE  page_no \in 1 .. Len(slots) /\ InBounds /\ call.length > 0
    <2>1. InBounds /\ call.length > 0
      BY <1>4 DEF ImageInv, InBounds
    <2>2. CASE target = "scratch"
      BY <1>2, <2>1, <2>2, LoopPosition
    <2>3. CASE target = "output"
      <3>1. /\ call.offset \in Nat /\ call.length \in Nat
            /\ Len(slots) * PageSize \in Nat
        BY InProgress, SourceKept
      <3>2. call.offset < Len(slots) * PageSize
        BY <1>4, <2>1, <3>1 DEF InBounds
      <3> QED BY <1>3, <1>4, <2>1, <2>3, <3>1, <3>2, PageOfImage
    <2> QED BY <1>1, <2>2, <2>3
  <1> QED BY <1>1, <1>2, <1>3, <1>4

\* A page-sized buffer is that of a page in bounds.
LEMMA PageInBounds ==
  ASSUME ReaderInv, ImageInv, pc \in {"fetch", "decrypt"}
  PROVE  InBounds /\ call.length > 0 /\ page_no \in 1 .. Len(slots)
PROOF
  <1>1. page_no \in 1 .. Len(slots)
    BY PageInProgress, SourceKept DEF ImageInv
  <1>2. call.op \in {"page", "range"} /\ call.length \in Nat
    BY InProgress
  <1>3. CASE call.op = "range"
    BY <1>1, <1>3, PageInProgress
  <1>4. CASE call.op = "page"
    <2>1. target = "output" /\ page_no = call.page_no
      BY <1>4, PageInProgress, LoopPosition
    <2>2. 0 .. call.length - 1 = 0 .. PageSize - 1
      BY <2>1, InProgress, Geometry DEF ReaderInv, BufferInv, TargetBuffer
    <2>3. call.length = PageSize /\ PageSize > 0
      BY <1>2, <2>2, Geometry
    <2> QED BY <1>1, <1>4, <2>1, <2>3 DEF InBounds
  <1> QED BY <1>2, <1>3, <1>4

\* The checks of one page: an answer or a fetch.
LEMMA EnterPageStep ==
  ASSUME ReaderInv, ImageInv, EnterPage
  PROVE  ImageInv' /\ [Abstract!Next]_(Abstract!vars)
PROOF
  <1> DEFINE cleared == Zeroize(TargetBuffer)
             status == CASE DOMAIN TargetBuffer # Offsets -> "InvalidOutputPageLength"
                         [] DOMAIN TargetBuffer = Offsets /\ page_no > reader.page_count
                              -> "PageOutOfRange"
                         [] OTHER -> IF (page_no - 1) * PageSize > U64Max
                                     THEN "OffsetOverflow" ELSE "ok"
  <1> USE DEF cursor
  <1>1. pc = "page" /\ UNCHANGED <<source, reader, call, target, page_no, cursor>>
    BY DEF EnterPage
  <1>2. /\ result = NoResult /\ output = [k \in 0 .. call.length - 1 |-> output[k]]
        /\ DOMAIN output = 0 .. call.length - 1 /\ call.op \in {"page", "range"}
    BY <1>1, InProgress DEF ImageInv
  <1>3. reader.page_count = Len(slots) /\ Len(slots) \in Nat /\ Len(slots) <= U32Max
    BY <1>1, SourceKept
  <1>4. page_no \in Nat /\ page_no > 0 /\ (target = "output" \/ target = "scratch")
    BY <1>1, PageInProgress
  <1>5. page_no <= Len(slots) => ~((page_no - 1) * PageSize > U64Max)
    <2>1. ASSUME page_no <= Len(slots) PROVE (page_no - 1) * PageSize <= Len(slots) * PageSize
      <3> DEFINE n == Len(slots)
      <3>1. n \in Nat /\ page_no <= n
        BY <1>3, <2>1
      <3> HIDE DEF n
      <3>2. \A m, u, p \in Nat : m <= u => m * p <= u * p
        BY SMT
      <3> QED BY <1>4, <3>1, <3>2, Geometry DEF n
    <2>2. Len(slots) * PageSize <= U64Max /\ Len(slots) * PageSize \in Nat /\ U64Max \in Nat
      BY <1>1, SourceKept, BoundsAssumption
    <2>3. (page_no - 1) * PageSize \in Nat
      BY <1>4, Geometry
    <2> QED BY <2>1, <2>2, <2>3
  <1>6. target = "scratch" \/ call.op = "range" => DOMAIN TargetBuffer = Offsets
    <2>1. CASE target = "scratch"
      BY <1>1, <2>1, TargetBufferType
    <2>2. CASE target = "output" /\ call.op = "range"
      BY <1>1, <1>2, <2>2, PageInProgress, Geometry DEF TargetBuffer
    <2> QED BY <1>4, <2>1, <2>2
  <1>7. call.op = "page" => target = "output" /\ page_no = call.page_no
    BY <1>1, <1>4, PageInProgress, LoopPosition
  <1>8. call.op = "range" => page_no <= Len(slots)
    BY <1>1, <1>3, PageInProgress
  <1>9. CASE status # "ok"
    <2>1. FailPage(Result(status), cleared)
      BY <1>9 DEF EnterPage
    <2>2. /\ status \in {"InvalidOutputPageLength", "PageOutOfRange"}
          /\ status = "InvalidOutputPageLength" => DOMAIN TargetBuffer # Offsets
          /\ status = "PageOutOfRange" =>
               page_no > Len(slots) /\ DOMAIN TargetBuffer = Offsets
      BY <1>3, <1>4, <1>5, <1>9
    <2> HIDE DEF status
    <2>3. Result(status) \in Results /\ Result(status).status # "ok"
      BY <1>9, <2>2, ResultTypes DEF ReaderErrors
    <2>4. output' = [k \in 0 .. call.length - 1 |-> Zero]
      BY <1>1, <2>1, <2>3, ErrorOutput
    <2>5. result' = Result(status) /\ pc' = "returned"
      BY <2>1 DEF FailPage, Return
    <2>6. call.op = "page"
      BY <1>2, <1>3, <1>4, <1>6, <1>8, <2>2
    <2>7. status = "InvalidOutputPageLength" => call.length # PageSize
      BY <1>2, <1>7, <2>2, <2>6 DEF TargetBuffer, Offsets
    <2>8. status = "PageOutOfRange" => call.page_no > Len(slots)
      BY <1>7, <2>2, <2>6
    <2> QED BY <1>1, <2>2, <2>4, <2>5, <2>6, <2>7, <2>8, FailStep
  <1>10. CASE status = "ok"
    <2>1. SetTarget(cleared) /\ pc' = "fetch" /\ UNCHANGED result
      BY <1>10 DEF EnterPage
    <2>2. page_no <= Len(slots)
      BY <1>3, <1>4, <1>10
    <2> HIDE DEF status
    <2>3. output' = [k \in 0 .. call.length - 1 |-> output'[k]]
      BY <1>2, <1>4, <2>1 DEF SetTarget, Zeroize, TargetBuffer
    <2>4. Looping' => DeliveredUpTo(output_offset)'
      <3>1. ASSUME Looping' PROVE Looping /\ target = "scratch"
        BY <1>1, <2>1, <3>1 DEF Looping
      <3>2. ASSUME target = "scratch" PROVE output' = output
        BY <2>1, <3>2 DEF SetTarget
      <3>3. Looping => DeliveredUpTo(output_offset)
        BY DEF ImageInv
      <3>4. ASSUME Looping' PROVE DeliveredUpTo(output_offset)'
        <4>1. DeliveredUpTo(output_offset) /\ output' = output /\ output_offset' = output_offset
          BY <1>1, <3>1, <3>2, <3>3, <3>4
        <4> QED BY <1>1, <4>1, StillDelivered DEF source, DeliveredUpTo
      <3> QED BY <3>4
    <2>5. ImageInv'
      BY <1>1, <2>1, <2>2, <2>3, <2>4 DEF ImageInv, OpenedInv, source
    <2> QED BY <1>1, <1>2, <2>1, <2>5, Unseen DEF source
  <1> QED BY <1>9, <1>10

\* What a fetch delivers is the page of the source.
LEMMA FetchStep ==
  ASSUME ReaderInv, ImageInv, Fetch
  PROVE  ImageInv' /\ [Abstract!Next]_(Abstract!vars)
PROOF
  <1> DEFINE raw == RawPage(slots[page_no])
  <1> USE DEF cursor
  <1>1. /\ pc = "fetch" /\ page_no <= Len(slots) /\ SetTarget(raw) /\ pc' = "decrypt"
        /\ UNCHANGED <<source, reader, call, target, page_no, cursor, result>>
    BY DEF Fetch
  <1>2. /\ result = NoResult /\ output = [k \in 0 .. call.length - 1 |-> output[k]]
        /\ DOMAIN output = 0 .. call.length - 1
    BY <1>1, InProgress DEF ImageInv
  <1>3. target = "output" \/ target = "scratch"
    BY <1>1, PageInProgress
  <1>4. raw = [i \in Offsets |-> raw[i]]
    BY DEF RawPage
  <1>5. raw' = raw
    BY <1>1 DEF source, RawPage, Raw
  <1>6. output' = [k \in 0 .. call.length - 1 |-> output'[k]]
    <2>1. CASE target = "output"
      <3>1. Offsets = 0 .. call.length - 1
        BY <1>1, <1>2, <2>1 DEF ReaderInv, BufferInv, TargetBuffer
      <3>2. output' = raw
        BY <1>1, <2>1 DEF SetTarget
      <3> HIDE DEF raw
      <3> QED BY <1>4, <3>1, <3>2
    <2>2. CASE target = "scratch"
      BY <1>1, <1>2, <2>2 DEF SetTarget
    <2> QED BY <1>3, <2>1, <2>2
  <1>7. TargetBuffer' = raw'
    <2> HIDE DEF raw
    <2> QED BY <1>1, <1>3, <1>5 DEF SetTarget, TargetBuffer
  <1>8. Looping' => DeliveredUpTo(output_offset)'
    <2>1. ASSUME Looping' PROVE Looping /\ target = "scratch"
      BY <1>1, <2>1 DEF Looping
    <2>2. ASSUME target = "scratch" PROVE output' = output
      BY <1>1, <2>2 DEF SetTarget
    <2>3. Looping => DeliveredUpTo(output_offset)
      BY DEF ImageInv
    <2>4. ASSUME Looping' PROVE DeliveredUpTo(output_offset)'
      <3>1. DeliveredUpTo(output_offset) /\ output' = output /\ output_offset' = output_offset
        BY <1>1, <2>1, <2>2, <2>3, <2>4
      <3> QED BY <1>1, <3>1, StillDelivered DEF source, DeliveredUpTo
    <2> QED BY <2>4
  <1> HIDE DEF raw
  <1>9. ImageInv'
    BY <1>1, <1>6, <1>7, <1>8 DEF ImageInv, OpenedInv, source, raw
  <1> QED BY <1>1, <1>2, <1>9, Unseen DEF source

\* A source that fails fails the call.
LEMMA FetchFailsStep ==
  ASSUME ReaderInv, ImageInv, FetchFails
  PROVE  ImageInv' /\ [Abstract!Next]_(Abstract!vars)
PROOF
  <1>1. PICK k \in {0, PageSize - 1} :
          FailPage(Result("Source"),
                   SourceFailure(IF k = 0 THEN TargetBuffer
                                 ELSE PartlyRead(TargetBuffer, slots[page_no], k)))
    BY DEF FetchFails
  <1> DEFINE read == IF k = 0 THEN TargetBuffer
                     ELSE PartlyRead(TargetBuffer, slots[page_no], k)
  <1>2. DOMAIN read = DOMAIN TargetBuffer
    BY DEF PartlyRead
  <1>3. FailPage(Result("Source"), Zeroize(read))
    BY <1>1 DEF SourceFailure
  <1>4. pc = "fetch" /\ UNCHANGED <<source, reader, call>>
    BY DEF FetchFails
  <1>5. Result("Source") \in Results /\ Result("Source").status # "ok"
    BY ResultTypes DEF ReaderErrors
  <1>6. InBounds /\ call.length > 0
    BY <1>4, PageInBounds
  <1> HIDE DEF read
  <1>7. output' = [i \in 0 .. call.length - 1 |-> Zero]
    BY <1>2, <1>3, <1>4, <1>5, ErrorOutput
  <1>8. result' = Result("Source") /\ pc' = "returned"
    BY <1>3 DEF FailPage, Return
  <1> QED BY <1>4, <1>6, <1>7, <1>8, FailStep

\* The positions of a page that is read into the caller's buffer.
LEMMA DirectPositions ==
  ASSUME ReaderInv, ImageInv, pc = "decrypt", target = "output"
  PROVE  /\ call.length = PageSize
         /\ \A k \in 0 .. call.length - 1 :
              PageAt(k) = page_no /\ ByteAt(k) % PageSize = k
PROOF
  <1> DEFINE a == FirstByte(call)
  <1>1. /\ page_no \in Nat /\ page_no > 0 /\ PageSize \in Nat /\ call.offset \in Nat
        /\ call.op \in {"page", "range"} /\ PageSize > 0
    BY PageInProgress, InProgress, Geometry
  <1>2. call.length = PageSize /\ a \in Nat /\ a % PageSize = 0 /\ a \div PageSize + 1 = page_no
    <2>1. CASE call.op = "page"
      <3>1. call.length = PageSize /\ page_no = call.page_no
        BY <2>1, PageInBounds, PageInProgress DEF InBounds
      <3>2. page_no - 1 \in Nat
        BY <1>1
      <3>3. a = PageSize * (page_no - 1)
        BY <2>1, <3>1, <3>2, PageStart DEF FirstByte
      <3>4. a \in Nat /\ a % PageSize = 0 /\ a \div PageSize = page_no - 1
        BY <3>2, <3>3, PageStart
      <3> HIDE DEF a
      <3> QED BY <1>1, <3>1, <3>4
    <2>2. CASE call.op = "range"
      <3>1. /\ call.length = PageSize /\ call.offset % PageSize = 0
            /\ page_no = call.offset \div PageSize + 1
        BY <2>2, PageInProgress
      <3> QED BY <1>1, <2>2, <3>1 DEF FirstByte
    <2> QED BY <1>1, <2>1, <2>2
  <1> HIDE DEF a
  <1>3. ASSUME NEW k \in 0 .. call.length - 1
        PROVE  PageAt(k) = page_no /\ ByteAt(k) % PageSize = k
    <2>1. k \in Nat /\ (a % PageSize) + k < PageSize
      BY <1>1, <1>2
    <2>2. (a + k) \div PageSize = a \div PageSize /\ (a + k) % PageSize = (a % PageSize) + k
      BY <1>2, <2>1, SamePage
    <2> QED BY <1>2, <2>1, <2>2 DEF PageAt, ByteAt, a
  <1> QED BY <1>2, <1>3

\* The page that is decrypted is the first touched one that has not been found
\* genuine.
LEMMA EarlierPagesGenuine ==
  ASSUME ReaderInv, ImageInv, pc = "decrypt"
  PROVE  /\ page_no \in Abstract!Touched(call)
         /\ \A m \in Abstract!Touched(call) : m < page_no => Genuine(reader.keys, m, slots[m])
PROOF
  <1>1. /\ page_no \in 1 .. Len(slots) /\ call.length > 0 /\ call.length \in Nat
        /\ call.op \in {"page", "range"} /\ Len(slots) \in Nat
    BY PageInBounds, InProgress, SourceKept
  <1>2. ASSUME NEW k \in 0 .. call.length - 1, PageAt(k) = page_no
        PROVE  page_no \in Abstract!Touched(call)
    BY <1>1, <1>2 DEF Abstract!Touched, Abstract!FirstByte, FirstByte, PageAt, ByteAt
  <1>3. CASE target = "output"
    <2>1. 0 \in 0 .. call.length - 1
      BY <1>1
    <2>2. \A m \in Abstract!Touched(call) : m = page_no
      BY <1>1, <1>3, TouchedPage, DirectPositions
    <2> QED BY <1>1, <1>2, <1>3, <2>1, <2>2, DirectPositions
  <1>4. CASE target = "scratch"
    <2>1. Looping /\ DeliveredUpTo(output_offset)
      BY <1>4, PageInProgress DEF ImageInv
    <2>2. /\ call.op = "range" /\ output_offset \in Nat /\ database_offset \in Nat
          /\ call.offset \in Nat /\ output_offset < call.length
          /\ database_offset = call.offset + output_offset
          /\ page_no = database_offset \div PageSize + 1
      BY <2>1, LoopPosition
    <2>3. page_no \in Abstract!Touched(call)
      <3>1. output_offset \in 0 .. call.length - 1
        BY <1>1, <2>2
      <3>2. PageAt(output_offset) = page_no
        BY <2>2 DEF PageAt, ByteAt, FirstByte
      <3> QED BY <1>2, <3>1, <3>2
    <2>4. ASSUME NEW m \in Abstract!Touched(call), m < page_no
          PROVE  Genuine(reader.keys, m, slots[m])
      <3>1. PICK k \in 0 .. call.length - 1 : PageAt(k) = m
        BY <1>1, TouchedPage
      <3>2. ByteAt(k) = call.offset + k /\ k \in Nat /\ ByteAt(k) \in Nat
        BY <1>1, <2>2 DEF ByteAt, FirstByte
      <3>3. ASSUME database_offset <= ByteAt(k) PROVE FALSE
        <4>1. database_offset \div PageSize <= ByteAt(k) \div PageSize
          BY <2>2, <3>2, <3>3, LaterPage
        <4>2. database_offset \div PageSize \in Nat /\ ByteAt(k) \div PageSize \in Nat
          BY <2>2, <3>2, DivMod
        <4> QED BY <2>2, <2>4, <3>1, <4>1, <4>2 DEF PageAt
      <3>4. k \in 0 .. output_offset - 1
        BY <2>2, <3>2, <3>3
      <3> QED BY <2>1, <3>1, <3>4 DEF DeliveredUpTo
    <2> QED BY <2>3, <2>4
  <1> QED BY <1>3, <1>4, PageInProgress

\* Decryption answers the call, or gives the loop the next page to copy.
LEMMA DecryptStep ==
  ASSUME ReaderInv, ImageInv, Decrypt
  PROVE  ImageInv' /\ [Abstract!Next]_(Abstract!vars)
PROOF
  <1> DEFINE pg == slots[page_no]
             status == DecryptError(reader.keys, page_no, pg)
             buffer == DecryptInPlace(reader.keys, page_no, pg)
  <1> USE DEF cursor
  <1>1. pc = "decrypt" /\ UNCHANGED <<source, reader, call, target, page_no, cursor>>
    BY DEF Decrypt
  <1>2. TargetBuffer = RawPage(pg) /\ TargetBuffer[0].page = pg
    BY <1>1, Geometry DEF ImageInv, RawPage, Raw
  <1>3. IF status # "ok"
        THEN FailPage(PageResult(status, page_no), buffer)
        ELSE IF target = "output"
        THEN Return(Result("ok"), buffer)
        ELSE SetTarget(buffer) /\ pc' = "copy" /\ UNCHANGED result
    BY <1>2 DEF Decrypt
  <1>4. /\ result = NoResult /\ output = [k \in 0 .. call.length - 1 |-> output[k]]
        /\ DOMAIN output = 0 .. call.length - 1 /\ call.op \in {"page", "range"}
    BY <1>1, InProgress DEF ImageInv
  <1>5. /\ page_no \in 1 .. Len(slots) /\ InBounds
        /\ target = "output" \/ target = "scratch"
        /\ Len(slots) \in Nat /\ Len(slots) <= MaxSlots /\ MaxSlots \in Nat
    BY <1>1, PageInBounds, PageInProgress, SourceKept
  <1>6. status = "ok" => buffer = DecryptedPage(page_no, pg)
    BY DEF DecryptInPlace, InnerBuffer
  <1>7. CASE status # "ok"
    <2>1. buffer = Zeroize(InnerBuffer(reader.keys, page_no, pg))
      BY <1>7 DEF DecryptInPlace
    <2>2. DOMAIN InnerBuffer(reader.keys, page_no, pg) = DOMAIN TargetBuffer
      BY <1>2 DEF InnerBuffer, RawPage, DecryptedPage
    <2>3. status \in {"AuthenticationFailed", "InvalidSqlitePageSize",
                      "InvalidSqliteReserveSize"}
      BY <1>7 DEF DecryptError
    <2> HIDE DEF buffer, status
    <2>4. /\ status \in ReaderErrors /\ status \in Abstract!PageErrors
          /\ PageResult(status, page_no) \in Results
          /\ PageResult(status, page_no).status = status
          /\ PageResult(status, page_no).page = page_no
          /\ PageResult(status, page_no) # NoResult
      BY <1>5, <2>3, ResultTypes DEF ReaderErrors, Abstract!PageErrors, PageResult
    <2>5. FailPage(PageResult(status, page_no), buffer)
      BY <1>3, <1>7
    <2>6. output' = [k \in 0 .. call.length - 1 |-> Zero]
      BY <1>1, <1>7, <2>1, <2>2, <2>4, <2>5, ErrorOutput
    <2>7. result' = PageResult(status, page_no) /\ pc' = "returned"
      BY <2>5 DEF FailPage, Return
    <2>8. Answering
      BY <1>1, <1>4, <2>4, <2>7 DEF Answering, source
    <2>9. Abstract!PageErrorJustified(status, page_no, call)
      <3>1. page_no \in Abstract!Touched(call)
        BY <1>1, EarlierPagesGenuine
      <3>2. status = Abstract!DecryptError(reader.keys, page_no, slots[page_no])
        BY SharedDecryption DEF status
      <3>3. \A m \in Abstract!Touched(call) :
              m < page_no => Abstract!Genuine(reader.keys, m, slots[m])
        BY <1>1, EarlierPagesGenuine, SharedDecryption
      <3> QED BY <3>1, <3>2, <3>3 DEF Abstract!PageErrorJustified, Abstract!AllGenuine
    <2>10. Abstract!InBounds(call)
      BY <1>5 DEF InBounds, Abstract!InBounds
    <2>11. Abstract!ErrorJustified(PageResult(status, page_no), call)
      BY <2>3, <2>4, <2>9, <2>10 DEF Abstract!ErrorJustified, Abstract!PageErrors
    <2>12. page_no \in 0 .. MaxSlots
      BY <1>5
    <2>13. Abstract!Next
      BY <2>4, <2>6, <2>7, <2>8, <2>11, <2>12, AnswerErrorStep
    <2> QED BY <1>1, <2>6, <2>7, <2>13, ReturnedImage
  <1>8. CASE status = "ok" /\ target = "output"
    <2>1. Return(Result("ok"), DecryptedPage(page_no, pg))
      BY <1>3, <1>6, <1>8
    <2>2. /\ result' = Result("ok") /\ pc' = "returned"
          /\ output' = DecryptedPage(page_no, pg)
      BY <2>1, ResultTypes DEF Return, ReturnedOutput
    <2>3. /\ call.length = PageSize
          /\ \A k \in 0 .. call.length - 1 :
               PageAt(k) = page_no /\ ByteAt(k) % PageSize = k
      BY <1>1, <1>8, DirectPositions
    <2>4. output' = [k \in 0 .. call.length - 1 |->
                       DecryptedByte(PageAt(k), slots[PageAt(k)], ByteAt(k) % PageSize)]
      BY <2>2, <2>3 DEF DecryptedPage, Offsets
    <2>5. \A n \in Abstract!Touched(call) : n = page_no
      BY <1>4, <2>3, TouchedPage
    <2>6. \A n \in Abstract!Touched(call) : Genuine(reader.keys, n, slots[n])
      BY <1>8, <2>5 DEF Genuine
    <2>7. Answering
      BY <1>1, <1>4, <2>2, ResultTypes DEF Answering, source
    <2>8. Abstract!Next
      BY <1>5, <2>2, <2>4, <2>6, <2>7, AnswerOkStep
    <2> QED BY <1>1, <2>2, <2>4, <2>8, ReturnedImage
  <1>9. CASE status = "ok" /\ target = "scratch"
    <2>1. /\ output' = output /\ scratch' = DecryptedPage(page_no, pg)
          /\ pc' = "copy" /\ UNCHANGED result
      BY <1>3, <1>6, <1>9 DEF SetTarget
    <2>2. Genuine(reader.keys, page_no, pg)
      BY <1>9 DEF Genuine
    <2>3. DeliveredUpTo(output_offset)
      BY <1>1, <1>9, PageInProgress DEF ImageInv
    <2>4. DeliveredUpTo(output_offset)'
      BY <1>1, <2>1, <2>3, StillDelivered DEF source, DeliveredUpTo
    <2>5. scratch' = DecryptedPage(page_no, slots[page_no])' /\ Genuine(reader.keys, page_no, slots[page_no])'
      BY <1>1, <2>1, <2>2 DEF source, DecryptedPage
    <2>6. ImageInv'
      BY <1>1, <1>4, <1>5, <2>1, <2>4, <2>5 DEF ImageInv, OpenedInv, source
    <2> QED BY <1>1, <1>4, <2>1, <2>6, Unseen DEF source
  <1> QED BY <1>5, <1>7, <1>8, <1>9

\* The copy extends what is delivered.
LEMMA CopyStep ==
  ASSUME ReaderInv, ImageInv, Copy
  PROVE  ImageInv' /\ [Abstract!Next]_(Abstract!vars)
PROOF
  <1> DEFINE oo == output_offset
             r == database_offset % PageSize
             L == CopyLength
  <1>1. /\ pc = "copy" /\ UNCHANGED <<source, reader, call, target, page_no>>
        /\ oo' = oo + L
    BY DEF Copy
  <1>2. /\ result = NoResult /\ oo \in Nat /\ call.length \in Nat
        /\ DOMAIN output = 0 .. call.length - 1 /\ call.op = "range"
    BY <1>1, InProgress, LoopPosition DEF Looping
  <1>3. /\ r \in 0 .. PageSize - 1 /\ L \in Nat /\ r + L <= PageSize
        /\ output' = Copied /\ pc' = "loop" /\ UNCHANGED <<scratch, result>>
        /\ \A k \in 0 .. oo - 1 : output'[k] = output[k]
        /\ \A k \in oo .. oo + L - 1 : output'[k] = scratch[r + (k - oo)]
        /\ \A k \in oo .. oo + L - 1 :
             PageAt(k) = page_no /\ ByteAt(k) % PageSize = r + (k - oo)
    BY CopiedBytes
  <1>4. /\ DeliveredUpTo(oo) /\ Genuine(reader.keys, page_no, slots[page_no])
        /\ scratch = DecryptedPage(page_no, slots[page_no])
    BY <1>1 DEF ImageInv, Looping
  <1>5. PageSize \in Nat
    BY Geometry
  <1> HIDE DEF L, r
  <1>6. \A k \in 0 .. (oo + L) - 1 :
          /\ Genuine(reader.keys, PageAt(k), slots[PageAt(k)])
          /\ output'[k] = DecryptedByte(PageAt(k), slots[PageAt(k)], ByteAt(k) % PageSize)
    <2> TAKE k \in 0 .. (oo + L) - 1
    <2>1. CASE k \in 0 .. oo - 1
      BY <1>3, <1>4, <2>1 DEF DeliveredUpTo
    <2>2. CASE k \in oo .. oo + L - 1
      <3>1. r + (k - oo) \in Offsets
        BY <1>2, <1>3, <1>5, <2>2 DEF Offsets
      <3>2. output'[k] = DecryptedByte(page_no, slots[page_no], r + (k - oo))
        BY <1>3, <1>4, <2>2, <3>1 DEF DecryptedPage
      <3> QED BY <1>3, <1>4, <2>2, <3>2
    <2>3. k \in 0 .. oo - 1 \/ k \in oo .. oo + L - 1
      BY <1>2, <1>3
    <2> QED BY <2>1, <2>2, <2>3
  <1>7. DeliveredUpTo(output_offset)'
    BY <1>1, <1>6 DEF source, DeliveredUpTo, PageAt, ByteAt, FirstByte
  <1>8. output' = [k \in 0 .. call.length - 1 |-> output'[k]]
    BY <1>2, <1>3 DEF Copied
  <1>9. ImageInv'
    BY <1>1, <1>2, <1>3, <1>7, <1>8 DEF ImageInv, OpenedInv, source
  <1> QED BY <1>1, <1>2, <1>3, <1>9, Unseen DEF source

\* Every step of the reader is a step of its contract or a stutter.
LEMMA StepImplements ==
  ReaderInv /\ ImageInv /\ [Next]_vars => ImageInv' /\ [Abstract!Next]_(Abstract!vars)
PROOF
  <1> SUFFICES ASSUME ReaderInv, ImageInv, [Next]_vars
               PROVE  ImageInv' /\ [Abstract!Next]_(Abstract!vars)
    OBVIOUS
  <1>1. CASE Calling
    BY <1>1, OpenStep, CallStep, TakeStep
  <1>2. CASE Reading
    BY <1>2, EnterRangeStep, LoopHeadStep, EnterPageStep, FetchStep, FetchFailsStep,
       DecryptStep, CopyStep
    DEF Reading
  <1>3. ~Breaking
    <2>1. ~(rewrites < MaxRewrites)
      BY DEF ReaderInv, TypeOK, ImageInv, OpenedInv
    <2> QED BY <2>1 DEF Breaking, Broken, RewritePage, RewriteSalt, Truncate
  <1>4. CASE UNCHANGED vars
    BY <1>4
    DEF vars, source, cursor, Abstract!vars, ImageInv, OpenedInv, Looping, DeliveredUpTo,
        PageAt, ByteAt, FirstByte, TargetBuffer
  <1> QED BY <1>1, <1>2, <1>3, <1>4 DEF Next

\* The reader keeps its promise over every source that keeps the contract of
\* ReadAt, for every page layout, range and sequence of calls: each call is
\* one atomic read of the authenticated image, or an error that is true of it
\* and a cleared buffer.
THEOREM ReaderImplementsContract ==
  MaxRewrites = 0 /\ Spec => RefinesAuthenticatedRead
PROOF
  <1>1. MaxRewrites = 0 /\ Init => ImageInv /\ Abstract!Init
    BY InitImage
  <1>2. ReaderInv /\ ImageInv /\ [Next]_vars => ImageInv' /\ [Abstract!Next]_(Abstract!vars)
    BY StepImplements
  <1> QED BY <1>1, <1>2, ReaderInvariant, PTL
          DEF Spec, RefinesAuthenticatedRead, Abstract!Spec
=============================================================================
