--------------------------- MODULE SqlCipherReader ---------------------------
(***************************************************************************)
(* veilite-core/src/reader.rs: an authenticated random-access reader over  *)
(* a ReadAt source, one action per step at which the code reads the        *)
(* source, writes a buffer or returns.                                     *)
(*                                                                         *)
(* The source is a salt, a sequence of whole pages and a tail of fewer     *)
(* than PageSize bytes.  ReadAt demands that it does not change while the  *)
(* reader exists; MaxRewrites > 0 lets it change all the same, between any *)
(* two steps of the reader, to see what survives a broken contract.        *)
(***************************************************************************)
EXTENDS ReadInterface

CONSTANT MaxRewrites    \* bound: changes to the source while a reader is open

ASSUME RewritesAssumption == MaxRewrites \in Nat

VARIABLES
  salt, slots, tail,  \* the source: salt field, whole pages, bytes after them
  rewrites,           \* changes made to the source since it was opened
  reader,             \* the SqlCipherReader
  call,               \* the call in progress
  pc,                 \* where in the call the reader is
  output,             \* the caller's buffer
  scratch,            \* the memory of plaintext_page: Zeroizing<Vec<u8>>
  target,             \* the buffer read_page_into works on
  page_no,            \* its argument
  database_offset,    \* locals of read_exact_at_nonempty
  output_offset,
  result

source == <<salt, slots, tail, rewrites>>
cursor == <<database_offset, output_offset>>
vars == <<salt, slots, tail, rewrites, reader, call, pc, output, scratch,
          target, page_no, database_offset, output_offset, result>>

Steps == {"idle", "range", "loop", "page", "fetch", "decrypt", "copy", "returned"}

ZeroPage == [i \in Offsets |-> Zero]

Init ==
  /\ salt \in Salts
  /\ slots \in UNION {[1 .. k -> Stored] : k \in 0 .. MaxSlots}
  /\ tail \in {0, PageSize - 1}
  /\ rewrites = 0
  /\ reader = ClosedReader
  /\ call = NoCall
  /\ pc = "idle"
  /\ output = EmptyBuffer
  /\ scratch = ZeroPage
  /\ target = "output"
  /\ page_no = 0
  /\ database_offset = 0
  /\ output_offset = 0
  /\ result = NoResult

-----------------------------------------------------------------------------
(* open.                                                                   *)

FileSize == PageSize * Len(slots) + tail

OpenStatus(passphrase, size) ==
  CASE size = 0 -> "EmptyFile"
    [] size > 0 /\ size < PageSize -> "FileTooSmall"
    [] size >= PageSize /\ size % PageSize # 0 -> "InvalidFileSize"
    [] size >= PageSize /\ size % PageSize = 0 /\ size \div PageSize > U32Max
         -> "TooManyPages"
    [] OTHER -> IF passphrase = EmptyPassphrase THEN "EmptyPassphrase" ELSE "ok"

\* The length is inspected, then the salt is read, then keys are derived;
\* either access to the source may fail.
Open(passphrase) ==
  /\ pc = "idle"
  /\ reader = ClosedReader
  /\ \E status \in {"Source", OpenStatus(passphrase, FileSize)} :
       /\ result' = Result(status)
       /\ reader' = IF status = "ok"
                    THEN [keys |-> DeriveKeys(passphrase, salt),
                          file_size |-> FileSize,
                          page_count |-> FileSize \div PageSize]
                    ELSE ClosedReader
  /\ call' = OpenCall
  /\ pc' = "returned"
  /\ UNCHANGED <<source, output, scratch, target, page_no, cursor>>

-----------------------------------------------------------------------------
(* Calls on an open reader.                                                *)

CallReadPageInto(n, len) ==
  /\ pc = "idle"
  /\ reader # ClosedReader
  /\ call' = PageCall(n, len)
  /\ output' = CallerBuffer(len)
  /\ target' = "output"
  /\ page_no' = n
  /\ pc' = "page"
  /\ UNCHANGED <<source, reader, scratch, cursor, result>>

CallReadExactAt(off, len) ==
  /\ pc = "idle"
  /\ reader # ClosedReader
  /\ call' = RangeCall(off, len)
  /\ output' = CallerBuffer(len)
  /\ pc' = "range"
  /\ UNCHANGED <<source, reader, scratch, target, page_no, cursor, result>>

\* Mutant: read_exact_at returns an error without clearing its output.
ReturnedOutputKept(status, buffer) == buffer

\* What read_exact_at leaves in the caller's buffer when it returns.
ReturnedOutput(status, buffer) ==
  IF call.op = "range" /\ status # "ok" THEN Zeroize(buffer) ELSE buffer

\* Mutant: plaintext_page is a plain Vec.
DropScratchKept == UNCHANGED scratch

\* Dropping plaintext_page clears its memory.
DropScratch == scratch' = Zeroize(scratch)

Return(res, buffer) ==
  /\ result' = res
  /\ output' = ReturnedOutput(res.status, buffer)
  /\ DropScratch
  /\ pc' = "returned"

\* page_number_from_index, 0 for None.
PageNumberFromIndex(index) ==
  IF index + 1 <= U64Max /\ index + 1 <= U32Max THEN index + 1 ELSE 0

\* Mutant: any page-sized range takes the direct path.
IsAlignedPageSizeOnly(off, len) == len = PageSize

IsAlignedPage(off, len) == len = PageSize /\ off % PageSize = 0

\* read_exact_at up to its loop.
EnterRange ==
  LET off == call.offset
      len == call.length
      cleared == Zeroize(output)
      first == PageNumberFromIndex(off \div PageSize)
  IN
  /\ pc = "range"
  /\ \/ /\ len = 0
        /\ Return(Result("ok"), output)
        /\ UNCHANGED <<target, page_no, cursor>>
     \/ /\ len # 0 /\ off + len > U64Max
        /\ Return(Result("OffsetOverflow"), cleared)
        /\ UNCHANGED <<target, page_no, cursor>>
     \/ /\ len # 0 /\ off + len <= U64Max /\ off + len > reader.file_size
        /\ Return(Result("UnexpectedEof"), cleared)
        /\ UNCHANGED <<target, page_no, cursor>>
     \/ /\ len # 0 /\ off + len <= U64Max /\ off + len <= reader.file_size
        /\ IsAlignedPage(off, len)
        /\ IF first = 0
           THEN /\ Return(Result("OffsetOverflow"), cleared)
                /\ UNCHANGED <<target, page_no>>
           ELSE /\ output' = cleared
                /\ target' = "output"
                /\ page_no' = first
                /\ pc' = "page"
                /\ UNCHANGED <<scratch, result>>
        /\ UNCHANGED cursor
     \/ /\ len # 0 /\ off + len <= U64Max /\ off + len <= reader.file_size
        /\ ~IsAlignedPage(off, len)
        /\ output' = cleared
        /\ scratch' = ZeroPage
        /\ database_offset' = off
        /\ output_offset' = 0
        /\ pc' = "loop"
        /\ UNCHANGED <<target, page_no, result>>
  /\ UNCHANGED <<source, reader, call>>

\* The head of the loop over touched pages.
LoopHead ==
  LET next == PageNumberFromIndex(database_offset \div PageSize)
  IN
  /\ pc = "loop"
  /\ IF output_offset >= call.length
     THEN Return(Result("ok"), output) /\ UNCHANGED <<target, page_no>>
     ELSE IF next = 0
     THEN Return(Result("OffsetOverflow"), output) /\ UNCHANGED <<target, page_no>>
     ELSE /\ target' = "scratch"
          /\ page_no' = next
          /\ pc' = "page"
          /\ UNCHANGED <<output, scratch, result>>
  /\ UNCHANGED <<source, reader, call, cursor>>

-----------------------------------------------------------------------------
(* read_page_into, on the caller's buffer or on the scratch page.          *)

TargetBuffer == IF target = "output" THEN output ELSE scratch

SetTarget(buffer) ==
  /\ output' = IF target = "output" THEN buffer ELSE output
  /\ scratch' = IF target = "scratch" THEN buffer ELSE scratch

\* read_page_into fails: the error leaves the loop and the call.
FailPage(res, buffer) ==
  Return(res, IF target = "output" THEN buffer ELSE output)

EnterPage ==
  /\ pc = "page"
  /\ LET cleared == Zeroize(TargetBuffer)
         status == CASE DOMAIN TargetBuffer # Offsets -> "InvalidOutputPageLength"
                     [] DOMAIN TargetBuffer = Offsets /\ page_no > reader.page_count
                          -> "PageOutOfRange"
                     [] OTHER -> IF (page_no - 1) * PageSize > U64Max
                                 THEN "OffsetOverflow" ELSE "ok"
     IN IF status = "ok"
        THEN SetTarget(cleared) /\ pc' = "fetch" /\ UNCHANGED result
        ELSE FailPage(Result(status), cleared)
  /\ UNCHANGED <<source, reader, call, target, page_no, cursor>>

\* ReadAt::read_exact_at succeeds; a page the source no longer holds cannot.
Fetch ==
  /\ pc = "fetch"
  /\ page_no <= Len(slots)
  /\ SetTarget(RawPage(slots[page_no]))
  /\ pc' = "decrypt"
  /\ UNCHANGED <<source, reader, call, target, page_no, cursor, result>>

\* ReadAt::read_exact_at fails after filling any part of the buffer.
PartlyRead(buffer, pg, k) ==
  [i \in DOMAIN buffer |-> IF i < k THEN Raw(pg, i) ELSE buffer[i]]

SourceFailure(buffer) == Zeroize(buffer)

FetchFails ==
  /\ pc = "fetch"
  /\ \E k \in {0, PageSize - 1} :
       /\ page_no > Len(slots) => k = 0
       /\ LET read == IF k = 0 THEN TargetBuffer
                      ELSE PartlyRead(TargetBuffer, slots[page_no], k)
          IN FailPage(Result("Source"), SourceFailure(read))
  /\ UNCHANGED <<source, reader, call, target, page_no, cursor>>

\* decrypt_page_in_place on the page just read.
Decrypt ==
  LET pg == TargetBuffer[0].page
      status == DecryptError(reader.keys, page_no, pg)
      buffer == DecryptInPlace(reader.keys, page_no, pg)
  IN
  /\ pc = "decrypt"
  /\ IF status # "ok"
     THEN FailPage(PageResult(status, page_no), buffer)
     ELSE IF target = "output"
     THEN Return(Result("ok"), buffer)
     ELSE SetTarget(buffer) /\ pc' = "copy" /\ UNCHANGED result
  /\ UNCHANGED <<source, reader, call, target, page_no, cursor>>

-----------------------------------------------------------------------------
(* The rest of the loop body.                                              *)

Smaller(a, b) == IF a <= b THEN a ELSE b

OffsetInPage == database_offset % PageSize

\* Mutant: the copy is not cut at the end of the caller's buffer.
CopyLengthToPageEnd == PageSize - OffsetInPage

\* Mutant: off by one at the end of the page.
CopyLengthShort == Smaller(PageSize - 1 - OffsetInPage, call.length - output_offset)

CopyLength == Smaller(PageSize - OffsetInPage, call.length - output_offset)

\* output[output_offset ..][k] := scratch[offset_in_page ..][k], k < copy_length
Copied ==
  [i \in DOMAIN output |->
     IF i >= output_offset /\ i < output_offset + CopyLength
     THEN scratch[OffsetInPage + (i - output_offset)]
     ELSE output[i]]

Copy ==
  /\ pc = "copy"
  /\ output_offset' = output_offset + CopyLength
  /\ IF database_offset + CopyLength <= U64Max
     THEN /\ database_offset' = database_offset + CopyLength
          /\ output' = Copied
          /\ pc' = "loop"
          /\ UNCHANGED <<scratch, result>>
     ELSE /\ Return(Result("OffsetOverflow"), Copied)
          /\ UNCHANGED database_offset
  /\ UNCHANGED <<source, reader, call, target, page_no>>

\* The caller looks at the result and gives its buffer up.
Take ==
  /\ pc = "returned"
  /\ pc' = "idle"
  /\ call' = NoCall
  /\ result' = NoResult
  /\ output' = EmptyBuffer
  /\ target' = "output"
  /\ page_no' = 0
  /\ database_offset' = 0
  /\ output_offset' = 0
  /\ UNCHANGED <<source, reader, scratch>>

-----------------------------------------------------------------------------
(* The source breaks the contract of ReadAt.                               *)

Broken ==
  /\ rewrites < MaxRewrites
  /\ reader # ClosedReader
  /\ rewrites' = rewrites + 1
  /\ UNCHANGED <<reader, call, pc, output, scratch, target, page_no, cursor, result>>

RewritePage(n, pg) ==
  /\ Broken
  /\ n <= Len(slots)
  /\ slots' = [slots EXCEPT ![n] = pg]
  /\ UNCHANGED <<salt, tail>>

RewriteSalt(s) ==
  /\ Broken
  /\ salt' = s
  /\ UNCHANGED <<slots, tail>>

Truncate(k) ==
  /\ Broken
  /\ k < Len(slots)
  /\ slots' = SubSeq(slots, 1, k)
  /\ UNCHANGED <<salt, tail>>

Reading ==
  EnterRange \/ LoopHead \/ EnterPage \/ Fetch \/ FetchFails \/ Decrypt \/ Copy

Calling ==
  \/ \E passphrase \in Passphrases : Open(passphrase)
  \/ \E n \in 1 .. U32Max, len \in 0 .. MaxLength : CallReadPageInto(n, len)
  \/ \E off \in 0 .. U64Max, len \in 0 .. MaxLength : CallReadExactAt(off, len)
  \/ Take

Breaking ==
  \/ \E n \in 1 .. MaxSlots, pg \in Stored : RewritePage(n, pg)
  \/ \E s \in Salts : RewriteSalt(s)
  \/ \E k \in 0 .. MaxSlots : Truncate(k)

Next == Calling \/ Reading \/ Breaking

Spec == Init /\ [][Next]_vars

\* A call runs on the caller's thread until it returns, and an access to the
\* source ends, well or badly.
FairSpec == Spec /\ WF_vars(Reading)

-----------------------------------------------------------------------------
(* Properties.                                                             *)

\* Every variable keeps its type; in particular the cursor stays inside the
\* caller's buffer and read_page_into is never given page 0.
TypeOK ==
  /\ salt \in Salts
  /\ slots \in Seq(Stored)
  /\ tail \in 0 .. PageSize - 1
  /\ rewrites \in 0 .. MaxRewrites
  /\ reader \in Readers
  /\ call \in Calls
  /\ pc \in Steps
  /\ DOMAIN output = 0 .. call.length - 1
  /\ \A i \in DOMAIN output : output[i] \in Bytes
  /\ DOMAIN scratch = Offsets
  /\ \A i \in Offsets : scratch[i] \in Bytes
  /\ target \in {"output", "scratch"}
  /\ page_no \in 0 .. U32Max
  /\ database_offset \in 0 .. U64Max
  /\ output_offset \in 0 .. call.length
  /\ result \in Results \cup {NoResult}

\* Once a call has failed, no byte of the caller's buffer is left: neither
\* pages copied before a later page failed, nor a partial read of the source,
\* nor a page whose HMAC is right and whose header is wrong.
FailedCallsAreCleared ==
  result.status \notin {"none", "ok"} => IsCleared(output)

\* When a call returns, and between calls, the scratch page is cleared.
ScratchIsCleared ==
  pc \in {"idle", "range", "returned"} => IsCleared(scratch)

\* The byte of the plaintext image at which a call starts to read.
FirstByte(c) == IF c.op = "page" THEN (c.page_no - 1) * PageSize ELSE c.offset

\* The page and the place in it of the byte that lands at output[k].
ByteAt(k) == FirstByte(call) + k
PageAt(k) == ByteAt(k) \div PageSize + 1

\* pg carries an HMAC of the reader's keys for place n, and a page 1 whose
\* header agrees with the cipher configuration.
AuthenticatedFor(n, pg) ==
  /\ pg.keys = reader.keys
  /\ pg.no = n
  /\ n = 1 => /\ DecodeSqlitePageSize(pg.size) = PageSize
              /\ pg.reserve = ReserveSize

\* The first m bytes of output are, page by page, the decryption of one
\* authenticated page.
AuthenticatedUpTo(m) ==
  \A j \in 0 .. m - 1 :
    \E pg \in Stored :
      /\ AuthenticatedFor(PageAt(j), pg)
      /\ \A k \in 0 .. m - 1 :
           PageAt(k) = PageAt(j) =>
             output[k] = DecryptedByte(PageAt(j), pg, ByteAt(k) % PageSize)

\* Whatever the source does, a successful call delivers, page by page, the
\* decryption of one page that was authenticated with the reader's keys for
\* that very place: no relocated page, no page of another database, no mix of
\* two versions of a page, no byte that was never authenticated.
OnlyAuthenticatedPages ==
  result.status = "ok" /\ call.op \in {"page", "range"} =>
    AuthenticatedUpTo(call.length)

\* Over a source that keeps its contract the reader implements the atomic,
\* exact, authenticated read.  The caller cannot look at its buffer before
\* the call returns.
Abstract ==
  INSTANCE AuthenticatedRead
    WITH output <- IF result = NoResult THEN EmptyBuffer ELSE output

RefinesAuthenticatedRead == Abstract!Spec

\* Every call returns, however often the source fails or changes.
EveryCallReturns == call # NoCall ~> pc = "returned"

-----------------------------------------------------------------------------
(* The inductive invariant behind the safety properties.                   *)

\* Which calls and results go with which step.
ControlInv ==
  /\ pc = "idle" <=> call = NoCall
  /\ result = NoResult <=> pc # "returned"
  /\ call.op = "open" => pc = "returned"
  /\ call.op \in {"page", "range"} => reader # ClosedReader
  /\ pc = "range" => call.op = "range"

\* read_page_into works on the caller's buffer: for read_page_into itself, or
\* for an aligned page of read_exact_at.
DirectInv ==
  pc \in {"page", "fetch", "decrypt"} /\ target = "output" =>
    /\ IsCleared(scratch)
    /\ \/ call.op = "page" /\ page_no = call.page_no
       \/ /\ call.op = "range"
          /\ IsAlignedPage(call.offset, call.length)
          /\ page_no = call.offset \div PageSize + 1

Looping ==
  \/ pc \in {"loop", "copy"}
  \/ pc \in {"page", "fetch", "decrypt"} /\ target = "scratch"

\* The loop has delivered output_offset bytes and, unless it is about to end,
\* stands at the start of the range or of a page.
LoopInv ==
  Looping =>
    /\ call.op = "range"
    /\ call.offset + call.length <= U64Max
    /\ database_offset = call.offset + output_offset
    /\ \/ output_offset \in {0, call.length}
       \/ database_offset % PageSize = 0
    /\ AuthenticatedUpTo(output_offset)
    /\ pc # "loop" => /\ target = "scratch"
                      /\ output_offset < call.length
                      /\ page_no = database_offset \div PageSize + 1

\* What the buffer of read_page_into holds.
BufferInv ==
  /\ pc \in {"page", "fetch", "decrypt", "copy"} => page_no > 0
  /\ pc \in {"fetch", "decrypt"} => DOMAIN TargetBuffer = Offsets
  /\ pc = "decrypt" => \E pg \in Stored : TargetBuffer = RawPage(pg)
  /\ pc = "copy" => \E pg \in Stored : /\ AuthenticatedFor(page_no, pg)
                                       /\ scratch = DecryptedPage(page_no, pg)

ReaderInv ==
  /\ TypeOK
  /\ ControlInv
  /\ DirectInv
  /\ LoopInv
  /\ BufferInv
  /\ FailedCallsAreCleared
  /\ ScratchIsCleared
  /\ OnlyAuthenticatedPages

(* Over a source that keeps its contract.                                  *)

\* The reader stands on the source that open accepted.
OpenedInv ==
  /\ MaxRewrites = 0 /\ Len(slots) <= MaxSlots
  /\ reader # ClosedReader =>
       /\ tail = 0 /\ Len(slots) <= U32Max
       /\ reader.page_count = Len(slots)
       /\ reader.file_size = Len(slots) * PageSize

\* The first m bytes of output are those of the image, and its pages up to
\* there are genuine.
DeliveredUpTo(m) ==
  \A k \in 0 .. m - 1 :
    /\ Genuine(reader.keys, PageAt(k), slots[PageAt(k)])
    /\ output[k] = DecryptedByte(PageAt(k), slots[PageAt(k)], ByteAt(k) % PageSize)

\* What a call in progress holds are pages of the source, in its bounds.
ImageInv ==
  /\ OpenedInv
  /\ output = [k \in 0 .. call.length - 1 |-> output[k]]
  /\ pc = "idle" => output = EmptyBuffer
  /\ pc \in {"loop", "page", "fetch", "decrypt", "copy"} /\ call.op = "range" =>
       call.length > 0 /\ call.offset + call.length <= Len(slots) * PageSize
  /\ Looping => DeliveredUpTo(output_offset)
  /\ pc \in {"fetch", "decrypt", "copy"} => page_no <= Len(slots)
  /\ pc = "decrypt" => TargetBuffer = RawPage(slots[page_no])
  /\ pc = "copy" => /\ Genuine(reader.keys, page_no, slots[page_no])
                    /\ scratch = DecryptedPage(page_no, slots[page_no])
=============================================================================
