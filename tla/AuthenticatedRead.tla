-------------------------- MODULE AuthenticatedRead --------------------------
(***************************************************************************)
(* What SqlCipherReader promises over a source that keeps the contract of  *)
(* ReadAt: a call is answered in one step, with exactly the requested      *)
(* bytes of the authenticated plaintext image, or with an error that holds *)
(* of the call and a buffer that shows nothing.                            *)
(***************************************************************************)
EXTENDS ReadInterface

VARIABLES
  salt, slots, tail,  \* the source, which never changes
  reader, call, output, result

vars == <<salt, slots, tail, reader, call, output, result>>

source == <<salt, slots, tail>>

Init ==
  /\ salt \in Salts
  /\ slots \in UNION {[1 .. k -> Stored] : k \in 0 .. MaxSlots}
  /\ tail \in {0, PageSize - 1}
  /\ reader = ClosedReader
  /\ call = NoCall
  /\ output = EmptyBuffer
  /\ result = NoResult

\* Which sources an opened reader may stand on.
Acceptable(passphrase) ==
  /\ tail = 0
  /\ Len(slots) \in 1 .. U32Max
  /\ passphrase # EmptyPassphrase

OpenJustified(status, passphrase) ==
  CASE status = "Source" -> TRUE
    [] status = "EmptyFile" -> slots = << >> /\ tail = 0
    [] status = "FileTooSmall" -> slots = << >> /\ tail # 0
    [] status = "InvalidFileSize" -> slots # << >> /\ tail # 0
    [] status = "TooManyPages" -> tail = 0 /\ Len(slots) > U32Max
    [] status = "EmptyPassphrase" -> passphrase = EmptyPassphrase
    [] OTHER -> FALSE

Open(passphrase) ==
  /\ call = NoCall
  /\ reader = ClosedReader
  /\ call' = OpenCall
  /\ \/ /\ Acceptable(passphrase)
        /\ result' = Result("ok")
        /\ reader' = [keys |-> [passphrase |-> passphrase, salt |-> salt],
                      file_size |-> Len(slots) * PageSize,
                      page_count |-> Len(slots)]
     \/ /\ \E status \in ReaderErrors :
             OpenJustified(status, passphrase) /\ result' = Result(status)
        /\ reader' = reader
  /\ UNCHANGED <<source, output>>

Call(c) ==
  /\ call = NoCall
  /\ reader # ClosedReader
  /\ call' = c
  /\ UNCHANGED <<source, reader, output, result>>

-----------------------------------------------------------------------------
(* The plaintext image and the pages a call touches.                       *)

ImageByte(d) ==
  LET n == d \div PageSize + 1
  IN  DecryptedByte(n, slots[n], d % PageSize)

InBounds(c) ==
  IF c.op = "page" THEN c.page_no <= Len(slots) /\ c.length = PageSize
  ELSE c.offset + c.length <= Len(slots) * PageSize

FirstByte(c) == IF c.op = "page" THEN (c.page_no - 1) * PageSize ELSE c.offset

Touched(c) ==
  {n \in 1 .. Len(slots) :
     \E k \in 0 .. c.length - 1 : (FirstByte(c) + k) \div PageSize + 1 = n}

AllGenuine(pages) == \A n \in pages : Genuine(reader.keys, n, slots[n])

\* A page error names the first touched page that is not genuine.
PageErrorJustified(status, n, c) ==
  /\ n \in Touched(c)
  /\ status = DecryptError(reader.keys, n, slots[n])
  /\ AllGenuine({m \in Touched(c) : m < n})

PageErrors ==
  {"AuthenticationFailed", "InvalidSqlitePageSize", "InvalidSqliteReserveSize"}

ErrorJustified(res, c) ==
  CASE res.status = "Source" -> InBounds(c) /\ c.length > 0
    [] res.status = "InvalidOutputPageLength" ->
         c.op = "page" /\ c.length # PageSize
    [] res.status = "PageOutOfRange" -> c.op = "page" /\ c.page_no > Len(slots)
    [] res.status = "OffsetOverflow" ->
         c.op = "range" /\ c.length > 0 /\ c.offset + c.length > U64Max
    [] res.status = "UnexpectedEof" ->
         c.op = "range" /\ c.length > 0 /\ ~InBounds(c)
    [] res.status \in PageErrors ->
         InBounds(c) /\ PageErrorJustified(res.status, res.page, c)
    [] OTHER -> FALSE

AnswerOk ==
  /\ result' = Result("ok")
  /\ \/ call.op = "range" /\ call.length = 0
     \/ InBounds(call) /\ AllGenuine(Touched(call))
  /\ output' = [k \in 0 .. call.length - 1 |-> ImageByte(FirstByte(call) + k)]

AnswerError ==
  \E status \in ReaderErrors, n \in 0 .. MaxSlots :
    LET res == PageResult(status, n)
    IN  /\ ErrorJustified(res, call)
        /\ n = 0 \/ status \in PageErrors
        /\ result' = res
        /\ output' = [k \in 0 .. call.length - 1 |-> Zero]

Answer ==
  /\ call.op \in {"page", "range"}
  /\ result = NoResult
  /\ AnswerOk \/ AnswerError
  /\ UNCHANGED <<source, reader, call>>

Take ==
  /\ result # NoResult
  /\ call' = NoCall
  /\ output' = EmptyBuffer
  /\ result' = NoResult
  /\ UNCHANGED <<source, reader>>

Next ==
  \/ \E passphrase \in Passphrases : Open(passphrase)
  \/ \E n \in 1 .. U32Max, len \in 0 .. MaxLength : Call(PageCall(n, len))
  \/ \E off \in 0 .. U64Max, len \in 0 .. MaxLength : Call(RangeCall(off, len))
  \/ Answer
  \/ Take

Spec == Init /\ [][Next]_vars
=============================================================================
