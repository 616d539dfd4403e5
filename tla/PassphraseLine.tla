--------------------------- MODULE PassphraseLine ---------------------------
(***************************************************************************)
(* read_passphrase_line in veilite-cli/src/main.rs: the passphrase is the  *)
(* first line of a file, which is read in chunks.  A read may return any   *)
(* part of a chunk, be interrupted or fail, and leaves the rest of the     *)
(* buffer as it was.                                                       *)
(***************************************************************************)
EXTENDS Integers, Sequences

CONSTANTS
  Bytes,         \* bytes of the file
  LF, CR,        \* line feed and carriage return
  NUL,           \* what the buffer holds at first
  ChunkSize,     \* length of the buffer, 4096 in the code
  MaxLength,     \* bound: length of the file
  MaxInterrupts  \* bound: interrupted reads

ASSUME PassphraseAssumption ==
  /\ {LF, CR, NUL} \subseteq Bytes
  /\ LF # CR
  /\ ChunkSize \in Nat \ {0}
  /\ MaxLength \in Nat /\ MaxInterrupts \in Nat

VARIABLES
  contents,    \* the file
  consumed,    \* how many of its bytes have been read
  buffer,      \* the chunk, with what earlier reads left in it
  passphrase,
  status,      \* "reading", "read" or "failed"
  interrupts   \* interrupted reads so far

vars == <<contents, consumed, buffer, passphrase, status, interrupts>>

Files == UNION {[1 .. n -> Bytes] : n \in 0 .. MaxLength}

Init ==
  /\ contents \in Files
  /\ consumed = 0
  /\ buffer = [i \in 1 .. ChunkSize |-> NUL]
  /\ passphrase = << >>
  /\ status = "reading"
  /\ interrupts = 0

\* Mutant: the whole buffer is taken, not only what was read.
TakenWhole(chunk, count) == chunk

Taken(chunk, count) == SubSeq(chunk, 1, count)

\* buffer[..count] has its first line feed at i.
LineEnd(chunk, count, i) ==
  /\ i \in 1 .. count /\ chunk[i] = LF
  /\ \A j \in 1 .. i - 1 : chunk[j] # LF

\* One carriage return at the end is not part of the passphrase.
Line(line) ==
  IF line # << >> /\ line[Len(line)] = CR THEN SubSeq(line, 1, Len(line) - 1)
  ELSE line

\* Mutant: an empty read is taken for a short one.
AtEndTriedAgain == UNCHANGED <<passphrase, status>>

AtEnd == passphrase' = Line(passphrase) /\ status' = "read"

\* Mutant: the line feed is noticed, but reading goes on to the end.
AtLineFeedReadingOn(line) == passphrase' = line /\ UNCHANGED status

AtLineFeed(line) == passphrase' = Line(line) /\ status' = "read"

\* One pass of the loop.
Read ==
  /\ status = "reading"
  /\ \E count \in 0 .. ChunkSize :
       LET chunk == [i \in 1 .. ChunkSize |->
                       IF i <= count THEN contents[consumed + i] ELSE buffer[i]]
       IN /\ consumed + count <= Len(contents)
          /\ count = 0 => consumed = Len(contents)
          /\ consumed' = consumed + count
          /\ buffer' = chunk
          /\ \/ count = 0 /\ AtEnd
             \/ /\ count > 0
                /\ \E i \in 1 .. ChunkSize :
                     /\ LineEnd(chunk, count, i)
                     /\ AtLineFeed(passphrase \o SubSeq(chunk, 1, i - 1))
             \/ /\ count > 0
                /\ \A i \in 1 .. count : chunk[i] # LF
                /\ passphrase' = passphrase \o Taken(chunk, count)
                /\ UNCHANGED status
  /\ UNCHANGED <<contents, interrupts>>

\* ErrorKind::Interrupted
Interrupted ==
  /\ status = "reading" /\ interrupts < MaxInterrupts
  /\ interrupts' = interrupts + 1
  /\ UNCHANGED <<contents, consumed, buffer, passphrase, status>>

ReadFails ==
  /\ status = "reading"
  /\ status' = "failed"
  /\ UNCHANGED <<contents, consumed, buffer, passphrase, interrupts>>

Next == Read \/ Interrupted \/ ReadFails

Spec == Init /\ [][Next]_vars

\* A read that is not interrupted returns.
FairSpec == Spec /\ WF_vars(Read)

-----------------------------------------------------------------------------
(* Properties.                                                             *)

NoLineFeed(s) == \A i \in 1 .. Len(s) : s[i] # LF

\* s is the first line of the file, without its end.
IsFirstLine(s) ==
  \E rest \in {SubSeq(contents, n, Len(contents)) : n \in 1 .. Len(contents) + 1} :
    \E cr \in {<< >>, <<CR>>} :
      /\ contents = s \o cr \o rest
      /\ NoLineFeed(s)
      /\ rest = << >> \/ rest[1] = LF
      /\ cr = << >> => s = << >> \/ s[Len(s)] # CR

\* Whatever the chunks and however long the line, the passphrase is the first
\* line of the file: nothing of a chunk is lost or taken twice, and a carriage
\* return is cut off even if it came in another chunk than its line feed.
ReadsFirstLine == status = "read" => IsFirstLine(passphrase)

\* The file is not read on, and no error of it is reported, once a line feed
\* has been read.
StopsAtLineFeed ==
  status # "read" => NoLineFeed(SubSeq(contents, 1, consumed))

\* Reading ends, however the file is cut into chunks.
ReadingEnds == <>(status # "reading")
=============================================================================
