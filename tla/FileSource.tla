----------------------------- MODULE FileSource -----------------------------
(***************************************************************************)
(* The sources of veilite-core/src/source.rs.  SliceSource answers at once *)
(* from its slice.  FileSource on Windows repeats seek_read, which reads   *)
(* as much as it likes at a given offset and moves the cursor that all     *)
(* users of the file share; on Unix read_exact_at of the standard library  *)
(* is the same loop over a pread that leaves the cursor alone.             *)
(***************************************************************************)
EXTENDS Integers

CONSTANTS Callers, MaxSize, MaxOffset, MaxLength, UsizeMax

\* A slice is no longer than usize::MAX.
ASSUME SourceAssumption ==
  /\ MaxSize \in Nat /\ MaxOffset \in Nat /\ MaxLength \in Nat
  /\ UsizeMax \in Nat /\ MaxSize <= UsizeMax

VARIABLES
  source,  \* "slice", "windows" or "unix"
  size, calls, answers,
  bytesRead,  \* [Callers -> bytes of the output that are filled]
  output,     \* [Callers -> the output buffer]
  cursor      \* the cursor of the file

vars == <<source, size, calls, answers, bytesRead, output, cursor>>

ReadExactAt == INSTANCE ReadExact

\* What an output buffer holds before it is read into.
Stale == -1

Init ==
  /\ source \in {"slice", "windows", "unix"}
  /\ ReadExactAt!Init
  /\ bytesRead = [c \in Callers |-> 0]
  /\ output = [c \in Callers |-> << >>]
  /\ cursor = 0

Begin(c) ==
  /\ ReadExactAt!Begin(c)
  /\ bytesRead' = [bytesRead EXCEPT ![c] = 0]
  /\ output' = [output EXCEPT ![c] = [i \in 1 .. calls'[c].length |-> Stale]]
  /\ UNCHANGED <<source, cursor>>

Return(c, status, bytes) ==
  /\ calls' = [calls EXCEPT ![c] = ReadExactAt!NoCall]
  /\ answers' = [answers EXCEPT ![c] = ReadExactAt!Answer(status, bytes)]

\* SliceSource::read_exact_at: start, start..end and the range have to exist.
ReadSlice(c) ==
  LET start == calls[c].offset
      end == start + calls[c].length
      status == IF start > UsizeMax \/ end > UsizeMax THEN "InvalidInput"
                ELSE IF end > size THEN "UnexpectedEof"
                ELSE "ok"
  IN /\ source = "slice" /\ calls[c] # ReadExactAt!NoCall
     /\ Return(c, status, ReadExactAt!Range(start, calls[c].length))
     /\ UNCHANGED <<source, size, bytesRead, output, cursor>>

\* Mutant: the rest is read from where the file stands.
CurrentOffsetOfFile(c) == IF bytesRead[c] = 0 THEN calls[c].offset ELSE cursor

CurrentOffset(c) == calls[c].offset + bytesRead[c]

\* Mutant: nothing read is not taken for the end.
EndOfFileTriedAgain(c) == UNCHANGED <<calls, answers>>

EndOfFile(c) == Return(c, "UnexpectedEof", << >>)

InLoop(c) ==
  /\ source # "slice" /\ calls[c] # ReadExactAt!NoCall

Unfinished(c) == bytesRead[c] < calls[c].length

\* What the system reads at an offset: any part of what is asked for and
\* there, and nothing only if nothing is there.
SeekRead(c, at, count) ==
  /\ count \in 0 .. calls[c].length - bytesRead[c]
  /\ count > 0 => at + count <= size
  /\ count = 0 => at >= size
  /\ output' = [output EXCEPT ![c] =
                  [i \in 1 .. calls[c].length |->
                     IF i \in bytesRead[c] + 1 .. bytesRead[c] + count
                     THEN at + i - bytesRead[c] - 1 ELSE output[c][i]]]
  /\ cursor' = IF source = "windows" THEN at + count ELSE cursor

\* One pass of the loop of FileSource::read_exact_at, and the exit after the
\* last.
ReadFile(c) ==
  /\ InLoop(c) /\ Unfinished(c)
  /\ \E count \in 0 .. MaxLength :
       /\ SeekRead(c, CurrentOffset(c), count)
       /\ bytesRead' = [bytesRead EXCEPT ![c] = @ + count]
       /\ \/ count = 0 /\ EndOfFile(c)
          \/ /\ count > 0 /\ bytesRead'[c] < calls[c].length
             /\ UNCHANGED <<calls, answers>>
          \/ /\ count > 0 /\ bytesRead'[c] = calls[c].length
             /\ Return(c, "ok", output'[c])
  /\ UNCHANGED <<source, size>>

\* Nothing is asked of the file for an empty output.
ReadNothing(c) ==
  /\ InLoop(c) /\ ~Unfinished(c)
  /\ Return(c, "ok", output[c])
  /\ UNCHANGED <<source, size, bytesRead, output, cursor>>

ReadFails(c) ==
  /\ InLoop(c) /\ Unfinished(c)
  /\ Return(c, "Io", << >>)
  /\ UNCHANGED <<source, size, bytesRead, output, cursor>>

Truncate ==
  /\ source # "slice"
  /\ ReadExactAt!Truncate
  /\ UNCHANGED <<source, bytesRead, output, cursor>>

Step(c) == ReadSlice(c) \/ ReadFile(c) \/ ReadNothing(c) \/ ReadFails(c)

Next == Truncate \/ \E c \in Callers : Begin(c) \/ Step(c)

\* A thread that reads is scheduled, and the system answers it.
Fairness == \A c \in Callers : WF_vars(Step(c))

Spec == Init /\ [][Next]_vars /\ Fairness

-----------------------------------------------------------------------------
(* Properties.                                                             *)

\* Every read_exact_at is one atomic read at its own offset, also when the
\* system returns it in pieces, when other threads read and move the cursor in
\* between, and when the file is cut short meanwhile.
RefinesReadExact == ReadExactAt!Spec

\* Every read_exact_at returns, also when the file ends before its range does.
EveryReadReturns ==
  \A c \in Callers :
    calls[c] # ReadExactAt!NoCall ~> calls[c] = ReadExactAt!NoCall
=============================================================================
