----------------------------- MODULE ReadExact -----------------------------
(***************************************************************************)
(* What the reader relies on in a source of veilite-core/src/source.rs: a  *)
(* read_exact_at is one atomic read of the bytes at its own offset, no     *)
(* matter who else reads through the same file.  A byte is represented by  *)
(* its position, so that a byte of another place shows.                    *)
(***************************************************************************)
EXTENDS Integers

CONSTANTS
  Callers,    \* threads that share the source
  MaxSize,    \* bound: bytes of the source
  MaxOffset,  \* bound: offsets asked for
  MaxLength,  \* bound: lengths asked for
  UsizeMax    \* usize::MAX

VARIABLES
  size,   \* length of the source
  calls,  \* [Callers -> Calls], NoCall between calls
  answers \* [Callers -> Answers] of the last call

NoCall == [offset |-> 0, length |-> -1]
Calls == [offset : 0 .. MaxOffset, length : 0 .. MaxLength]

Status == {"ok", "UnexpectedEof", "InvalidInput", "Io"}

\* The bytes at offset.
Range(offset, length) == [i \in 1 .. length |-> offset + i - 1]

\* On an error the output is unspecified.
Answer(status, output) ==
  [status |-> status, output |-> IF status = "ok" THEN output ELSE << >>]

NoAnswer == [status |-> "none", output |-> << >>]

\* The answers a call may have.
Permitted(call, answer) ==
  LET end == call.offset + call.length
  IN \/ /\ answer = Answer("ok", Range(call.offset, call.length))
        /\ call.length = 0 \/ end <= size
     \/ answer = Answer("UnexpectedEof", << >>) /\ end > size
     \/ answer = Answer("InvalidInput", << >>) /\ end > UsizeMax
     \/ answer = Answer("Io", << >>)

Init ==
  /\ size \in 0 .. MaxSize
  /\ calls = [c \in Callers |-> NoCall]
  /\ answers = [c \in Callers |-> NoAnswer]

Begin(c) ==
  /\ calls[c] = NoCall
  /\ \E call \in Calls : calls' = [calls EXCEPT ![c] = call]
  /\ answers' = [answers EXCEPT ![c] = NoAnswer]
  /\ UNCHANGED size

Return(c) ==
  /\ calls[c] # NoCall
  /\ calls' = [calls EXCEPT ![c] = NoCall]
  /\ \E status \in Status :
       /\ answers' = [answers EXCEPT
                        ![c] = Answer(status, Range(calls[c].offset, calls[c].length))]
       /\ Permitted(calls[c], answers'[c])
  /\ UNCHANGED size

\* A program that cuts the file short, against the contract of ReadAt.
Truncate ==
  /\ \E shorter \in 0 .. size - 1 : size' = shorter
  /\ UNCHANGED <<calls, answers>>

Next == Truncate \/ \E c \in Callers : Begin(c) \/ Return(c)

Spec == Init /\ [][Next]_<<size, calls, answers>>
=============================================================================
