------------------------- MODULE FileSource_proofs -------------------------
(***************************************************************************)
(* FileSource implements ReadExact, for any number of threads that share   *)
(* the file, any sizes and however the system cuts a read into pieces.     *)
(***************************************************************************)
EXTENDS FileSource, TLAPS

-----------------------------------------------------------------------------
(* The inductive invariant.                                                *)

TypeOK ==
  /\ size \in 0 .. MaxSize
  /\ calls \in [Callers -> ReadExactAt!Calls \cup {ReadExactAt!NoCall}]
  /\ DOMAIN answers = Callers
  /\ bytesRead \in [Callers -> Nat]
  /\ DOMAIN output = Callers

\* What a call has filled of its output are the bytes at its own offset.
Filled(c) ==
  calls[c] # ReadExactAt!NoCall =>
    /\ bytesRead[c] \in 0 .. calls[c].length
    /\ bytesRead[c] = calls[c].length => calls[c].length = 0
    /\ output[c] = [i \in 1 .. calls[c].length |->
                      IF i <= bytesRead[c] THEN calls[c].offset + i - 1 ELSE Stale]

IInv == TypeOK /\ \A c \in Callers : Filled(c)

-----------------------------------------------------------------------------
(* Calls and answers.                                                      *)

LEMMA CallFields ==
  ASSUME IInv, NEW c \in Callers, calls[c] # ReadExactAt!NoCall
  PROVE  calls[c].offset \in Nat /\ calls[c].length \in Nat
  BY SourceAssumption DEF IInv, TypeOK, ReadExactAt!Calls

\* The output of an error does not matter.
LEMMA ErrorAnswer ==
  ASSUME NEW status, status # "ok", NEW bytes, NEW others
  PROVE  ReadExactAt!Answer(status, bytes) = ReadExactAt!Answer(status, others)
  BY DEF ReadExactAt!Answer

\* A return with a permitted answer is a return of the contract.
LEMMA ReturnImplements ==
  ASSUME IInv, NEW c \in Callers, calls[c] # ReadExactAt!NoCall,
         NEW status \in ReadExactAt!Status, NEW bytes,
         status = "ok" => bytes = ReadExactAt!Range(calls[c].offset, calls[c].length),
         ReadExactAt!Permitted(calls[c], ReadExactAt!Answer(status, bytes)),
         Return(c, status, bytes), size' = size
  PROVE  ReadExactAt!Return(c)
PROOF
  <1> DEFINE range == ReadExactAt!Range(calls[c].offset, calls[c].length)
  <1>1. ReadExactAt!Answer(status, bytes) = ReadExactAt!Answer(status, range)
    BY ErrorAnswer
  <1>2. answers' = [answers EXCEPT ![c] = ReadExactAt!Answer(status, range)]
    BY <1>1 DEF Return
  <1>3. answers'[c] = ReadExactAt!Answer(status, bytes)
    BY <1>1, <1>2 DEF IInv, TypeOK
  <1> QED BY <1>2, <1>3 DEF Return, ReadExactAt!Return

\* A step that only ends a call of c keeps the invariant.
LEMMA ReturnPreserves ==
  ASSUME IInv, NEW c \in Callers, NEW status, NEW bytes, Return(c, status, bytes),
         size' \in 0 .. MaxSize,
         bytesRead' \in [Callers -> Nat], DOMAIN output' = Callers,
         \A d \in Callers \ {c} : bytesRead'[d] = bytesRead[d] /\ output'[d] = output[d]
  PROVE  IInv'
PROOF
  <1>1. TypeOK'
    BY DEF IInv, TypeOK, Return
  <1>2. ASSUME NEW d \in Callers PROVE Filled(d)'
    <2>1. CASE d = c
      BY <2>1 DEF IInv, TypeOK, Return, Filled
    <2>2. CASE d # c
      <3>1. calls'[d] = calls[d]
        BY <2>2 DEF IInv, TypeOK, Return
      <3>2. Filled(d) /\ bytesRead'[d] = bytesRead[d] /\ output'[d] = output[d]
        BY <2>2 DEF IInv
      <3> QED BY <3>1, <3>2 DEF Filled
    <2> QED BY <2>1, <2>2
  <1> QED BY <1>1, <1>2 DEF IInv

-----------------------------------------------------------------------------
(* Steps.                                                                  *)

LEMMA BeginStep ==
  ASSUME IInv, NEW c \in Callers, Begin(c)
  PROVE  IInv' /\ ReadExactAt!Begin(c)
PROOF
  <1>1. PICK call \in ReadExactAt!Calls : calls' = [calls EXCEPT ![c] = call]
    BY DEF Begin, ReadExactAt!Begin
  <1>2. calls'[c] = call /\ call.length \in Nat
    BY <1>1, SourceAssumption DEF IInv, TypeOK, ReadExactAt!Calls
  <1>3. /\ size' = size /\ DOMAIN answers' = Callers
        /\ bytesRead' = [bytesRead EXCEPT ![c] = 0]
        /\ output' = [output EXCEPT ![c] = [i \in 1 .. calls'[c].length |-> Stale]]
    BY DEF IInv, TypeOK, Begin, ReadExactAt!Begin
  <1>4. TypeOK'
    BY <1>1, <1>3 DEF IInv, TypeOK
  <1>5. ASSUME NEW d \in Callers PROVE Filled(d)'
    <2>1. CASE d = c
      <3>1. bytesRead'[c] = 0 /\ output'[c] = [i \in 1 .. calls'[c].length |-> Stale]
        BY <1>3 DEF IInv, TypeOK
      <3>2. \A i \in 1 .. calls'[c].length : ~(i <= bytesRead'[c])
        BY <1>2, <3>1
      <3> QED BY <1>2, <2>1, <3>1, <3>2 DEF Filled
    <2>2. CASE d # c
      BY <1>1, <1>3, <2>2 DEF IInv, TypeOK, Filled
    <2> QED BY <2>1, <2>2
  <1> QED BY <1>4, <1>5 DEF IInv, Begin

LEMMA ReadSliceStep ==
  ASSUME IInv, NEW c \in Callers, ReadSlice(c)
  PROVE  IInv' /\ ReadExactAt!Return(c)
PROOF
  <1> DEFINE start == calls[c].offset
             end == start + calls[c].length
             bytes == ReadExactAt!Range(start, calls[c].length)
             status == IF start > UsizeMax \/ end > UsizeMax THEN "InvalidInput"
                       ELSE IF end > size THEN "UnexpectedEof"
                       ELSE "ok"
  <1>1. /\ calls[c] # ReadExactAt!NoCall /\ Return(c, status, bytes)
        /\ UNCHANGED <<size, bytesRead, output>>
    BY DEF ReadSlice
  <1>2. start \in Nat /\ calls[c].length \in Nat
    BY <1>1, CallFields
  <1>3. ReadExactAt!Permitted(calls[c], ReadExactAt!Answer(status, bytes))
    <2>1. CASE status = "InvalidInput"
      <3>1. end > UsizeMax
        BY <1>2, <2>1, SourceAssumption
      <3> QED BY <2>1, <3>1, ErrorAnswer DEF ReadExactAt!Permitted
    <2>2. CASE status = "UnexpectedEof"
      <3>1. end > size
        BY <2>2
      <3> QED BY <2>2, <3>1, ErrorAnswer DEF ReadExactAt!Permitted
    <2>3. CASE status = "ok"
      <3>1. end <= size
        BY <1>2, <2>3 DEF IInv, TypeOK
      <3> QED BY <2>3, <3>1 DEF ReadExactAt!Permitted
    <2> QED BY <2>1, <2>2, <2>3
  <1>4. status \in ReadExactAt!Status
    BY DEF ReadExactAt!Status
  <1>5. ReadExactAt!Return(c)
    BY <1>1, <1>3, <1>4, ReturnImplements
  <1>6. IInv'
    BY <1>1, ReturnPreserves DEF IInv, TypeOK
  <1> QED BY <1>5, <1>6

\* One more piece is in its place.
LEMMA PieceFills ==
  ASSUME IInv, NEW c \in Callers, InLoop(c), Unfinished(c),
         NEW count \in Nat, SeekRead(c, CurrentOffset(c), count),
         bytesRead' = [bytesRead EXCEPT ![c] = @ + count]
  PROVE  /\ bytesRead' \in [Callers -> Nat] /\ DOMAIN output' = Callers
         /\ bytesRead'[c] = bytesRead[c] + count
         /\ bytesRead'[c] \in 0 .. calls[c].length
         /\ output'[c] = [i \in 1 .. calls[c].length |->
                            IF i <= bytesRead'[c] THEN calls[c].offset + i - 1
                            ELSE Stale]
         /\ \A d \in Callers \ {c} :
              bytesRead'[d] = bytesRead[d] /\ output'[d] = output[d]
PROOF
  <1> DEFINE offset == calls[c].offset
             length == calls[c].length
             done == bytesRead[c]
             at == offset + done
  <1>1. /\ offset \in Nat /\ length \in Nat /\ done \in 0 .. length
        /\ output[c] = [i \in 1 .. length |-> IF i <= done THEN offset + i - 1 ELSE Stale]
    BY CallFields DEF InLoop, IInv, Filled
  <1>2. /\ count \in 0 .. length - done
        /\ output' = [output EXCEPT ![c] =
                        [i \in 1 .. length |->
                           IF i \in done + 1 .. done + count
                           THEN at + i - done - 1 ELSE output[c][i]]]
    BY DEF SeekRead, CurrentOffset
  <1>3. /\ bytesRead' \in [Callers -> Nat] /\ DOMAIN output' = Callers
        /\ bytesRead'[c] = done + count
        /\ \A d \in Callers \ {c} :
             bytesRead'[d] = bytesRead[d] /\ output'[d] = output[d]
    BY <1>2 DEF IInv, TypeOK
  <1>4. output'[c] = [i \in 1 .. length |->
                        IF i \in done + 1 .. done + count
                        THEN at + i - done - 1 ELSE output[c][i]]
    BY <1>2 DEF IInv, TypeOK
  <1>5. ASSUME NEW i \in 1 .. length
        PROVE  (IF i \in done + 1 .. done + count
                THEN at + i - done - 1 ELSE output[c][i])
             = (IF i <= done + count THEN offset + i - 1 ELSE Stale)
    <2>1. output[c][i] = IF i <= done THEN offset + i - 1 ELSE Stale
      BY <1>1
    <2>2. i \in Nat /\ i >= 1 /\ offset \in Nat /\ done \in Nat
      BY <1>1
    <2> HIDE DEF offset, length, done
    <2>3. CASE i \in done + 1 .. done + count
      BY <2>2, <2>3
    <2>4. CASE i \notin done + 1 .. done + count /\ i <= done
      BY <2>1, <2>2, <2>4 DEF Stale
    <2>5. CASE i \notin done + 1 .. done + count /\ i > done
      BY <2>1, <2>2, <2>5 DEF Stale
    <2> QED BY <2>2, <2>3, <2>4, <2>5
  <1>6. output'[c] = [i \in 1 .. length |->
                        IF i <= done + count THEN offset + i - 1 ELSE Stale]
    BY <1>4, <1>5
  <1>7. done + count \in 0 .. length
    BY <1>1, <1>2
  <1> HIDE DEF at
  <1> QED BY <1>3, <1>6, <1>7

LEMMA ReadFileStep ==
  ASSUME IInv, NEW c \in Callers, ReadFile(c)
  PROVE  IInv' /\ [ReadExactAt!Return(c)]_<<size, calls, answers>>
PROOF
  <1> DEFINE offset == calls[c].offset
             length == calls[c].length
             done == bytesRead[c]
  <1>1. PICK count \in 0 .. MaxLength :
          /\ SeekRead(c, CurrentOffset(c), count)
          /\ bytesRead' = [bytesRead EXCEPT ![c] = @ + count]
          /\ \/ count = 0 /\ EndOfFile(c)
             \/ /\ count > 0 /\ bytesRead'[c] < length
                /\ UNCHANGED <<calls, answers>>
             \/ /\ count > 0 /\ bytesRead'[c] = length
                /\ Return(c, "ok", output'[c])
    BY DEF ReadFile
  <1>2. /\ InLoop(c) /\ Unfinished(c) /\ calls[c] # ReadExactAt!NoCall
        /\ size' = size
    BY DEF ReadFile, InLoop
  <1>3. /\ offset \in Nat /\ length \in Nat /\ done \in Nat /\ done < length
        /\ size \in Nat /\ count \in Nat
    BY <1>1, <1>2, CallFields, SourceAssumption DEF Unfinished, IInv, TypeOK
  <1>4. /\ bytesRead' \in [Callers -> Nat] /\ DOMAIN output' = Callers
        /\ bytesRead'[c] = done + count
        /\ bytesRead'[c] \in 0 .. length
        /\ output'[c] = [i \in 1 .. length |->
                           IF i <= bytesRead'[c] THEN offset + i - 1 ELSE Stale]
        /\ \A d \in Callers \ {c} :
             bytesRead'[d] = bytesRead[d] /\ output'[d] = output[d]
    BY <1>1, <1>2, <1>3, PieceFills
  <1>5. /\ count > 0 => offset + done + count <= size
        /\ count = 0 => offset + done >= size
    BY <1>1 DEF SeekRead, CurrentOffset
  <1>6. CASE count = 0 /\ EndOfFile(c)
    <2>1. offset + length > size
      BY <1>3, <1>5, <1>6
    <2>2. ReadExactAt!Permitted(calls[c], ReadExactAt!Answer("UnexpectedEof", << >>))
      BY <2>1 DEF ReadExactAt!Permitted
    <2>3. ReadExactAt!Return(c)
      BY <1>2, <1>6, <2>2, ReturnImplements DEF EndOfFile, ReadExactAt!Status
    <2>4. IInv'
      BY <1>2, <1>4, <1>6, ReturnPreserves DEF EndOfFile, IInv, TypeOK
    <2> QED BY <2>3, <2>4
  <1>7. CASE /\ count > 0 /\ bytesRead'[c] < length
             /\ UNCHANGED <<calls, answers>>
    <2>1. TypeOK'
      BY <1>2, <1>4, <1>7 DEF IInv, TypeOK
    <2>2. ASSUME NEW d \in Callers PROVE Filled(d)'
      <3>1. CASE d = c
        BY <1>4, <1>7, <3>1 DEF Filled
      <3>2. CASE d # c
        <4>1. Filled(d) /\ calls'[d] = calls[d]
          BY <1>7 DEF IInv
        <4>2. bytesRead'[d] = bytesRead[d] /\ output'[d] = output[d]
          BY <1>4, <3>2
        <4> QED BY <4>1, <4>2 DEF Filled
      <3> QED BY <3>1, <3>2
    <2> QED BY <1>2, <1>7, <2>1, <2>2 DEF IInv
  <1>8. CASE /\ count > 0 /\ bytesRead'[c] = length
             /\ Return(c, "ok", output'[c])
    <2>1. output'[c] = ReadExactAt!Range(offset, length)
      BY <1>4, <1>8 DEF ReadExactAt!Range
    <2>2. offset + length <= size
      BY <1>3, <1>4, <1>5, <1>8
    <2>3. ReadExactAt!Permitted(calls[c], ReadExactAt!Answer("ok", output'[c]))
      BY <2>1, <2>2 DEF ReadExactAt!Permitted
    <2>4. ReadExactAt!Return(c)
      BY <1>2, <1>8, <2>1, <2>3, ReturnImplements DEF ReadExactAt!Status
    <2>5. IInv'
      BY <1>2, <1>4, <1>8, ReturnPreserves DEF IInv, TypeOK
    <2> QED BY <2>4, <2>5
  <1> QED BY <1>1, <1>6, <1>7, <1>8

\* An empty output is full at once.
LEMMA ReadNothingStep ==
  ASSUME IInv, NEW c \in Callers, ReadNothing(c)
  PROVE  IInv' /\ ReadExactAt!Return(c)
PROOF
  <1>1. /\ calls[c] # ReadExactAt!NoCall /\ Return(c, "ok", output[c])
        /\ UNCHANGED <<size, bytesRead, output>>
    BY DEF ReadNothing, InLoop
  <1>2. /\ calls[c].offset \in Nat /\ calls[c].length \in Nat
        /\ Filled(c) /\ bytesRead[c] \in Nat
    BY <1>1, CallFields DEF IInv, TypeOK
  <1>3. calls[c].length = 0
    BY <1>1, <1>2 DEF ReadNothing, Unfinished, Filled
  <1>4. output[c] = ReadExactAt!Range(calls[c].offset, calls[c].length)
    BY <1>1, <1>2, <1>3 DEF Filled, ReadExactAt!Range
  <1>5. ReadExactAt!Permitted(calls[c], ReadExactAt!Answer("ok", output[c]))
    BY <1>3, <1>4 DEF ReadExactAt!Permitted
  <1>6. ReadExactAt!Return(c)
    BY <1>1, <1>4, <1>5, ReturnImplements DEF ReadExactAt!Status
  <1>7. IInv'
    BY <1>1, ReturnPreserves DEF IInv, TypeOK
  <1> QED BY <1>6, <1>7

LEMMA ReadFailsStep ==
  ASSUME IInv, NEW c \in Callers, ReadFails(c)
  PROVE  IInv' /\ ReadExactAt!Return(c)
PROOF
  <1>1. /\ calls[c] # ReadExactAt!NoCall /\ Return(c, "Io", << >>)
        /\ UNCHANGED <<size, bytesRead, output>>
    BY DEF ReadFails, InLoop
  <1>2. ReadExactAt!Permitted(calls[c], ReadExactAt!Answer("Io", << >>))
    BY DEF ReadExactAt!Permitted
  <1>3. ReadExactAt!Return(c)
    BY <1>1, <1>2, ReturnImplements DEF ReadExactAt!Status
  <1>4. IInv'
    BY <1>1, ReturnPreserves DEF IInv, TypeOK
  <1> QED BY <1>3, <1>4

LEMMA TruncateStep ==
  ASSUME IInv, Truncate
  PROVE  IInv' /\ ReadExactAt!Truncate
PROOF
  <1>1. size' \in 0 .. MaxSize
    BY SourceAssumption DEF IInv, TypeOK, Truncate, ReadExactAt!Truncate
  <1> QED
    BY <1>1 DEF IInv, TypeOK, Filled, Truncate, ReadExactAt!Truncate

LEMMA InitEstablishes == Init => IInv /\ ReadExactAt!Init
  BY DEF Init, ReadExactAt!Init, IInv, TypeOK, Filled

LEMMA NextStep ==
  IInv /\ [Next]_vars => IInv' /\ [ReadExactAt!Next]_<<size, calls, answers>>
PROOF
  <1> SUFFICES ASSUME IInv, [Next]_vars
               PROVE  IInv' /\ [ReadExactAt!Next]_<<size, calls, answers>>
    OBVIOUS
  <1>1. ASSUME NEW c \in Callers, Begin(c)
        PROVE  IInv' /\ ReadExactAt!Begin(c)
    BY <1>1, BeginStep
  <1>2. ASSUME NEW c \in Callers, Step(c)
        PROVE  IInv' /\ [ReadExactAt!Return(c)]_<<size, calls, answers>>
    BY <1>2, ReadSliceStep, ReadFileStep, ReadNothingStep, ReadFailsStep DEF Step
  <1>3. CASE Truncate
    BY <1>3, TruncateStep DEF ReadExactAt!Next
  <1>4. CASE UNCHANGED vars
    BY <1>4 DEF vars, IInv, TypeOK, Filled
  <1> QED BY <1>1, <1>2, <1>3, <1>4 DEF Next, ReadExactAt!Next

\* However the system cuts reads into pieces and whoever else reads or cuts
\* the file short, a read_exact_at is one atomic read at its own offset.
THEOREM FileSourceImplementsReadExact == Spec => RefinesReadExact
PROOF
  <1>1. Init => IInv /\ ReadExactAt!Init
    BY InitEstablishes
  <1>2. IInv /\ [Next]_vars => IInv' /\ [ReadExactAt!Next]_<<size, calls, answers>>
    BY NextStep
  <1> QED BY <1>1, <1>2, PTL DEF Spec, RefinesReadExact, ReadExactAt!Spec
=============================================================================
