----------------------- MODULE PassphraseLine_proofs -----------------------
(***************************************************************************)
(* For every length of the buffer and of the file, and however the system  *)
(* cuts the file into reads, the passphrase is the first line.             *)
(***************************************************************************)
EXTENDS PassphraseLine, SequenceTheorems, TLAPS

-----------------------------------------------------------------------------
(* The inductive invariant.                                                *)

TypeInv ==
  /\ contents \in Seq(Bytes)
  /\ consumed \in 0 .. Len(contents)
  /\ buffer \in [1 .. ChunkSize -> Bytes]
  /\ status \in {"reading", "read", "failed"}

\* Until the line is found, the passphrase is all that was consumed.
IInv ==
  /\ TypeInv
  /\ status # "read" =>
       passphrase = SubSeq(contents, 1, consumed) /\ NoLineFeed(passphrase)
  /\ ReadsFirstLine

-----------------------------------------------------------------------------
(* Parts of the file.                                                      *)

LEMMA Part ==
  ASSUME TypeInv, NEW m \in 1 .. Len(contents) + 1, NEW n \in 0 .. Len(contents)
  PROVE  /\ SubSeq(contents, m, n) \in Seq(Bytes)
         /\ Len(SubSeq(contents, m, n)) = IF m <= n THEN n - m + 1 ELSE 0
         /\ \A i \in 1 .. n - m + 1 : SubSeq(contents, m, n)[i] = contents[m + i - 1]
PROOF
  <1>1. \A i \in m .. n : contents[i] \in Bytes
    BY ElementOfSeq DEF TypeInv
  <1>2. m \in Int /\ n \in Int
    BY LenProperties DEF TypeInv
  <1> QED BY <1>1, <1>2, SubSeqProperties

LEMMA Parts ==
  ASSUME TypeInv, NEW n \in 0 .. Len(contents), NEW p \in n .. Len(contents)
  PROVE  SubSeq(contents, 1, n) \o SubSeq(contents, n + 1, p) = SubSeq(contents, 1, p)
PROOF
  <1>1. Len(contents) \in Nat
    BY LenProperties DEF TypeInv
  <1>2. /\ 1 \in 1 .. Len(contents) + 1
        /\ n \in 1 - 1 .. Len(contents)
    BY <1>1
  <1> QED BY <1>2, ConcatAdjacentSubSeq DEF TypeInv

\* What stands before a line feed, or at the end, is the first line.
LEMMA LineOfFile ==
  ASSUME TypeInv, NEW m \in 0 .. Len(contents),
         NoLineFeed(SubSeq(contents, 1, m)),
         m = Len(contents) \/ contents[m + 1] = LF
  PROVE  IsFirstLine(Line(SubSeq(contents, 1, m)))
PROOF
  <1> DEFINE line == SubSeq(contents, 1, m)
             rest == SubSeq(contents, m + 1, Len(contents))
             s == SubSeq(line, 1, m - 1)
  <1>0. Len(contents) \in Nat /\ m \in Nat
    BY LenProperties DEF TypeInv
  <1>1. /\ line \in Seq(Bytes) /\ Len(line) = m
        /\ rest \in Seq(Bytes) /\ Len(rest) = Len(contents) - m
        /\ m < Len(contents) => rest[1] = contents[m + 1]
    BY <1>0, Part
  <1>2. line \o rest = contents
    <2>1. Len(contents) \in m .. Len(contents)
      BY <1>0
    <2>2. line \o rest = SubSeq(contents, 1, Len(contents))
      BY <2>1, Parts
    <2>3. SubSeq(contents, 1, Len(contents)) = contents
      BY SubSeqFull DEF TypeInv
    <2> QED BY <2>2, <2>3
  <1>3. rest = << >> \/ rest[1] = LF
    BY <1>0, <1>1, EmptySeq
  <1>4. rest \in {SubSeq(contents, n, Len(contents)) : n \in 1 .. Len(contents) + 1}
    BY <1>0
  <1>5. NoLineFeed(line)
    OBVIOUS
  <1> HIDE DEF line, rest
  <1>6. ASSUME line # << >>, line[Len(line)] = CR
        PROVE  IsFirstLine(Line(line))
    <2>1. m > 0
      BY <1>0, <1>1, <1>6, EmptySeq
    <2>2. Line(line) = s
      BY <1>1, <1>6 DEF Line
    <2>3. line = s \o <<CR>>
      BY <1>0, <1>1, <1>6, <2>1, SubSeqRecursiveSecond, SubSeqFull
    <2>4. /\ s \in Seq(Bytes) /\ Len(s) = m - 1
          /\ \A i \in 1 .. m - 1 : s[i] = line[i]
      <3>1. \A i \in 1 .. m - 1 : line[i] \in Bytes
        BY <1>0, <1>1, ElementOfSeq
      <3> QED BY <1>0, <2>1, <3>1, SubSeqProperties
    <2>5. NoLineFeed(s)
      BY <1>0, <1>1, <1>5, <2>4 DEF NoLineFeed
    <2>6. contents = s \o <<CR>> \o rest
      BY <1>2, <2>3
    <2>7. <<CR>> # << >>
      OBVIOUS
    <2> HIDE DEF s
    <2>8. IsFirstLine(s)
      <3>1. <<CR>> \in {<< >>, <<CR>>}
        OBVIOUS
      <3> QED BY <1>3, <1>4, <2>5, <2>6, <2>7, <3>1, Zenon DEF IsFirstLine
    <2> QED BY <2>2, <2>8
  <1>7. ASSUME ~(line # << >> /\ line[Len(line)] = CR)
        PROVE  IsFirstLine(Line(line))
    <2>1. Line(line) = line
      BY <1>7 DEF Line
    <2>2. contents = line \o << >> \o rest
      BY <1>1, <1>2, ConcatEmptySeq
    <2>3. IsFirstLine(line)
      <3>1. << >> \in {<< >>, <<CR>>}
        OBVIOUS
      <3> QED BY <1>3, <1>4, <1>5, <1>7, <2>2, <3>1, Zenon DEF IsFirstLine
    <2> QED BY <2>1, <2>3
  <1>8. IsFirstLine(Line(line))
    BY <1>6, <1>7
  <1> QED BY <1>8 DEF line

\* A line feed ends the first line also if a part before it was read earlier.
LEMMA NoLineFeedInParts ==
  ASSUME TypeInv, NEW n \in 0 .. Len(contents), NEW p \in n .. Len(contents),
         NoLineFeed(SubSeq(contents, 1, n)),
         \A i \in n + 1 .. p : contents[i] # LF
  PROVE  NoLineFeed(SubSeq(contents, 1, p))
PROOF
  <1>0. Len(contents) \in Nat /\ n \in Nat /\ p \in Nat
    BY LenProperties DEF TypeInv
  <1>1. /\ Len(SubSeq(contents, 1, n)) = n
        /\ \A i \in 1 .. n : SubSeq(contents, 1, n)[i] = contents[i]
    BY <1>0, Part
  <1>2. /\ Len(SubSeq(contents, 1, p)) = p
        /\ \A i \in 1 .. p : SubSeq(contents, 1, p)[i] = contents[i]
    BY <1>0, Part
  <1>3. \A i \in 1 .. n : contents[i] # LF
    BY <1>1 DEF NoLineFeed
  <1>4. \A i \in 1 .. p : i \in 1 .. n \/ i \in n + 1 .. p
    BY <1>0
  <1>5. \A i \in 1 .. p : contents[i] # LF
    BY <1>3, <1>4
  <1> QED BY <1>2, <1>5 DEF NoLineFeed

-----------------------------------------------------------------------------
(* Steps.                                                                  *)

\* The part of the buffer that was read is the next part of the file.
LEMMA ChunkIsPart ==
  ASSUME TypeInv, NEW count \in 0 .. ChunkSize, consumed + count <= Len(contents),
         NEW chunk, \A i \in 1 .. count : chunk[i] = contents[consumed + i],
         NEW k \in 0 .. count
  PROVE  SubSeq(contents, 1, consumed) \o SubSeq(chunk, 1, k)
           = SubSeq(contents, 1, consumed + k)
PROOF
  <1> DEFINE s == SubSeq(chunk, 1, k)
             t == SubSeq(contents, consumed + 1, consumed + k)
  <1>0. /\ Len(contents) \in Nat /\ consumed \in Nat /\ k \in Nat /\ count \in Nat
        /\ ChunkSize \in Nat
    BY LenProperties, PassphraseAssumption DEF TypeInv
  <1>1. /\ consumed + k \in consumed .. Len(contents)
        /\ consumed + 1 \in 1 .. Len(contents) + 1
        /\ \A i \in 1 .. k : i \in 1 .. count /\ consumed + i \in 1 .. Len(contents)
    BY <1>0
  <1>2. /\ t \in Seq(Bytes) /\ Len(t) = k
        /\ \A i \in 1 .. k : t[i] = contents[consumed + i]
    BY <1>0, <1>1, Part
  <1>3. \A i \in 1 .. k : chunk[i] \in Bytes
    BY <1>1, ElementOfSeq DEF TypeInv
  <1>4. /\ s \in Seq(Bytes) /\ Len(s) = k /\ \A i \in 1 .. k : s[i] = chunk[i]
    BY <1>0, <1>3, SubSeqProperties
  <1> HIDE DEF s, t
  <1>5. \A i \in 1 .. k : s[i] = t[i]
    BY <1>1, <1>2, <1>4
  <1>6. s = t
    BY <1>2, <1>4, <1>5, SeqEqual
  <1>7. SubSeq(contents, 1, consumed) \o t = SubSeq(contents, 1, consumed + k)
    BY <1>1, Parts DEF t, TypeInv
  <1> QED BY <1>6, <1>7 DEF s

LEMMA ReadPreserves ==
  ASSUME IInv, Read
  PROVE  IInv'
PROOF
  <1>1. PICK count \in 0 .. ChunkSize :
          LET chunk == [i \in 1 .. ChunkSize |->
                          IF i <= count THEN contents[consumed + i] ELSE buffer[i]]
          IN /\ consumed + count <= Len(contents)
             /\ count = 0 => consumed = Len(contents)
             /\ consumed' = consumed + count
             /\ buffer' = chunk
             /\ \/ count = 0 /\ AtEnd
                \/ /\ count > 0
                   /\ \E i \in 1 .. ChunkSize :
                        /\ LineEnd(chunk, count, i)
                        /\ AtLineFeed(passphrase \o SubSeq(chunk, 1, i - 1))
                \/ /\ count > 0
                   /\ \A i \in 1 .. count : chunk[i] # LF
                   /\ passphrase' = passphrase \o Taken(chunk, count)
                   /\ UNCHANGED status
    BY DEF Read
  <1> DEFINE chunk == [i \in 1 .. ChunkSize |->
                         IF i <= count THEN contents[consumed + i] ELSE buffer[i]]
  <1>2. /\ status = "reading" /\ contents' = contents /\ TypeInv
        /\ passphrase = SubSeq(contents, 1, consumed) /\ NoLineFeed(passphrase)
    BY DEF IInv, Read
  <1>3. /\ Len(contents) \in Nat /\ consumed \in 0 .. Len(contents) /\ ChunkSize \in Nat
        /\ count \in Nat
    BY <1>2, LenProperties, PassphraseAssumption DEF TypeInv
  <1>4. /\ consumed + count <= Len(contents) /\ consumed' = consumed + count
        /\ buffer' = chunk
    BY <1>1
  <1>5. \A i \in 1 .. count : i \in 1 .. ChunkSize /\ chunk[i] = contents[consumed + i]
    BY <1>3
  <1>6. chunk \in [1 .. ChunkSize -> Bytes]
    <2>1. ASSUME NEW i \in 1 .. ChunkSize PROVE chunk[i] \in Bytes
      <3>1. CASE i <= count
        <4>1. consumed + i \in 1 .. Len(contents) /\ i \in 1 .. count
          BY <1>3, <1>4, <3>1
        <4>2. contents[consumed + i] \in Bytes
          BY <1>2, <4>1, ElementOfSeq DEF TypeInv
        <4> QED BY <1>5, <4>1, <4>2
      <3>2. CASE ~(i <= count)
        BY <1>2, <3>2 DEF TypeInv
      <3> QED BY <3>1, <3>2
    <2> QED BY <2>1
  <1>7. CASE count = 0 /\ AtEnd
    <2>1. consumed = Len(contents) /\ consumed' = consumed
      BY <1>1, <1>3, <1>7
    <2>2. IsFirstLine(Line(passphrase))
      BY <1>2, <1>3, <2>1, LineOfFile
    <2>3. IsFirstLine(passphrase)' /\ status' = "read"
      BY <1>2, <1>7, <2>2 DEF AtEnd, IsFirstLine
    <2>4. TypeInv'
      BY <1>2, <1>4, <1>6, <2>1, <2>3 DEF TypeInv
    <2> QED BY <2>3, <2>4 DEF IInv, ReadsFirstLine
  <1>8. CASE /\ count > 0
             /\ \E i \in 1 .. ChunkSize :
                  /\ LineEnd(chunk, count, i)
                  /\ AtLineFeed(passphrase \o SubSeq(chunk, 1, i - 1))
    <2>1. PICK i \in 1 .. ChunkSize :
            /\ LineEnd(chunk, count, i)
            /\ AtLineFeed(passphrase \o SubSeq(chunk, 1, i - 1))
      BY <1>8
    <2> DEFINE m == consumed + (i - 1)
    <2>2. /\ i \in 1 .. count /\ chunk[i] = LF
          /\ \A j \in 1 .. i - 1 : chunk[j] # LF
      BY <2>1 DEF LineEnd
    <2>3. /\ i - 1 \in 0 .. count /\ m \in consumed .. Len(contents)
          /\ m \in 0 .. Len(contents) /\ m + 1 = consumed + i
      BY <1>3, <1>4, <2>2
    <2>4. passphrase \o SubSeq(chunk, 1, i - 1) = SubSeq(contents, 1, m)
      <3> HIDE DEF chunk
      <3> QED BY <1>2, <1>4, <1>5, <2>3, ChunkIsPart
    <2>5. contents[m + 1] = LF
      BY <1>5, <2>2, <2>3
    <2>6. ASSUME NEW p \in consumed + 1 .. m PROVE contents[p] # LF
      <3>1. p - consumed \in 1 .. i - 1 /\ p - consumed \in 1 .. count
            /\ consumed + (p - consumed) = p
        BY <1>3, <2>2
      <3> QED BY <1>5, <2>2, <3>1
    <2>7. IsFirstLine(Line(SubSeq(contents, 1, m)))
      <3>1. NoLineFeed(SubSeq(contents, 1, m))
        BY <1>2, <1>3, <2>3, <2>6, NoLineFeedInParts
      <3> QED BY <1>2, <2>3, <2>5, <3>1, LineOfFile
    <2>8. passphrase' = Line(SubSeq(contents, 1, m)) /\ status' = "read"
      BY <2>1, <2>4 DEF AtLineFeed
    <2>9. IsFirstLine(passphrase)'
      BY <1>2, <2>7, <2>8 DEF IsFirstLine
    <2>10. TypeInv'
      BY <1>2, <1>3, <1>4, <1>6, <2>8 DEF TypeInv
    <2> QED BY <2>8, <2>9, <2>10 DEF IInv, ReadsFirstLine
  <1>9. CASE /\ count > 0
             /\ \A i \in 1 .. count : chunk[i] # LF
             /\ passphrase' = passphrase \o Taken(chunk, count)
             /\ UNCHANGED status
    <2>1. \A i \in 1 .. count : chunk[i] # LF
      BY <1>9
    <2>2. consumed + count \in consumed .. Len(contents) /\ count \in 0 .. count
      BY <1>3, <1>4
    <2>3. passphrase' = SubSeq(contents, 1, consumed + count)
      <3> HIDE DEF chunk
      <3> QED BY <1>2, <1>4, <1>5, <1>9, <2>2, ChunkIsPart DEF Taken
    <2>4. ASSUME NEW p \in consumed + 1 .. consumed + count PROVE contents[p] # LF
      <3>1. p - consumed \in 1 .. count /\ consumed + (p - consumed) = p
        BY <1>3
      <3> QED BY <1>5, <2>1, <3>1
    <2>5. NoLineFeed(SubSeq(contents, 1, consumed + count))
      BY <1>2, <1>3, <2>2, <2>4, NoLineFeedInParts
    <2>6. TypeInv'
      BY <1>2, <1>3, <1>4, <1>6, <1>9 DEF TypeInv
    <2> QED BY <1>2, <1>4, <1>9, <2>3, <2>5, <2>6 DEF IInv, ReadsFirstLine, NoLineFeed
  <1> QED BY <1>1, <1>7, <1>8, <1>9

LEMMA InitEstablishes == Init => IInv
PROOF
  <1> SUFFICES ASSUME Init PROVE IInv
    OBVIOUS
  <1>1. contents \in Seq(Bytes)
    <2>1. PICK n \in 0 .. MaxLength : contents \in [1 .. n -> Bytes]
      BY DEF Init, Files
    <2>2. n \in Nat
      BY PassphraseAssumption
    <2> QED BY <2>1, <2>2, SeqDef
  <1>2. TypeInv
    BY <1>1, LenProperties, PassphraseAssumption DEF Init, TypeInv
  <1>3. SubSeq(contents, 1, 0) = << >> /\ NoLineFeed(<< >>)
    BY SubSeqEmpty DEF NoLineFeed
  <1> QED BY <1>2, <1>3 DEF Init, IInv, ReadsFirstLine

LEMMA StepPreserves == IInv /\ [Next]_vars => IInv'
PROOF
  <1> SUFFICES ASSUME IInv, [Next]_vars PROVE IInv'
    OBVIOUS
  <1>1. CASE Read
    BY <1>1, ReadPreserves
  <1>2. CASE Interrupted
    BY <1>2 DEF Interrupted, IInv, TypeInv, NoLineFeed, ReadsFirstLine, IsFirstLine
  <1>3. CASE ReadFails
    BY <1>3 DEF ReadFails, IInv, TypeInv, NoLineFeed, ReadsFirstLine, IsFirstLine
  <1>4. CASE UNCHANGED vars
    BY <1>4 DEF vars, IInv, TypeInv, NoLineFeed, ReadsFirstLine, IsFirstLine
  <1> QED BY <1>1, <1>2, <1>3, <1>4 DEF Next

LEMMA Invariance == Spec => []IInv
PROOF
  <1>1. Init => IInv
    BY InitEstablishes
  <1>2. IInv /\ [Next]_vars => IInv'
    BY StepPreserves
  <1> QED BY <1>1, <1>2, PTL DEF Spec

\* A passphrase that was read is the first line, wherever chunks end.
THEOREM PassphraseIsFirstLine == Spec => []ReadsFirstLine
PROOF
  <1>1. IInv => ReadsFirstLine
    BY DEF IInv
  <1> QED BY <1>1, Invariance, PTL

\* Nothing is read behind a line feed that was seen.
THEOREM ReadingStops == Spec => []StopsAtLineFeed
PROOF
  <1>1. IInv => StopsAtLineFeed
    BY DEF IInv, StopsAtLineFeed
  <1> QED BY <1>1, Invariance, PTL
=============================================================================
