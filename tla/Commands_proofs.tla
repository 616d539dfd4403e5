--------------------------- MODULE Commands_proofs ---------------------------
(***************************************************************************)
(* Proofs about Commands, for any number of processes at one path.         *)
(***************************************************************************)
EXTENDS Commands, SequenceTheorems, TLAPS

-----------------------------------------------------------------------------
(* The image, page by page.                                                *)

\* A page of the image is a page.
LEMMA ExportedPageType ==
  ASSUME NEW p \in Commands, NEW n \in 1 .. Pages
  PROVE  ExportedPage(p, n) \in ImagePages
  BY CommandsAssumption DEF ExportedPage, ExportedJournal, ImagePages

LEMMA FirstPagesType ==
  ASSUME NEW p \in Commands, NEW k \in 0 .. Pages
  PROVE  /\ FirstPages(p, k) \in Seq(ImagePages)
         /\ Len(FirstPages(p, k)) = k
PROOF
  <1>1. \A n \in 1 .. k : ExportedPage(p, n) \in ImagePages
    BY ExportedPageType, CommandsAssumption
  <1>2. k \in Nat
    BY CommandsAssumption
  <1> QED BY <1>1, <1>2 DEF FirstPages

\* Writing the next page extends the image by one page.
LEMMA NextPage ==
  ASSUME NEW p \in Commands, NEW k \in 0 .. Pages - 1
  PROVE  Append(FirstPages(p, k), ExportedPage(p, k + 1)) = FirstPages(p, k + 1)
PROOF
  <1>1. k \in 0 .. Pages /\ k + 1 \in 1 .. Pages /\ k + 1 \in 0 .. Pages /\ k \in Nat
    BY CommandsAssumption
  <1> DEFINE s == FirstPages(p, k)
             e == ExportedPage(p, k + 1)
             t == FirstPages(p, k + 1)
  <1>2. s \in Seq(ImagePages) /\ Len(s) = k /\ t \in Seq(ImagePages) /\ Len(t) = k + 1
    BY <1>1, FirstPagesType
  <1>3. e \in ImagePages
    BY <1>1, ExportedPageType
  <1>4. /\ Append(s, e) \in Seq(ImagePages) /\ Len(Append(s, e)) = k + 1
        /\ \A i \in 1 .. k : Append(s, e)[i] = s[i]
        /\ Append(s, e)[k + 1] = e
    BY <1>1, <1>2, <1>3, AppendProperties
  <1>5. \A i \in 1 .. k : s[i] = ExportedPage(p, i)
    BY DEF FirstPages
  <1>6. \A i \in 1 .. k + 1 : t[i] = ExportedPage(p, i)
    BY DEF FirstPages
  <1>7. \A i \in 1 .. k + 1 : Append(s, e)[i] = t[i]
    BY <1>1, <1>4, <1>5, <1>6
  <1> HIDE DEF s, e, t
  <1>8. Append(s, e) = t
    BY <1>2, <1>4, <1>7, SeqEqual
  <1> QED BY <1>8 DEF s, e, t

LEMMA NoPages ==
  ASSUME NEW p \in Commands
  PROVE  FirstPages(p, 0) = << >>
PROOF
  <1>1. FirstPages(p, 0) \in Seq(ImagePages) /\ Len(FirstPages(p, 0)) = 0
    BY FirstPagesType, CommandsAssumption
  <1> QED BY <1>1, EmptySeq

LEMMA WholeImage ==
  ASSUME NEW p \in Commands
  PROVE  FirstPages(p, Pages) = Image(p)
  BY CommandsAssumption
     DEF FirstPages, Image, ExportedPage, ExportedJournal

-----------------------------------------------------------------------------
(* Each property is a part of the invariant.                               *)

LEMMA CompleteFromInv == CommandsInv => SuccessMeansComplete
  BY DEF CommandsInv, ProcessInv, ErrorInv, ContentInv, Done, Exporting, SuccessMeansComplete

LEMMA InPlaceFromInv == CommandsInv => SuccessIsInPlace
  BY DEF CommandsInv, ProcessInv, PathInv, Done, Exporting, SuccessIsInPlace

LEMMA LeftoversFromInv == CommandsInv => NoSilentLeftovers
  BY DEF CommandsInv, ProcessInv, PathInv, Exporting, NoSilentLeftovers

-----------------------------------------------------------------------------
(* What a step of one process leaves to the others.                        *)

\* Nothing of another process changes but, if p creates or removes the file at
\* the path, where the path leads.
OnlyOf(p) ==
  /\ \A q \in Commands \ {p} :
       /\ pc'[q] = pc[q] /\ seen'[q] = seen[q] /\ fd'[q] = fd[q]
       /\ error'[q] = error[q] /\ code'[q] = code[q]
       /\ content'[q] = content[q]
       /\ q \in torn' <=> q \in torn
  /\ synced \subseteq synced' /\ warned \subseteq warned'
  /\ UNCHANGED <<interference, losses>>
  /\ \/ entry' = entry
     \/ entry = NoFile /\ entry' = p
     \/ HasFile(p) /\ entry' = NoFile

LEMMA OthersKeep ==
  ASSUME CommandsInv, NEW p \in Commands, OnlyOf(p), NEW q \in Commands \ {p}
  PROVE  ProcessInv(q)'
PROOF
  <1> USE CommandsAssumption
  <1>1. /\ pc'[q] = pc[q] /\ seen'[q] = seen[q] /\ fd'[q] = fd[q]
        /\ error'[q] = error[q] /\ code'[q] = code[q] /\ content'[q] = content[q]
        /\ q \in torn' <=> q \in torn
        /\ q \in synced => q \in synced'
        /\ q \in warned => q \in warned'
        /\ UNCHANGED <<interference, losses>>
    BY DEF OnlyOf
  <1>2. \/ entry' = entry
        \/ entry = NoFile /\ entry' = p
        \/ HasFile(p) /\ entry' = NoFile
    BY DEF OnlyOf
  <1>3. ProcessInv(p) /\ ProcessInv(q)
    BY DEF CommandsInv
  <1>4. p \notin {Foreign, NoFile} /\ q \notin {Foreign, NoFile} /\ q # p
    OBVIOUS
  <1>5. /\ (HasFile(q)' <=> HasFile(q)) /\ (Done(q)' <=> Done(q))
        /\ (PipeBroke(q)' <=> PipeBroke(q)) /\ (IsComplete(q)' <=> IsComplete(q))
    BY <1>1 DEF HasFile, Done, PipeBroke, IsComplete
  <1>6. FileInv(q)'
    BY <1>1, <1>2, <1>3, <1>4, <1>5 DEF ProcessInv, FileInv
  <1>7. ErrorInv(q)'
    BY <1>1, <1>3, <1>5 DEF ProcessInv, ErrorInv
  <1>8. ContentInv(q)'
    BY <1>1, <1>3, <1>5 DEF ProcessInv, ContentInv
  <1>9. PathInv(q)'
    <2>1. interference' = 0 /\ entry' = Foreign => fd'[q] = NoFile
      BY <1>1, <1>2, <1>3, <1>4 DEF ProcessInv, PathInv
    <2>2. ASSUME interference' + losses' = 0, HasFile(q)' \/ (q \in Exporting /\ Done(q)')
          PROVE  entry' = q
      <3>1. entry = q
        BY <1>1, <1>3, <1>5, <2>2 DEF ProcessInv, PathInv
      <3>2. HasFile(p) => entry = p
        BY <1>1, <1>3, <2>2 DEF ProcessInv, PathInv
      <3> QED BY <1>2, <1>4, <3>1, <3>2
    <2>3. entry' = q => entry = q
      BY <1>2, <1>4
    <2>4. losses' = 0 /\ code'[q] \in {"success", "failure"} /\ entry' = q =>
            IsComplete(q)' \/ q \in warned' \/ PipeBroke(q)'
      BY <1>1, <1>3, <1>5, <2>3 DEF ProcessInv, PathInv
    <2> QED BY <2>1, <2>2, <2>4 DEF PathInv
  <1> QED BY <1>6, <1>7, <1>8, <1>9 DEF ProcessInv

\* So a step of p keeps the invariant if it keeps the types and p's part.
LEMMA OneProcess ==
  ASSUME CommandsInv, NEW p \in Commands, OnlyOf(p), TypeOK', ProcessInv(p)'
  PROVE  CommandsInv'
PROOF
  <1>1. Foreign \in synced'
    BY DEF CommandsInv, OnlyOf
  <1>2. \A q \in Commands : ProcessInv(q)'
    BY OthersKeep
  <1> QED BY <1>1, <1>2 DEF CommandsInv

-----------------------------------------------------------------------------
(* The initial state and every action keep the invariant.                  *)

LEMMA InitInv == Init => CommandsInv
PROOF
  <1> SUFFICES ASSUME Init PROVE CommandsInv
    OBVIOUS
  <1> USE CommandsAssumption DEF Init, Files, Exporting
  <1>1. TypeOK
    <2>1. << >> \in Seq(ImagePages)
      BY EmptySeq
    <2> QED BY <2>1 DEF TypeOK, Steps, Codes
  <1>2. ASSUME NEW p \in Commands PROVE ProcessInv(p)
    BY DEF ProcessInv, FileInv, ErrorInv, ContentInv, PathInv, HasFile, Done, PipeBroke
  <1> QED BY <1>1, <1>2 DEF CommandsInv

\* The input is opened, or an error ends the process at once.
LEMMA OpenInv ==
  ASSUME CommandsInv, NEW p \in Commands, Open(p)
  PROVE  CommandsInv'
PROOF
  <1> USE CommandsAssumption
      DEF Open, Go, Exit, ExitWith, FailsWith, ExitCode, Kinds, Files, files, world,
          Exporting, TypeOK
  <1>1. TypeOK /\ ProcessInv(p)
    BY DEF CommandsInv
  <1>2. TypeOK'
    <2>1. pc' \in [Commands -> Steps] /\ code' \in [Commands -> Codes]
      BY <1>1 DEF Steps, Codes
    <2>2. error' \in [Commands -> Kinds \cup {"none"}]
      BY <1>1
    <2>3. \A q \in Commands : pc'[q] = "exited" <=> code'[q] # "running"
      BY <1>1
    <2> QED BY <1>1, <2>1, <2>2, <2>3
  <1>3. OnlyOf(p)
    BY <1>1 DEF OnlyOf, ProcessInv, FileInv, HasFile
  <1> USE DEF ProcessInv, HasFile
  <1>4. FileInv(p)'
    BY <1>1 DEF FileInv
  <1>5. ErrorInv(p)'
    BY <1>1 DEF FileInv, ErrorInv, PipeBroke
  <1>6. ContentInv(p)'
    BY <1>1 DEF FileInv, ErrorInv, ContentInv, Done, PipeBroke, IsComplete, FirstPages
  <1>7. PathInv(p)'
    BY <1>1 DEF FileInv, ErrorInv, PathInv, ContentInv, Done, PipeBroke, IsComplete
  <1>8. ProcessInv(p)'
    BY <1>4, <1>5, <1>6, <1>7
  <1> QED BY <1>2, <1>3, <1>8, OneProcess

\* verify touches no file, and its page errors are not broken pipes.
LEMMA VerifyPageInv ==
  ASSUME CommandsInv, NEW p \in Commands, VerifyPage(p)
  PROVE  CommandsInv'
PROOF
  <1> USE CommandsAssumption
      DEF VerifyPage, Go, Exit, ExitWith, FailsWith, ExitCode, Kinds, Files, files, world,
          Exporting, TypeOK, LastPage, PageErrorKind
  <1>1. TypeOK /\ ProcessInv(p)
    BY DEF CommandsInv
  <1>2. TypeOK'
    <2>1. pc \in [Commands -> Steps] /\ code \in [Commands -> Codes]
      BY <1>1
    <2>2. /\ pc' = pc \/ pc' = [pc EXCEPT ![p] = "exited"]
          /\ code' = code \/ code' = [code EXCEPT ![p] = "failure"]
      OBVIOUS
    <2>3. pc' \in [Commands -> Steps]
      <3> HIDE DEF VerifyPage, TypeOK
      <3> QED BY <2>1, <2>2 DEF Steps
    <2>4. code' \in [Commands -> Codes]
      <3> HIDE DEF VerifyPage, TypeOK
      <3> QED BY <2>1, <2>2 DEF Codes
    <2>5. error' \in [Commands -> Kinds \cup {"none"}]
      BY <1>1
    <2>6. \A q \in Commands : pc'[q] = "exited" <=> code'[q] # "running"
      BY <1>1
    <2>7. seen' \in [Commands -> 0 .. Pages]
      <3>1. seen[p] < Pages => seen[p] + 1 \in 0 .. Pages
        BY <1>1
      <3>2. \/ seen' = seen
            \/ seen' = [seen EXCEPT ![p] = @ + 1] /\ seen[p] < Pages
        OBVIOUS
      <3>3. seen \in [Commands -> 0 .. Pages]
        BY <1>1
      <3> HIDE DEF VerifyPage, TypeOK
      <3> QED BY <3>1, <3>2, <3>3
    <2> QED BY <1>1, <2>3, <2>4, <2>5, <2>6, <2>7
  <1>3. OnlyOf(p)
    BY <1>1 DEF OnlyOf, ProcessInv, FileInv, HasFile
  <1> USE DEF ProcessInv, HasFile
  <1>4. FileInv(p)'
    BY <1>1 DEF FileInv
  <1>5. ErrorInv(p)'
    BY <1>1 DEF FileInv, ErrorInv, PipeBroke
  <1>6. ContentInv(p)'
    BY <1>1 DEF FileInv, ErrorInv, ContentInv, Done, PipeBroke, IsComplete, FirstPages
  <1>7. PathInv(p)'
    BY <1>1 DEF FileInv, ErrorInv, PathInv, ContentInv, Done, PipeBroke, IsComplete
  <1>8. ProcessInv(p)'
    BY <1>4, <1>5, <1>6, <1>7
  <1> QED BY <1>2, <1>3, <1>8, OneProcess

\* create_new finds the path free: the new file is nobody else's.
LEMMA CreateFileInv ==
  ASSUME CommandsInv, NEW p \in Commands, CreateFile(p)
  PROVE  CommandsInv'
PROOF
  <1> USE CommandsAssumption
      DEF CreateFile, Go, Exit, ExitWith, FailsWith, ExitCode, Kinds, Files, files, world,
          Exporting, TypeOK, CreateNew, Created, CreateFailed
  <1>1. TypeOK /\ ProcessInv(p)
    BY DEF CommandsInv
  <1>2. TypeOK'
    <2>1. pc' \in [Commands -> Steps] /\ code' \in [Commands -> Codes]
      BY <1>1 DEF Steps, Codes
    <2>2. error' \in [Commands -> Kinds \cup {"none"}]
      BY <1>1
    <2>3. \A q \in Commands : pc'[q] = "exited" <=> code'[q] # "running"
      BY <1>1
    <2>4. content' \in [Files -> Seq(ImagePages)]
      <3>1. << >> \in Seq(ImagePages)
        BY EmptySeq
      <3>2. content' = content \/ content' = [content EXCEPT ![p] = << >>]
        OBVIOUS
      <3> HIDE DEF CreateFile
      <3> QED BY <1>1, <3>1, <3>2
    <2>5. entry' \in Files \cup {NoFile} /\ fd' \in [Commands -> Commands \cup {NoFile}]
      <3>1. entry' \in {entry, p} /\ (fd' = fd \/ fd' = [fd EXCEPT ![p] = p])
        OBVIOUS
      <3>2. entry \in Files \cup {NoFile} /\ fd \in [Commands -> Commands \cup {NoFile}]
        BY <1>1
      <3> HIDE DEF CreateFile, TypeOK
      <3> QED BY <3>1, <3>2
    <2> QED BY <1>1, <2>4, <2>5, <2>1, <2>2, <2>3
  <1>3. OnlyOf(p)
    BY <1>1 DEF OnlyOf, ProcessInv, FileInv, HasFile
  <1> USE DEF ProcessInv, HasFile
  <1>4. FileInv(p)'
    BY <1>1 DEF FileInv
  <1>5. ErrorInv(p)'
    BY <1>1 DEF FileInv, ErrorInv, PipeBroke
  <1>6. ContentInv(p)'
    <2>1. CASE Created(p) /\ pc'[p] = "pages" /\ code'[p] = "running"
      <3>1. content'[p] = FirstPages(p, seen'[p]) /\ p \notin torn'
        BY <1>1, <2>1, NoPages DEF FileInv
      <3> QED BY <1>1, <2>1, <3>1 DEF FileInv, ContentInv, Done
    <2>2. CASE \E kind \in Kinds : ExitWith(p, kind)
      BY <1>1, <2>2 DEF FileInv, ContentInv, Done, PipeBroke
    <2> QED BY <1>1, <2>1, <2>2
  <1>7. PathInv(p)'
    <2>1. CASE Created(p) /\ pc'[p] = "pages" /\ code'[p] = "running"
      BY <1>1, <2>1 DEF FileInv, PathInv, Done
    <2>2. CASE UNCHANGED <<entry, fd>> /\ \E kind \in Kinds : ExitWith(p, kind)
      BY <1>1, <2>2 DEF FileInv, PathInv, Done, PipeBroke
    <2> QED BY <1>1, <2>1, <2>2
  <1>8. ProcessInv(p)'
    BY <1>4, <1>5, <1>6, <1>7
  <1> QED BY <1>2, <1>3, <1>8, OneProcess

\* All pages are written: the image is whole.
LEMMA PagesDoneInv ==
  ASSUME CommandsInv, NEW p \in Commands, PagesDone(p)
  PROVE  CommandsInv'
PROOF
  <1> USE CommandsAssumption
      DEF PagesDone, Go, Exit, ExitWith, FailsWith, ExitCode, Kinds, Files, files, world,
          Exporting, TypeOK, LastPage
  <1>1. TypeOK /\ ProcessInv(p)
    BY DEF CommandsInv
  <1>2. TypeOK'
    <2>1. pc' \in [Commands -> Steps] /\ code' \in [Commands -> Codes]
      BY <1>1 DEF Steps, Codes
    <2>2. error' \in [Commands -> Kinds \cup {"none"}]
      BY <1>1
    <2>3. \A q \in Commands : pc'[q] = "exited" <=> code'[q] # "running"
      BY <1>1
    <2> QED BY <1>1, <2>1, <2>2, <2>3
  <1>3. OnlyOf(p)
    BY <1>1 DEF OnlyOf, ProcessInv, FileInv, HasFile
  <1> USE DEF ProcessInv, HasFile
  <1>4. FileInv(p)'
    BY <1>1 DEF FileInv
  <1>5. ErrorInv(p)'
    BY <1>1 DEF FileInv, ErrorInv, PipeBroke
  <1>6. ContentInv(p)'
    BY <1>1, WholeImage DEF FileInv, ErrorInv, ContentInv, Done, PipeBroke, IsComplete
  <1>7. PathInv(p)'
    BY <1>1 DEF FileInv, ErrorInv, PathInv, ContentInv, Done, PipeBroke, IsComplete
  <1>8. ProcessInv(p)'
    BY <1>4, <1>5, <1>6, <1>7
  <1> QED BY <1>2, <1>3, <1>8, OneProcess

\* sync_all changes no content.
LEMMA SyncAllInv ==
  ASSUME CommandsInv, NEW p \in Commands, SyncAll(p)
  PROVE  CommandsInv'
PROOF
  <1> USE CommandsAssumption
      DEF SyncAll, Go, Exit, ExitWith, FailsWith, ExitCode, Kinds, Files, files, world,
          Exporting, TypeOK, Synced
  <1>1. TypeOK /\ ProcessInv(p)
    BY DEF CommandsInv
  <1>2. TypeOK'
    <2>1. pc' \in [Commands -> Steps] /\ code' \in [Commands -> Codes]
      BY <1>1 DEF Steps, Codes
    <2>2. error' \in [Commands -> Kinds \cup {"none"}]
      BY <1>1
    <2>3. \A q \in Commands : pc'[q] = "exited" <=> code'[q] # "running"
      BY <1>1
    <2>4. synced' \subseteq Files
      BY <1>1 DEF ProcessInv, FileInv, HasFile
    <2> QED BY <1>1, <2>4, <2>1, <2>2, <2>3
  <1>3. OnlyOf(p)
    BY <1>1 DEF OnlyOf, ProcessInv, FileInv, HasFile
  <1> USE DEF ProcessInv, HasFile
  <1>4. FileInv(p)'
    BY <1>1 DEF FileInv
  <1>5. ErrorInv(p)'
    BY <1>1 DEF FileInv, ErrorInv, PipeBroke
  <1>6. ContentInv(p)'
    BY <1>1 DEF FileInv, ErrorInv, ContentInv, Done, PipeBroke, IsComplete, FirstPages
  <1>7. PathInv(p)'
    BY <1>1 DEF FileInv, ErrorInv, PathInv, ContentInv, Done, PipeBroke, IsComplete
  <1>8. ProcessInv(p)'
    BY <1>4, <1>5, <1>6, <1>7
  <1> QED BY <1>2, <1>3, <1>8, OneProcess

\* While nobody interferes the path leads to the file that is cleaned up.
LEMMA CleanupFailedExportInv ==
  ASSUME CommandsInv, NEW p \in Commands, CleanupFailedExport(p)
  PROVE  CommandsInv'
PROOF
  <1> USE CommandsAssumption
      DEF CleanupFailedExport, Go, Exit, ExitWith, FailsWith, ExitCode, Kinds, Files, files, world,
          Exporting, TypeOK, Removed, NotRemoved, Warn
  <1>1. TypeOK /\ ProcessInv(p)
    BY DEF CommandsInv
  <1>2. TypeOK'
    <2>1. pc' \in [Commands -> Steps] /\ code' \in [Commands -> Codes]
      BY <1>1 DEF Steps, Codes
    <2>2. error' \in [Commands -> Kinds \cup {"none"}]
      BY <1>1
    <2>3. \A q \in Commands : pc'[q] = "exited" <=> code'[q] # "running"
      BY <1>1
    <2>4. entry' \in Files \cup {NoFile} /\ warned' \subseteq Exporting
      BY <1>1 DEF ProcessInv, FileInv
    <2> QED BY <1>1, <2>4, <2>1, <2>2, <2>3
  <1>3. OnlyOf(p)
    BY <1>1 DEF OnlyOf, ProcessInv, FileInv, HasFile
  <1> USE DEF ProcessInv, HasFile
  <1>4. FileInv(p)'
    BY <1>1 DEF FileInv
  <1>5. ErrorInv(p)'
    BY <1>1 DEF FileInv, ErrorInv, PipeBroke
  <1>6. ContentInv(p)'
    BY <1>1 DEF FileInv, ErrorInv, ContentInv, Done, PipeBroke, IsComplete, FirstPages
  <1>7. PathInv(p)'
    BY <1>1 DEF FileInv, ErrorInv, PathInv, ContentInv, Done, PipeBroke, IsComplete
  <1>8. ProcessInv(p)'
    BY <1>4, <1>5, <1>6, <1>7
  <1> QED BY <1>2, <1>3, <1>8, OneProcess

\* Only complete work is reported.
LEMMA ReportInv ==
  ASSUME CommandsInv, NEW p \in Commands, Report(p)
  PROVE  CommandsInv'
PROOF
  <1> USE CommandsAssumption
      DEF Report, Go, Exit, ExitWith, FailsWith, ExitCode, Kinds, Files, files, world,
          Exporting, TypeOK
  <1>1. TypeOK /\ ProcessInv(p)
    BY DEF CommandsInv
  <1>2. TypeOK'
    <2>1. pc' \in [Commands -> Steps] /\ code' \in [Commands -> Codes]
      BY <1>1 DEF Steps, Codes
    <2>2. error' \in [Commands -> Kinds \cup {"none"}]
      BY <1>1
    <2>3. \A q \in Commands : pc'[q] = "exited" <=> code'[q] # "running"
      BY <1>1
    <2> QED BY <1>1, <2>1, <2>2, <2>3
  <1>3. OnlyOf(p)
    BY <1>1 DEF OnlyOf, ProcessInv, FileInv, HasFile
  <1> USE DEF ProcessInv, HasFile
  <1>4. FileInv(p)'
    BY <1>1 DEF FileInv
  <1>5. ErrorInv(p)'
    BY <1>1 DEF FileInv, ErrorInv, PipeBroke
  <1>6. ContentInv(p)'
    BY <1>1 DEF FileInv, ErrorInv, ContentInv, Done, PipeBroke, IsComplete, FirstPages
  <1>7. PathInv(p)'
    BY <1>1 DEF FileInv, ErrorInv, PathInv, ContentInv, Done, PipeBroke, IsComplete
  <1>8. ProcessInv(p)'
    BY <1>4, <1>5, <1>6, <1>7
  <1> QED BY <1>2, <1>3, <1>8, OneProcess

\* A killed process changes nothing any more.
LEMMA KillInv ==
  ASSUME CommandsInv, NEW p \in Commands, Kill(p)
  PROVE  CommandsInv'
PROOF
  <1> USE CommandsAssumption
      DEF Kill, Go, Exit, ExitWith, FailsWith, ExitCode, Kinds, Files, files, world,
          Exporting, TypeOK
  <1>1. TypeOK /\ ProcessInv(p)
    BY DEF CommandsInv
  <1>2. TypeOK'
    <2>1. pc' \in [Commands -> Steps] /\ code' \in [Commands -> Codes]
      BY <1>1 DEF Steps, Codes
    <2>2. error' \in [Commands -> Kinds \cup {"none"}]
      BY <1>1
    <2>3. \A q \in Commands : pc'[q] = "exited" <=> code'[q] # "running"
      BY <1>1
    <2> QED BY <1>1, <2>1, <2>2, <2>3
  <1>3. OnlyOf(p)
    BY <1>1 DEF OnlyOf, ProcessInv, FileInv, HasFile
  <1> USE DEF ProcessInv, HasFile
  <1>4. FileInv(p)'
    BY <1>1 DEF FileInv
  <1>5. ErrorInv(p)'
    BY <1>1 DEF FileInv, ErrorInv, PipeBroke
  <1>6. ContentInv(p)'
    BY <1>1 DEF FileInv, ErrorInv, ContentInv, Done, PipeBroke, IsComplete, FirstPages
  <1>7. PathInv(p)'
    BY <1>1 DEF FileInv, ErrorInv, PathInv, ContentInv, Done, PipeBroke, IsComplete
  <1>8. ProcessInv(p)'
    BY <1>4, <1>5, <1>6, <1>7
  <1> QED BY <1>2, <1>3, <1>8, OneProcess

\* The next page of the image is written, or the export is on its way to
\* clean up what it wrote.
LEMMA ExportPageInv ==
  ASSUME CommandsInv, NEW p \in Commands, ExportPage(p)
  PROVE  CommandsInv'
PROOF
  <1> USE CommandsAssumption
      DEF ExportPage, Go, FailsWith, WriteErrorKinds, PageErrorKind, Kinds,
          Files, files, world, Exporting, TypeOK
  <1>1. TypeOK /\ ProcessInv(p)
    BY DEF CommandsInv
  <1>2. /\ fd[p] = p /\ seen[p] \in 0 .. Pages - 1 /\ seen[p] + 1 \in 1 .. Pages
        /\ content[p] = FirstPages(p, seen[p]) /\ p \notin torn
        /\ code[p] = "running" /\ error[p] = "none" /\ pc[p] = "pages"
    <2>1. fd[p] = p /\ p \notin torn /\ code[p] = "running" /\ error[p] = "none"
      BY <1>1 DEF ProcessInv, FileInv, ErrorInv, HasFile, ContentInv
    <2>2. content[p] = FirstPages(p, seen[p])
      BY <1>1 DEF ProcessInv, ContentInv
    <2>3. seen[p] \in 0 .. Pages - 1 /\ seen[p] + 1 \in 1 .. Pages
      BY <1>1 DEF LastPage
    <2> QED BY <2>1, <2>2, <2>3
  <1>3. /\ UNCHANGED <<entry, synced, fd, code, warned, world>> /\ p \in Exporting
    OBVIOUS
  <1>4. CASE /\ seen' = [seen EXCEPT ![p] = @ + 1]
             /\ content' = [content EXCEPT ![fd[p]] =
                              Append(@, ExportedPage(p, seen[p] + 1))]
             /\ UNCHANGED <<pc, torn, error>>
    <2>1. content' = [content EXCEPT ![p] = FirstPages(p, seen[p] + 1)]
      <3>1. Append(FirstPages(p, seen[p]), ExportedPage(p, seen[p] + 1))
              = FirstPages(p, seen[p] + 1)
        BY <1>2, NextPage
      <3> HIDE DEF ExportPage, TypeOK
      <3>2. content' = [content EXCEPT ![p] = Append(content[p], ExportedPage(p, seen[p] + 1))]
        BY <1>2, <1>4
      <3> QED BY <1>2, <3>1, <3>2
    <2>2. FirstPages(p, seen[p] + 1) \in Seq(ImagePages)
      BY <1>2, FirstPagesType
    <2> HIDE DEF ExportPage
    <2>3. TypeOK'
      <3>1. content' \in [Files -> Seq(ImagePages)]
        BY <1>1, <2>1, <2>2
      <3>2. seen' \in [Commands -> 0 .. Pages]
        BY <1>1, <1>2, <1>4
      <3> QED BY <1>1, <1>3, <1>4, <3>1, <3>2
    <2>4. OnlyOf(p)
      BY <1>1, <1>3, <1>4, <2>1 DEF OnlyOf
    <2>5. content'[p] = FirstPages(p, seen'[p]) /\ pc'[p] = "pages" /\ code'[p] = "running"
      BY <1>1, <1>2, <1>3, <1>4, <2>1
    <2>6. ProcessInv(p)'
      <3> USE <1>1, <1>2, <1>3, <1>4 DEF ProcessInv, HasFile
      <3>1. FileInv(p)'
        BY DEF FileInv
      <3>2. ErrorInv(p)'
        BY DEF ErrorInv, PipeBroke
      <3>3. ContentInv(p)'
        BY <2>5 DEF ContentInv, Done
      <3>4. PathInv(p)'
        BY DEF PathInv, Done
      <3> QED BY <3>1, <3>2, <3>3, <3>4
    <2> QED BY <2>3, <2>4, <2>6, OneProcess
  <1>5. CASE pc' = [pc EXCEPT ![p] = "cleanup"]
    <2>0. pc' # pc
      BY <1>1, <1>2, <1>5
    <2>1. content' = content /\ torn' \in {torn, torn \cup {p}}
      <3>1. content' = content
        BY <2>0
      <3>2. torn' = torn \/ \E part \in SUBSET {p} : torn' = torn \cup part
        BY <1>2, <2>0
      <3>3. ASSUME NEW part \in SUBSET {p}, torn' = torn \cup part
            PROVE  torn' \in {torn, torn \cup {p}}
        <4>1. part = {} \/ part = {p}
          OBVIOUS
        <4> QED BY <3>3, <4>1
      <3> QED BY <3>1, <3>2, <3>3
    <2>2. /\ seen' \in [Commands -> 0 .. Pages]
          /\ \A q \in Commands : q # p => seen'[q] = seen[q]
      <3>1. seen' = seen \/ seen' = [seen EXCEPT ![p] = @ + 1]
        OBVIOUS
      <3> QED BY <1>1, <1>2, <3>1
    <2>3. \E kind \in Kinds : error' = [error EXCEPT ![p] = kind]
      BY <2>0
    <2> HIDE DEF ExportPage
    <2>4. TypeOK'
      <3>1. pc' \in [Commands -> Steps]
        BY <1>1, <1>5 DEF Steps
      <3>2. \A q \in Commands : pc'[q] = "exited" <=> code'[q] # "running"
        BY <1>1, <1>2, <1>3, <1>5
      <3>3. error' \in [Commands -> Kinds \cup {"none"}]
        BY <1>1, <2>3
      <3> QED BY <1>1, <1>3, <2>1, <2>2, <3>1, <3>2, <3>3
    <2>5. OnlyOf(p)
      BY <1>1, <1>3, <1>5, <2>1, <2>2, <2>3 DEF OnlyOf
    <2>6. ProcessInv(p)'
      <3> USE <1>1, <1>2, <1>3, <1>5, <2>1 DEF ProcessInv, HasFile
      <3>1. FileInv(p)'
        BY DEF FileInv
      <3>2. ErrorInv(p)'
        BY DEF ErrorInv, PipeBroke
      <3>3. ContentInv(p)'
        BY DEF ContentInv, Done
      <3>4. PathInv(p)'
        BY DEF PathInv, Done
      <3> QED BY <3>1, <3>2, <3>3, <3>4
    <2> QED BY <2>4, <2>5, <2>6, OneProcess
  <1> QED BY <1>4, <1>5

\* Other programs change the path, not the files.
LEMMA InterfereInv ==
  ASSUME CommandsInv, Interfere
  PROVE  CommandsInv'
PROOF
  <1> USE CommandsAssumption DEF Interfere, Files, files, Exporting, TypeOK
  <1>1. TypeOK /\ Foreign \in synced /\ \A p \in Commands : ProcessInv(p)
    BY DEF CommandsInv
  <1>2. TypeOK'
    BY <1>1
  <1>3. ASSUME NEW p \in Commands PROVE ProcessInv(p)'
    <2>1. ProcessInv(p) /\ interference' > 0 /\ losses' = losses /\ losses \in Nat
      BY <1>1
    <2> USE DEF ProcessInv, HasFile
    <2>2. FileInv(p)'
      BY <2>1 DEF FileInv
    <2>3. ErrorInv(p)'
      BY <2>1 DEF ErrorInv, PipeBroke
    <2>4. ContentInv(p)'
      BY <2>1 DEF ContentInv, Done, PipeBroke, FirstPages, IsComplete
    <2>5. PathInv(p)'
      BY <2>1 DEF PathInv, Done, PipeBroke, IsComplete
    <2> QED BY <2>2, <2>3, <2>4, <2>5
  <1> QED BY <1>1, <1>2, <1>3 DEF CommandsInv

\* What was synced survives; an export that has done its work was synced.
LEMMA PowerLossInv ==
  ASSUME CommandsInv, PowerLoss
  PROVE  CommandsInv'
PROOF
  <1> USE CommandsAssumption DEF Files, files, world, Exporting, CommandsInv, TypeOK
  <1>1. PICK kept \in [Commands -> 0 .. Pages] :
          content' = [f \in Files |->
            IF f \in synced \/ kept[f] >= Len(content[f]) THEN content[f]
            ELSE SubSeq(content[f], 1, kept[f])]
    BY DEF PowerLoss
  <1>2. /\ losses' = losses + 1 /\ losses < MaxLosses
        /\ torn' = torn \cap synced
        /\ UNCHANGED <<synced, seen, fd, error, warned, interference, kills>>
        /\ pc' = [q \in Commands |-> IF pc[q] = "start" THEN "start" ELSE "exited"]
        /\ code' = [q \in Commands |->
                       IF pc[q] \in {"start", "exited"} THEN code[q] ELSE "killed"]
    BY DEF PowerLoss
  <1>3. \/ entry' = entry /\ entry = Foreign
        \/ entry # Foreign /\ entry' \in {NoFile} \cup {fd[q] : q \in Commands}
    BY DEF PowerLoss
  <1>4. \A f \in synced : content'[f] = content[f]
    BY <1>1, CommandsAssumption
  <1>5. content' \in [Files -> Seq(ImagePages)]
    <2> SUFFICES ASSUME NEW f \in Files PROVE content'[f] \in Seq(ImagePages)
      BY <1>1
    <2>1. CASE f \in synced \/ kept[f] >= Len(content[f])
      BY <1>1, <2>1
    <2>2. CASE f \notin synced /\ ~(kept[f] >= Len(content[f]))
      <3>1. f \in Commands /\ kept[f] \in Nat /\ kept[f] < Len(content[f])
        BY <2>2
      <3>2. SubSeq(content[f], 1, kept[f]) \in Seq(ImagePages)
        BY <3>1, SubSeqProperties
      <3> QED BY <1>1, <2>2, <3>2
    <2> QED BY <2>1, <2>2
  <1>6. \A q \in Commands :
          /\ pc'[q] \in {"start", "exited"} /\ (pc'[q] = "start" => pc[q] = "start")
          /\ code'[q] \in Codes /\ (pc'[q] = "exited" <=> code'[q] # "running")
          /\ code'[q] = "success" => code[q] = "success"
    BY <1>2 DEF Codes
  <1>7. TypeOK'
    <2>1. entry' \in Files \cup {NoFile}
      BY <1>3
    <2>2. pc' \in [Commands -> Steps] /\ code' \in [Commands -> Codes]
      BY <1>2, <1>6 DEF Steps
    <2>3. losses' \in 0 .. MaxLosses
      BY <1>2
    <2>4. torn' \subseteq Commands /\ synced' \subseteq Files
      BY <1>2
    <2>5. UNCHANGED <<seen, fd, error, warned, interference, kills>>
      BY <1>2
    <2> QED BY <1>5, <1>6, <2>1, <2>2, <2>3, <2>4, <2>5
  <1>8. ASSUME NEW q \in Commands PROVE ProcessInv(q)'
    <2>1. /\ pc'[q] \in {"start", "exited"} /\ (pc'[q] = "start" => pc[q] = "start")
          /\ code'[q] = "success" => code[q] = "success"
          /\ fd'[q] = fd[q] /\ seen'[q] = seen[q] /\ error'[q] = error[q]
          /\ q \in torn' => q \in torn
          /\ q \in synced => content'[q] = content[q] /\ q \in synced'
          /\ entry' = q => fd[q] = q
          /\ entry' = Foreign => entry = Foreign
          /\ interference' = interference /\ losses' # 0 /\ interference' + losses' # 0
      <3>1. /\ entry' = q => fd[q] = q
            /\ entry' = Foreign => entry = Foreign
        BY <1>3 DEF ProcessInv, FileInv
      <3> QED BY <1>2, <1>4, <1>6, <3>1
    <2>2. ProcessInv(q)
      OBVIOUS
    <2> HIDE DEF CommandsInv, TypeOK
    <2>3. Done(q)' => Done(q)
      BY <2>1 DEF Done, PipeBroke
    <2>4. FileInv(q)'
      BY <2>1, <2>2 DEF ProcessInv, FileInv, HasFile
    <2>5. ErrorInv(q)'
      BY <2>1, <2>2 DEF ProcessInv, ErrorInv, PipeBroke
    <2>6. ContentInv(q)'
      BY <2>1, <2>2, <2>3 DEF ProcessInv, ContentInv, IsComplete
    <2>7. PathInv(q)'
      BY <2>1, <2>2 DEF ProcessInv, PathInv
    <2> QED BY <2>4, <2>5, <2>6, <2>7 DEF ProcessInv
  <1>9. Foreign \in synced'
    BY <1>2
  <1> QED BY <1>7, <1>8, <1>9

-----------------------------------------------------------------------------
(* The invariant, and what it says of the commands.                        *)

LEMMA NextInv == CommandsInv /\ [Next]_vars => CommandsInv'
PROOF
  <1> SUFFICES ASSUME CommandsInv, [Next]_vars PROVE CommandsInv'
    OBVIOUS
  <1>1. CASE \E p \in Commands : Step(p) \/ Kill(p)
    BY <1>1, OpenInv, VerifyPageInv, CreateFileInv, ExportPageInv, PagesDoneInv,
       SyncAllInv, CleanupFailedExportInv, ReportInv, KillInv DEF Step
  <1>2. CASE Interfere
    BY <1>2, InterfereInv
  <1>3. CASE PowerLoss
    BY <1>3, PowerLossInv
  <1>4. CASE UNCHANGED vars
    BY <1>4 DEF vars, CommandsInv, TypeOK, ProcessInv, FileInv, ErrorInv, ContentInv,
       PathInv, HasFile, Done, PipeBroke, IsComplete, FirstPages
  <1> QED BY <1>1, <1>2, <1>3, <1>4 DEF Next

\* The inductive invariant: whose file is whose, how much of the image it
\* has, whether it is durable, which errors there were, and where the path
\* leads while nobody else changes it.
THEOREM CommandsInvariant == Spec => []CommandsInv
  BY InitInv, NextInv, PTL DEF Spec

\* The types hold for any number of processes, pages and disturbances.
THEOREM CommandsTypeCorrectness == Spec => []TypeOK
PROOF
  <1>1. CommandsInv => TypeOK
    BY DEF CommandsInv
  <1> QED BY <1>1, CommandsInvariant, PTL

\* Exit code 0 is only given for complete and durable work, or after a broken
\* pipe, which a verify can only meet before its first page; however many
\* verifies and exports run, whatever happens at their path, and even after
\* losses of power.
THEOREM CompleteOnSuccess == Spec => []SuccessMeansComplete
  BY CompleteFromInv, CommandsInvariant, PTL

\* Any number of exports at one path: the one that does its work is found there.
THEOREM InPlaceOnSuccess == Spec => []SuccessIsInPlace
  BY InPlaceFromInv, CommandsInvariant, PTL

\* An export that ends by itself leaves its file at the path only if it is
\* whole, after saying so, or if the removal failed with a broken pipe.
THEOREM LeftoversAreReported == Spec => []NoSilentLeftovers
  BY LeftoversFromInv, CommandsInvariant, PTL

\* No step of an export writes a file that was at the path before it, foreign
\* or the leftover of another export, and none removes it while nobody else
\* changes the path.
THEOREM ForeignFilesUntouched == Spec => ExistingFilesUntouched
PROOF
  <1> USE CommandsAssumption DEF Untouched, files, Files, world, Exporting
  <1>1. ASSUME CommandsInv, NEW p \in Commands, Step(p) \/ Kill(p) PROVE Untouched
    <2> USE DEF Go, Exit
    <2>1. CASE Open(p) \/ VerifyPage(p) \/ PagesDone(p) \/ Report(p) \/ Kill(p) \/ SyncAll(p)
      BY <2>1 DEF Open, VerifyPage, PagesDone, Report, Kill, SyncAll
    <2>2. CASE CreateFile(p)
      BY <1>1, <2>2 DEF CreateFile, CreateNew, Created, CreateFailed, CommandsInv, TypeOK
    <2>3. CASE ExportPage(p)
      <3>1. fd[p] = p
        BY <1>1, <2>3 DEF ExportPage, CommandsInv, ProcessInv, FileInv, HasFile
      <3> QED BY <1>1, <2>3, <3>1 DEF ExportPage, CommandsInv, TypeOK
    <2>4. CASE CleanupFailedExport(p)
      <3>1. HasFile(p) /\ fd[p] = p
        BY <1>1, <2>4 DEF CleanupFailedExport, CommandsInv, ProcessInv, FileInv, HasFile
      <3>2. ~(interference' = 0 /\ entry = Foreign)
        BY <1>1, <2>4, <3>1 DEF CleanupFailedExport, CommandsInv, ProcessInv, PathInv
      <3>3. interference' + losses' = 0 => entry = p
        BY <1>1, <2>4, <3>1 DEF CleanupFailedExport, CommandsInv, ProcessInv, PathInv
      <3> QED BY <2>4, <3>2, <3>3 DEF CleanupFailedExport
    <2> QED BY <1>1, <2>1, <2>2, <2>3, <2>4 DEF Step
  <1>2. ASSUME CommandsInv, Interfere PROVE Untouched
    BY <1>2 DEF Interfere, CommandsInv, TypeOK
  <1>3. ASSUME CommandsInv, PowerLoss PROVE Untouched
    <2>1. content'[Foreign] = content[Foreign]
      BY <1>3 DEF PowerLoss, CommandsInv
    <2>2. entry = Foreign => entry' = Foreign
      BY <1>3 DEF PowerLoss
    <2>3. /\ interference \in Nat /\ losses \in Nat
          /\ losses' = losses + 1 /\ interference' = interference
      BY <1>3 DEF PowerLoss, CommandsInv, TypeOK
    <2>4. losses' # losses /\ interference' + losses' # 0
      BY <2>3
    <2> QED BY <2>1, <2>2, <2>4
  <1>4. CommandsInv /\ [Next]_vars => [Untouched]_vars
    BY <1>1, <1>2, <1>3 DEF Next
  <1> QED BY <1>4, CommandsInvariant, PTL DEF ExistingFilesUntouched, Spec

=============================================================================
