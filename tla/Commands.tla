------------------------------ MODULE Commands ------------------------------
(***************************************************************************)
(* veilite-cli/src/main.rs: the processes that verify a database or export *)
(* it to a plaintext file, several of them at one output path, with        *)
(* whatever else happens at that path.                                     *)
(*                                                                         *)
(* Opening the input is one step here that succeeds or fails, and so is    *)
(* reading a page of it (SqlCipherReader, WalSnapshot).  A file is named   *)
(* by the process that created it; the path leads to one file at a time,   *)
(* while a process writes to the file it opened, wherever the path leads.  *)
(***************************************************************************)
EXTENDS Integers, Sequences

CONSTANTS
  Commands,         \* the processes
  Verifying,        \* those that run verify; the others run export
  Wal,              \* those given --wal
  Pages,            \* pages of the input, of either image
  SourceJournal,    \* journal mode in the header of page 1 of the input
  Foreign,          \* a file none of the processes created
  NoFile,           \* the path leads nowhere / a process has no file
  MaxInterference,  \* bound: changes other programs make at the path
  MaxKills,         \* bound: processes killed
  MaxLosses         \* bound: losses of power

ASSUME CommandsAssumption ==
  /\ Verifying \subseteq Commands /\ Wal \subseteq Commands
  /\ Pages \in Nat \ {0}
  /\ SourceJournal \in {"legacy", "wal"}
  /\ Foreign \notin Commands /\ NoFile \notin Commands \cup {Foreign}
  /\ MaxInterference \in Nat /\ MaxKills \in Nat /\ MaxLosses \in Nat

VARIABLES
  entry,         \* the file the output path leads to
  content,       \* for each file its whole pages
  torn,          \* files in which a part of a page follows
  synced,        \* files that are durable
  pc,            \* where each process is: see Steps
  seen,          \* pages each process has read and authenticated
  fd,            \* the file each process created
  error,         \* kind of the error that ended the work of each process
  code,          \* how each process ended
  warned,        \* processes that said a plaintext file may be left
  interference,  \* changes other programs have made at the path
  kills,         \* processes killed
  losses         \* losses of power

vars == <<entry, content, torn, synced, pc, seen, fd, error, code, warned,
          interference, kills, losses>>

files == <<content, torn, synced>>

Files == Commands \cup {Foreign}
Exporting == Commands \ Verifying

Steps == {"start", "opened", "pages", "sync", "cleanup", "report", "exited"}
Codes == {"running", "success", "failure", "killed"}

\* An error is an io::Error of kind BrokenPipe, whatever it is about, or not.
Kinds == {"BrokenPipe", "other"}

\* journal stands for header bytes 18 and 19, which only page 1 has.
ImagePages == [no : 1 .. Pages, journal : {"none", "legacy", "wal"}]

Init ==
  /\ entry \in {NoFile, Foreign}
  /\ content = [f \in Files |-> << >>]
  /\ torn = {} /\ synced = {Foreign}
  /\ pc = [p \in Commands |-> "start"]
  /\ seen = [p \in Commands |-> 0]
  /\ fd = [p \in Commands |-> NoFile]
  /\ error = [p \in Commands |-> "none"]
  /\ code = [p \in Commands |-> "running"]
  /\ warned = {}
  /\ interference = 0 /\ kills = 0 /\ losses = 0

Go(p, step) == pc' = [pc EXCEPT ![p] = step]

Exit(p, result) == Go(p, "exited") /\ code' = [code EXCEPT ![p] = result]

\* main says nothing of a broken pipe and exits with 0, is_broken_pipe.
ExitCode(kind) == IF kind = "BrokenPipe" THEN "success" ELSE "failure"

\* The work ends with an error, which is kept until main sees it.
FailsWith(p, kind) == error' = [error EXCEPT ![p] = kind]

\* run returns an error of the work.
ExitWith(p, kind) == FailsWith(p, kind) /\ Exit(p, ExitCode(kind))

world == <<interference, kills, losses>>

-----------------------------------------------------------------------------
(* Reading.                                                                *)

\* open_reader or open_wal_snapshot: files, or the one of the passphrase, may
\* fail with any kind.
Open(p) ==
  /\ pc[p] = "start"
  /\ \/ /\ Go(p, IF p \in Verifying THEN "pages" ELSE "opened")
        /\ UNCHANGED <<error, code>>
     \/ \E kind \in Kinds : ExitWith(p, kind)
  /\ UNCHANGED <<entry, files, seen, fd, warned, world>>

\* Mutant: the loop runs over 0-based page numbers.
LastPageZeroBased == Pages - 1

\* Mutant: the loop is left one page too late.
LastPageAfterEnd == Pages + 1

LastPage == Pages

\* The errors of read_page_into and visit_pages wrap those of the files: main
\* sees no io::Error in them.
PageErrorKind == "other"

\* verify reads every page and writes none.
VerifyPage(p) ==
  /\ pc[p] = "pages" /\ p \in Verifying
  /\ seen[p] < LastPage
  /\ \/ seen' = [seen EXCEPT ![p] = @ + 1] /\ UNCHANGED <<pc, error, code>>
     \/ ExitWith(p, PageErrorKind) /\ UNCHANGED seen
  /\ UNCHANGED <<entry, files, fd, warned, world>>

-----------------------------------------------------------------------------
(* write_plaintext_file.                                                   *)

Created(p) ==
  /\ entry = NoFile
  /\ entry' = p
  /\ content' = [content EXCEPT ![p] = << >>]
  /\ fd' = [fd EXCEPT ![p] = p]
  /\ UNCHANGED <<torn, synced>>

\* Mutant: create(true).truncate(true) in place of create_new(true).
CreateTruncating(p) ==
  \/ Created(p)
  \/ /\ entry # NoFile
     /\ content' = [content EXCEPT ![entry] = << >>]
     /\ fd' = [fd EXCEPT ![p] = entry]
     /\ UNCHANGED <<entry, torn, synced>>

\* create_new is atomic: it makes the directory entry or finds one.
CreateNew(p) == Created(p)

\* Mutant: a failure to create the file is cleaned up after like any other.
CreateFailedCleaned(p) ==
  Go(p, "cleanup") /\ FailsWith(p, "other") /\ UNCHANGED code

\* path_io_error keeps the kind.
CreateFailed(p) == \E kind \in Kinds : ExitWith(p, kind)

CreateFile(p) ==
  /\ pc[p] = "opened"
  /\ \/ CreateNew(p) /\ Go(p, "pages") /\ UNCHANGED <<error, code>>
     \/ CreateFailed(p) /\ UNCHANGED <<entry, files, fd>>
  /\ UNCHANGED <<seen, warned, world>>

\* Mutant: a merged image keeps the WAL mode of its header.
ExportedJournalKept(p) == SourceJournal

\* write_wal_database patches its copy of page 1.
ExportedJournal(p) == IF p \in Wal THEN "legacy" ELSE SourceJournal

ExportedPage(p, n) ==
  [no |-> n, journal |-> IF n = 1 THEN ExportedJournal(p) ELSE "none"]

\* visit_pages wraps the error of its callback, write_decrypted_database
\* returns that of write_all as it is.
WriteErrorKinds(p) == IF p \in Wal THEN {PageErrorKind} ELSE Kinds

\* The next page is read, then written; a failed write may leave a part of it.
ExportPage(p) ==
  /\ pc[p] = "pages" /\ p \in Exporting
  /\ seen[p] < LastPage
  /\ \/ /\ seen' = [seen EXCEPT ![p] = @ + 1]
        /\ content' = [content EXCEPT ![fd[p]] =
                         Append(@, ExportedPage(p, seen[p] + 1))]
        /\ UNCHANGED <<pc, torn, error>>
     \/ /\ Go(p, "cleanup") /\ FailsWith(p, PageErrorKind)
        /\ UNCHANGED <<seen, content, torn>>
     \/ /\ seen' = [seen EXCEPT ![p] = @ + 1]
        /\ \E part \in SUBSET {fd[p]} : torn' = torn \cup part
        /\ Go(p, "cleanup")
        /\ \E kind \in WriteErrorKinds(p) : FailsWith(p, kind)
        /\ UNCHANGED content
  /\ UNCHANGED <<entry, synced, fd, code, warned, world>>

PagesDone(p) ==
  /\ pc[p] = "pages" /\ seen[p] >= LastPage
  /\ Go(p, IF p \in Verifying THEN "report" ELSE "sync")
  /\ UNCHANGED <<entry, files, seen, fd, error, code, warned, world>>

\* Mutant: the file is closed without sync_all.
SyncedNot(p) == UNCHANGED synced

Synced(p) == synced' = synced \cup {fd[p]}

SyncAll(p) ==
  /\ pc[p] = "sync"
  /\ \/ Synced(p) /\ Go(p, "report") /\ UNCHANGED error
     \/ /\ Go(p, "cleanup") /\ \E kind \in Kinds : FailsWith(p, kind)
        /\ UNCHANGED synced
  /\ UNCHANGED <<entry, content, torn, seen, fd, code, warned, world>>

\* Mutant: a file that cannot be removed is not mentioned.
WarnNot(p) == UNCHANGED warned

Warn(p) == warned' = warned \cup {p}

\* remove_file removes whatever the path leads to by now.  If there is nothing
\* the error of the export stands.
Removed(p) ==
  /\ entry' = NoFile
  /\ ExitWith(p, error[p])
  /\ UNCHANGED warned

\* The warning is an error of the removal's kind, and printed unless that is a
\* broken pipe.
NotRemoved(p) ==
  /\ \E kind \in Kinds :
       /\ ExitWith(p, kind)
       /\ IF kind = "BrokenPipe" THEN UNCHANGED warned ELSE Warn(p)
  /\ UNCHANGED entry

CleanupFailedExport(p) ==
  /\ pc[p] = "cleanup"
  /\ Removed(p) \/ NotRemoved(p)
  /\ UNCHANGED <<files, seen, fd, world>>

-----------------------------------------------------------------------------
(* main.                                                                   *)

\* The summary is written to stdout after the work is done; its errors are
\* not errors of the work.
Report(p) ==
  /\ pc[p] = "report"
  /\ Exit(p, "success") \/ \E kind \in Kinds : Exit(p, ExitCode(kind))
  /\ UNCHANGED <<entry, files, seen, fd, error, warned, world>>

Step(p) ==
  \/ Open(p)
  \/ VerifyPage(p)
  \/ CreateFile(p)
  \/ ExportPage(p)
  \/ PagesDone(p)
  \/ SyncAll(p)
  \/ CleanupFailedExport(p)
  \/ Report(p)

-----------------------------------------------------------------------------
(* Around them.                                                            *)

Kill(p) ==
  /\ kills < MaxKills
  /\ pc[p] \notin {"start", "exited"}
  /\ kills' = kills + 1
  /\ Exit(p, "killed")
  /\ UNCHANGED <<entry, files, seen, fd, error, warned, interference, losses>>

\* Another program removes the file at the path, or puts its own there.
Interfere ==
  /\ interference < MaxInterference
  /\ interference' = interference + 1
  /\ \E file \in {NoFile, Foreign} : file # entry /\ entry' = file
  /\ UNCHANGED <<files, pc, seen, fd, error, code, warned, kills, losses>>

\* Files keep what was synced and some prefix of what was not.  Nothing syncs
\* the directory, so entries made or removed may be found undone.
PowerLoss ==
  /\ losses < MaxLosses
  /\ losses' = losses + 1
  /\ \E kept \in [Commands -> 0 .. Pages] :
       content' = [f \in Files |->
         IF f \in synced \/ kept[f] >= Len(content[f]) THEN content[f]
         ELSE SubSeq(content[f], 1, kept[f])]
  /\ torn' = torn \cap synced
  /\ IF entry = Foreign THEN UNCHANGED entry
     ELSE \E file \in {NoFile} \cup {fd[p] : p \in Commands} : entry' = file
  /\ pc' = [p \in Commands |-> IF pc[p] = "start" THEN "start" ELSE "exited"]
  /\ code' = [p \in Commands |->
                IF pc[p] \in {"start", "exited"} THEN code[p] ELSE "killed"]
  /\ UNCHANGED <<synced, seen, fd, error, warned, interference, kills>>

Next ==
  \/ \E p \in Commands : Step(p) \/ Kill(p)
  \/ Interfere
  \/ PowerLoss

Spec == Init /\ [][Next]_vars

-----------------------------------------------------------------------------
(* Properties.                                                             *)

\* The plaintext image export owes its caller: every page, in order, and for
\* a merged image a header that does not ask for a WAL.
Image(p) ==
  [n \in 1 .. Pages |->
     [no |-> n, journal |-> IF n > 1 THEN "none"
                            ELSE IF p \in Wal THEN "legacy" ELSE SourceJournal]]

IsComplete(p) ==
  /\ fd[p] = p
  /\ content[p] = Image(p) /\ p \notin torn

TypeOK ==
  /\ entry \in Files \cup {NoFile}
  /\ content \in [Files -> Seq(ImagePages)]
  /\ torn \subseteq Commands /\ synced \subseteq Files
  /\ pc \in [Commands -> Steps]
  /\ seen \in [Commands -> 0 .. Pages]
  /\ fd \in [Commands -> Commands \cup {NoFile}]
  /\ error \in [Commands -> Kinds \cup {"none"}]
  /\ code \in [Commands -> Codes]
  /\ warned \subseteq Exporting
  /\ interference \in 0 .. MaxInterference
  /\ kills \in 0 .. MaxKills /\ losses \in 0 .. MaxLosses
  /\ \A p \in Commands : pc[p] = "exited" <=> code[p] # "running"

\* A broken pipe ended the work of a process, or the removal after it: main
\* exits with 0 as if only the summary could not be written.
PipeBroke(p) == error[p] = "BrokenPipe"

\* Exit code 0 means the work was done or a broken pipe ended it: verify, once
\* it has opened its input, authenticated every page; the file export created
\* has the whole image, whatever other processes and programs did at the path,
\* and even after a loss of power.
SuccessMeansComplete ==
  \A p \in Commands :
    code[p] = "success" =>
      IF p \in Verifying THEN seen[p] = Pages \/ (PipeBroke(p) /\ seen[p] = 0)
      ELSE IsComplete(p) \/ PipeBroke(p)

\* While nobody else touches the path, an export that did its work and exits
\* with 0 is found there: another export at the same path neither replaces nor
\* removes it.
SuccessIsInPlace ==
  interference + losses = 0 =>
    \A p \in Exporting : code[p] = "success" /\ ~PipeBroke(p) => entry = p

\* Steps leave the files alone that were there before an export.
Untouched ==
  /\ content'[Foreign] = content[Foreign]
  /\ interference' = 0 /\ entry = Foreign => entry' = Foreign
  /\ \A p \in Commands :
       pc[p] = "exited" =>
         /\ losses' = losses => content'[p] = content[p]
         /\ interference' + losses' = 0 /\ entry = p => entry' = p

\* A file that another program put at the path, or an export that has ended or
\* was killed, is never written by an export, and stays at the path while
\* nobody else changes the path.
ExistingFilesUntouched == [][Untouched]_vars

\* An export that ended by itself has removed what it wrote or said that it
\* could not, unless the file is whole or the removal failed with a broken pipe.
NoSilentLeftovers ==
  losses = 0 =>
    \A p \in Exporting :
      code[p] \in {"success", "failure"} /\ entry = p =>
        IsComplete(p) \/ p \in warned \/ PipeBroke(p)

\* What the README says of WAL mode: I/O errors fail the operation.  Here, an
\* export whose file failed after it was created does not exit with 0.
IoErrorsFail ==
  \A p \in Wal \cap Exporting :
    fd[p] # NoFile /\ error[p] # "none" => code[p] # "success"

-----------------------------------------------------------------------------
(* The inductive invariant behind the properties.                          *)

\* The export has a file and has not ended.
HasFile(p) == p \in Exporting /\ pc[p] \in {"pages", "sync", "cleanup", "report"}

\* The process has ended with 0, and not with a broken pipe.
Done(p) == code[p] = "success" /\ ~PipeBroke(p)

\* Whose file is whose, and where a process can be.
FileInv(p) ==
  /\ fd[p] \in {p, NoFile}
  /\ p \in Verifying => fd[p] = NoFile /\ pc[p] \notin {"opened", "sync", "cleanup"}
  /\ pc[p] \in {"start", "opened"} => fd[p] = NoFile /\ seen[p] = 0
  /\ HasFile(p) => fd[p] = p
  /\ entry = p \/ p \in torn => fd[p] = p

\* Who has met an error, and of which kind.
ErrorInv(p) ==
  /\ pc[p] \in {"start", "opened", "pages", "sync", "report"} => error[p] = "none"
  /\ p \in Verifying /\ PipeBroke(p) => seen[p] = 0

\* The first k pages of the image.
FirstPages(p, k) == [n \in 1 .. k |-> ExportedPage(p, n)]

\* The file grows with the pages read; from sync on it is whole, from the
\* report on it is also durable.
ContentInv(p) ==
  /\ p \in Exporting =>
       /\ pc[p] = "pages" =>
            content[p] = FirstPages(p, seen[p]) /\ p \notin torn
       /\ pc[p] \in {"sync", "report"} \/ Done(p) => IsComplete(p)
       /\ pc[p] = "report" \/ Done(p) => p \in synced
  /\ p \in Verifying /\ (pc[p] = "report" \/ Done(p)) => seen[p] = Pages

\* Where the path leads while nobody else changes it, and to what.
PathInv(p) ==
  /\ interference = 0 /\ entry = Foreign => fd[p] = NoFile
  /\ interference + losses = 0 /\ (HasFile(p) \/ (p \in Exporting /\ Done(p))) =>
       entry = p
  /\ losses = 0 /\ code[p] \in {"success", "failure"} /\ entry = p =>
       IsComplete(p) \/ p \in warned \/ PipeBroke(p)

ProcessInv(p) == FileInv(p) /\ ErrorInv(p) /\ ContentInv(p) /\ PathInv(p)

CommandsInv ==
  /\ TypeOK
  /\ Foreign \in synced
  /\ \A p \in Commands : ProcessInv(p)
=============================================================================
