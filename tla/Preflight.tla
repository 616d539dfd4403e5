------------------------------ MODULE Preflight ------------------------------
(***************************************************************************)
(* What veilite checks about names before it opens a database: journals,   *)
(* WALs and aliases, in snapshot.rs (WalInput::open, open_main) and in     *)
(* main.rs (open_reader, open_wal_snapshot, inspect).  Every probe of the  *)
(* directory is a step of its own, and other programs may change the       *)
(* directory between two of them, which the documentation forbids.         *)
(*                                                                         *)
(* A name is a database path with a suffix.  Its directory entry is a      *)
(* file, a directory, nothing, or a symbolic link, which is modelled by    *)
(* the name it leads to.  A call is a program: a sequence of probes.       *)
(***************************************************************************)
EXTENDS Integers, Sequences, FiniteSets

CONSTANTS
  Paths,      \* database paths
  Supplied,   \* the one the caller gives; links may lead to the others
  NonUtf8,    \* those that are not UTF-8
  Suffixes,   \* "", "-wal" and "-journal"
  MayHold,    \* MayHold[n]: the directory entries name n may have
  NoEntry, RegularFile, Directory,
  Calls,      \* the calls that are made
  MaxChanges  \* bound: changes of the directory during the call

\* The main file's own name.
NoSuffix == ""

\* companion, companion_path: the suffix is appended to the path.
Companion(path, suffix) == <<path, suffix>>

Names == Paths \X Suffixes
Entries == {NoEntry, RegularFile, Directory} \cup Names

ASSUME PreflightAssumption ==
  /\ Supplied \in Paths /\ NonUtf8 \subseteq Paths /\ IsFiniteSet(Paths)
  /\ Suffixes = {NoSuffix, "-wal", "-journal"}
  /\ {NoEntry, RegularFile, Directory} \cap Names = {}
  /\ NoEntry # RegularFile /\ NoEntry # Directory /\ RegularFile # Directory
  \* a link to a database leads to a database, a link to a WAL to a WAL
  /\ \A n \in Names : MayHold[n] \subseteq {e \in Entries : e \in Names => e[2] = n[2]}
  /\ Calls \subseteq {"open_readonly", "open_readonly_with_wal", "reader",
                      "wal_snapshot", "inspect"}
  /\ MaxChanges \in Nat

VARIABLES
  entry,     \* the directory
  call,      \* the call that runs
  at,        \* its next step in Program(call)
  resolved,  \* the canonical path of the main file, once known
  aliasWal,  \* where the WAL beside the supplied path leads, once known
  asked,     \* the user has been asked for the passphrase
  found,     \* inspect: suffixes reported present
  opened,    \* the database file that was opened, or NoEntry
  outcome,   \* "running", "done", or why the call was refused
  faulty,    \* a system call failed, or a size or a passphrase was wrong
  steady,    \* names whose entry has not changed since the call began
  changes    \* changes of the directory so far

vars == <<entry, call, at, resolved, aliasWal, asked, found, opened, outcome,
          faulty, steady, changes>>

environment == <<entry, steady, changes>>

-----------------------------------------------------------------------------
(* Names and links.                                                        *)

\* One link further.
Target(dir, n) == IF dir[n] \in Names THEN dir[n] ELSE n

\* Where name n leads in directory dir: links are followed until something else
\* is found; what is still a link after so many steps is a loop.
FollowIn(dir, n) ==
  LET walk[k \in Nat] == IF k = 0 THEN n ELSE Target(dir, walk[k - 1])
  IN walk[Cardinality(Paths)]

Follow(n) == FollowIn(entry, n)

HasEntry(n) == entry[n] # NoEntry

\* stat and canonicalize succeed.
Leads(n) == entry[Follow(n)] \in {RegularFile, Directory}

Where(base) == IF base = "supplied" THEN Supplied ELSE resolved

-----------------------------------------------------------------------------
(* The calls.                                                              *)

\* check_companions, check_companion_files
CheckCompanions(base) ==
  << <<"absent", base, "-wal">>, <<"absent", base, "-journal">> >>

RejectJournal(base) == << <<"absent", base, "-journal">> >>

\* Mutant: whatever WAL lies beside the supplied path, it is not looked at.
WalInputOpenAnyAlias ==
  RejectJournal("supplied") \o << <<"canonicalize">> >> \o RejectJournal("resolved")
  \o << <<"regular", "resolved", NoSuffix>>, <<"regular", "resolved", "-wal">>,
        <<"utf8">> >>

WalInputOpen ==
  RejectJournal("supplied") \o << <<"canonicalize">> >> \o RejectJournal("resolved")
  \o << <<"regular", "resolved", NoSuffix>>, <<"regular", "resolved", "-wal">>,
        <<"alias_exists">>, <<"alias_leads">>, <<"alias_agrees">>, <<"utf8">> >>

OpenConnection == << <<"utf8">>, <<"open">> >>

OpenMain ==
  CheckCompanions("supplied") \o << <<"canonicalize">> >>
  \o CheckCompanions("resolved") \o OpenConnection

OpenReader ==
  CheckCompanions("supplied") \o << <<"canonicalize">> >>
  \o CheckCompanions("resolved") \o << <<"ask">>, <<"open">> >>

OpenWalSnapshot == WalInputOpen \o << <<"ask">> >> \o OpenConnection

\* Mutant: only the names beside the supplied path are looked at.
PresenceSupplied(suffix) == << <<"present", "supplied", suffix>> >>

Presence(suffix) ==
  << <<"present", "supplied", suffix>>, <<"present", "resolved", suffix>> >>

Inspect ==
  << <<"regular", "supplied", NoSuffix>>, <<"canonicalize">> >>
  \o Presence("-wal") \o Presence("-journal")

Program(c) ==
  CASE c = "open_readonly" -> OpenMain
    [] c = "open_readonly_with_wal" -> WalInputOpen \o OpenConnection
    [] c = "reader" -> OpenReader
    [] c = "wal_snapshot" -> OpenWalSnapshot
    [] c = "inspect" -> Inspect

Init ==
  /\ entry \in {e \in [Names -> UNION {MayHold[n] : n \in Names}] :
                  \A n \in Names : e[n] \in MayHold[n]}
  /\ call \in Calls
  /\ at = 1
  /\ resolved = Supplied /\ aliasWal = Companion(Supplied, "-wal")
  /\ asked = FALSE /\ found = {} /\ opened = NoEntry
  /\ outcome = "running" /\ faulty = FALSE
  /\ steady = Names /\ changes = 0

-----------------------------------------------------------------------------
(* Steps of a call.                                                        *)

Step == Program(call)[at]

Ready(do) == outcome = "running" /\ Step[1] = do

GoTo(i) ==
  /\ at' = i
  /\ outcome' = IF i > Len(Program(call)) THEN "done" ELSE "running"

Refuse(why) == outcome' = why /\ UNCHANGED at

\* The name a probe is about.
Probed == Companion(Where(Step[2]), Step[3])

\* Mutant: metadata, which follows links, in place of symlink_metadata.
ExistsFollowed(n) == Leads(n)

\* symlink_metadata: a dangling link is an entry too.
Exists(n) == HasEntry(n)

\* reject_journal, check_companions, companion_exists
Absent ==
  /\ Ready("absent")
  /\ IF Exists(Probed) THEN Refuse("Companion") ELSE GoTo(at + 1)
  /\ UNCHANGED <<resolved, aliasWal, asked, found, opened, faulty>>

Canonicalize ==
  /\ Ready("canonicalize")
  /\ LET main == Companion(Supplied, NoSuffix) IN
       IF Leads(main) THEN resolved' = Follow(main)[1] /\ GoTo(at + 1)
       ELSE Refuse("Io") /\ UNCHANGED resolved
  /\ UNCHANGED <<aliasWal, asked, found, opened, faulty>>

\* metadata(..).is_file()
Regular ==
  /\ Ready("regular")
  /\ IF ~Leads(Probed) THEN Refuse("Io")
     ELSE IF entry[Follow(Probed)] # RegularFile THEN Refuse("WalInput")
     ELSE GoTo(at + 1)
  /\ UNCHANGED <<resolved, aliasWal, asked, found, opened, faulty>>

\* The three probes of the WAL beside the supplied path.
AliasExists ==
  /\ Ready("alias_exists")
  /\ GoTo(IF Exists(Companion(Supplied, "-wal")) THEN at + 1 ELSE at + 3)
  /\ UNCHANGED <<resolved, aliasWal, asked, found, opened, faulty>>

AliasLeads ==
  /\ Ready("alias_leads")
  /\ LET alias == Companion(Supplied, "-wal") IN
       IF Leads(alias) THEN aliasWal' = Follow(alias) /\ GoTo(at + 1)
       ELSE Refuse("Io") /\ UNCHANGED aliasWal
  /\ UNCHANGED <<resolved, asked, found, opened, faulty>>

AliasAgrees ==
  /\ Ready("alias_agrees")
  /\ LET wal == Companion(resolved, "-wal") IN
       IF ~Leads(wal) THEN Refuse("Io")
       ELSE IF Follow(wal) # aliasWal THEN Refuse("WalInput")
       ELSE GoTo(at + 1)
  /\ UNCHANGED <<resolved, aliasWal, asked, found, opened, faulty>>

Utf8 ==
  /\ Ready("utf8")
  /\ IF resolved \in NonUtf8 THEN Refuse("NonUtf8Path") ELSE GoTo(at + 1)
  /\ UNCHANGED <<resolved, aliasWal, asked, found, opened, faulty>>

\* read_passphrase
Ask ==
  /\ Ready("ask")
  /\ asked' = TRUE /\ GoTo(at + 1)
  /\ UNCHANGED <<resolved, aliasWal, found, opened, faulty>>

\* Mutant: the path as supplied is opened, not the one that was checked.
DatabasePathSupplied == Companion(Supplied, NoSuffix)

DatabasePath == Companion(resolved, NoSuffix)

\* A directory opens, but cannot be read.
OpenDatabase ==
  /\ Ready("open")
  /\ IF Leads(DatabasePath) /\ entry[Follow(DatabasePath)] = RegularFile
     THEN opened' = Follow(DatabasePath) /\ GoTo(at + 1)
     ELSE Refuse("Io") /\ UNCHANGED opened
  /\ UNCHANGED <<resolved, aliasWal, asked, found, faulty>>

\* Mutant: whatever follows a name that was found is taken for its second probe.
PresentSkips ==
  /\ Ready("present")
  /\ IF Exists(Probed) THEN found' = found \cup {Step[3]} /\ GoTo(at + 2)
     ELSE GoTo(at + 1) /\ UNCHANGED found
  /\ UNCHANGED <<resolved, aliasWal, asked, opened, faulty>>

\* presence probes the second name only if the first has no entry.
Present ==
  /\ Ready("present")
  /\ found' = IF Step[3] \notin found /\ Exists(Probed) THEN found \cup {Step[3]}
              ELSE found
  /\ GoTo(at + 1)
  /\ UNCHANGED <<resolved, aliasWal, asked, opened, faulty>>

\* Any probe may fail; so may what is checked but not modelled here: sizes,
\* empty passphrases, output.
Fail ==
  /\ outcome = "running"
  /\ faulty' = TRUE /\ Refuse("Io")
  /\ UNCHANGED <<resolved, aliasWal, asked, found, opened>>

Proceed ==
  /\ \/ Absent \/ Canonicalize \/ Regular
     \/ AliasExists \/ AliasLeads \/ AliasAgrees
     \/ Utf8 \/ Ask \/ OpenDatabase \/ Present \/ Fail
  /\ UNCHANGED <<call, environment>>

\* Another program creates, removes or replaces an entry.
Change ==
  /\ outcome = "running" /\ changes < MaxChanges
  /\ changes' = changes + 1
  /\ \E n \in Names : \E e \in MayHold[n] \ {entry[n]} :
       entry' = [entry EXCEPT ![n] = e] /\ steady' = steady \ {n}
  /\ UNCHANGED <<call, at, resolved, aliasWal, asked, found, opened, outcome, faulty>>

Next == Proceed \/ Change

Spec == Init /\ [][Next]_vars

-----------------------------------------------------------------------------
(* Properties.                                                             *)

TypeOK ==
  /\ entry \in [Names -> Entries]
  /\ call \in Calls
  /\ at \in 1 .. Len(Program(call)) + 1
  /\ resolved \in Paths /\ aliasWal \in Names
  /\ asked \in BOOLEAN /\ faulty \in BOOLEAN
  /\ found \subseteq Suffixes
  /\ opened \in Names \cup {NoEntry}
  /\ outcome \in {"running", "done", "Companion", "Io", "WalInput", "NonUtf8Path"}
  /\ steady \subseteq Names
  /\ changes \in 0 .. MaxChanges
  /\ outcome = "running" => at <= Len(Program(call))

MainCalls == {"open_readonly", "reader"}
WalCalls == {"open_readonly_with_wal", "wal_snapshot"}

Forbidden == IF call \in MainCalls THEN {"-wal", "-journal"}
             ELSE IF call \in WalCalls THEN {"-journal"} ELSE {}

\* What the documentation of the calls accepts, as a state of the directory.
Documented ==
  LET main == Follow(Companion(Supplied, NoSuffix))
      beside == Companion(Supplied, "-wal")
      wal == Companion(main[1], "-wal")
  IN /\ entry[main] = RegularFile
     /\ \A suffix \in Forbidden :
          ~HasEntry(Companion(Supplied, suffix)) /\ ~HasEntry(Companion(main[1], suffix))
     /\ call \in WalCalls =>
          /\ entry[Follow(wal)] = RegularFile
          /\ HasEntry(beside) => Follow(beside) = Follow(wal)
     /\ call \in WalCalls \cup {"open_readonly"} => main[1] \notin NonUtf8

\* In a directory that does not change, a call goes through exactly for the
\* inputs the documentation accepts: regular files, no journal beside either
\* path, dangling links included, and a WAL that is required, or refused, or
\* the same beside the alias.
AcceptsTheDocumented ==
  changes = 0 /\ outcome # "running" /\ ~faulty =>
    (outcome = "done" <=> Documented)

Throughout(n) == n \in steady /\ HasEntry(n)
Never(n) == n \in steady /\ ~HasEntry(n)

\* The canonical main file was not itself replaced.
MainSteady == Companion(resolved, NoSuffix) \in steady

Committed == asked \/ opened # NoEntry

\* A companion that forbids the call and was there all the time, beside the
\* path given or beside the database that is opened, refuses it before anyone
\* is asked for a passphrase, however aliases and other entries change.
StandingCompanionsRefuse ==
  Committed /\ MainSteady =>
    \A suffix \in Forbidden :
      /\ ~Throughout(Companion(Supplied, suffix))
      /\ ~Throughout(Companion(resolved, suffix))
      /\ opened # NoEntry => ~Throughout(Companion(opened[1], suffix))

WalsSteady == \A path \in Paths : Companion(path, "-wal") \in steady

\* A call for a WAL never goes on without one, and a WAL beside the alias that
\* is another one refuses it: no main-only open in place of a WAL, and no
\* choice between two WALs.
WalIsRequiredAndUnambiguous ==
  Committed /\ call \in WalCalls =>
    /\ ~Never(Companion(resolved, "-wal"))
    /\ WalsSteady =>
         \/ ~HasEntry(Companion(Supplied, "-wal"))
         \/ Follow(Companion(Supplied, "-wal")) = Follow(Companion(resolved, "-wal"))

\* inspect overlooks no companion that was there all the time, beside either
\* path, and reports none that never was.
InspectSeesStandingCompanions ==
  call = "inspect" /\ outcome = "done" =>
    \A suffix \in {"-wal", "-journal"} :
      LET beside == {Companion(Supplied, suffix), Companion(resolved, suffix)}
      IN IF suffix \in found THEN \E n \in beside : ~Never(n)
         ELSE \A n \in beside : ~Throughout(n)

-----------------------------------------------------------------------------
(* The inductive invariant behind the properties.                          *)

Beside == Companion(Supplied, "-wal")
Main == Companion(resolved, NoSuffix)
Wal == Companion(resolved, "-wal")

\* The steps of a kind that the call has behind it, and the next one.
Passed(do) == {i \in 1 .. at - 1 : Program(call)[i][1] = do}
NextIs(do) == at <= Len(Program(call)) /\ Step[1] = do

ProbedAt(i) == Companion(Where(Program(call)[i][2]), Program(call)[i][3])

\* What is known, once which step is behind.
OrderInv ==
  /\ \A n \in Names : entry[n] \in MayHold[n]
  /\ outcome = "done" => at = Len(Program(call)) + 1
  /\ Passed("canonicalize") = {} => resolved = Supplied
  /\ asked => Passed("ask") # {}
  /\ opened # NoEntry => Passed("open") # {}
  /\ found # {} => Passed("present") # {}

\* The canonical main file is no link, unless it was replaced.
MainInv ==
  Passed("canonicalize") # {} /\ MainSteady =>
    /\ entry[Main] \in {RegularFile, Directory}
    /\ opened # NoEntry => opened = Main

\* What the probes that went well have seen.
CompanionInv ==
  /\ \A i \in Passed("absent") : ~Throughout(ProbedAt(i))
  /\ \A i \in Passed("regular") : ~Never(ProbedAt(i))
  /\ \A i \in Passed("present") :
       Program(call)[i][3] \in found \/ ~Throughout(ProbedAt(i))
  /\ \A suffix \in found :
       ~Never(Companion(Supplied, suffix)) \/ ~Never(Companion(resolved, suffix))

\* The WAL beside the supplied path, as long as no WAL changes.
AliasInv ==
  WalsSteady =>
    /\ NextIs("alias_agrees") => aliasWal = Follow(Beside)
    /\ Passed("alias_agrees") # {} =>
         ~HasEntry(Beside) \/ Follow(Beside) = Follow(Wal)

\* What step i has found, in a directory that does not change.
Holds(i) ==
  LET do == Program(call)[i][1] IN
  /\ do = "absent" => ~HasEntry(ProbedAt(i))
  /\ do = "canonicalize" =>
       Leads(Companion(Supplied, NoSuffix)) /\ Main = Follow(Companion(Supplied, NoSuffix))
  /\ do = "regular" => entry[Follow(ProbedAt(i))] = RegularFile
  /\ do = "alias_agrees" => ~HasEntry(Beside) \/ Follow(Beside) = Follow(Wal)
  /\ do = "utf8" => resolved \notin NonUtf8
  /\ do = "open" => entry[Follow(Main)] = RegularFile

\* A directory that does not change is refused only for what is not documented.
AcceptInv ==
  changes = 0 /\ ~faulty =>
    /\ outcome \notin {"running", "done"} => ~Documented
    /\ \A i \in 1 .. at - 1 : Holds(i)
    /\ NextIs("alias_leads") \/ NextIs("alias_agrees") => HasEntry(Beside)
    /\ NextIs("alias_agrees") => aliasWal = Follow(Beside)

PreflightInv ==
  TypeOK /\ OrderInv /\ MainInv /\ CompanionInv /\ AliasInv /\ AcceptInv
=============================================================================
