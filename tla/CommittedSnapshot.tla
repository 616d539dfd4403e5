-------------------------- MODULE CommittedSnapshot --------------------------
(***************************************************************************)
(* What veilite-turso promises of a database whose files a crash may have  *)
(* damaged, without frames, checksums or bounds: a commit is one step, a   *)
(* crash loses the latest commits and nothing else, and a snapshot is the  *)
(* image of the last commit that is left.  Its pages are handed to the     *)
(* callback in order, all of them or up to an error.                       *)
(***************************************************************************)
EXTENDS Integers, Sequences

CONSTANTS
  Images  \* what can be committed: non-empty sequences of pages

VARIABLES
  committed,  \* the images that can be recovered, the base image first
  opened,     \* the caller has opened the input
  admitted,   \* the caller has shown the database's key
  delivered,  \* the pages the callback received
  status      \* what the caller was told

vars == <<committed, opened, admitted, delivered, status>>

\* Errors before and after a caller is admitted.  None of them is about the
\* form of the files: a crash leaves none that a caller would have to be told.
Refusals == {"EmptyPassphrase", "AuthenticationFailed", "Source"}
Breaks == {"Turso", "Read", "PageLength"}

Snapshot == committed[Len(committed)]

Init ==
  /\ committed \in [1 .. 1 -> Images]
  /\ opened = FALSE /\ admitted = FALSE
  /\ delivered = << >> /\ status = "none"

\* A transaction commits.
Commit ==
  /\ ~opened
  /\ Len(committed') = Len(committed) + 1
  /\ SubSeq(committed', 1, Len(committed)) = committed
  /\ committed'[Len(committed) + 1] \in Images
  /\ UNCHANGED <<opened, admitted, delivered, status>>

\* A crash loses commits, never the base image.
Lose ==
  /\ ~opened
  /\ \E k \in 1 .. Len(committed) - 1 : committed' = SubSeq(committed, 1, k)
  /\ UNCHANGED <<opened, admitted, delivered, status>>

\* WalInput::open
Open ==
  /\ ~opened /\ opened' = TRUE
  /\ UNCHANGED <<committed, admitted, delivered, status>>

Running == opened /\ status = "none"

\* open_connection, with the database's key or without it.
Admit ==
  /\ Running /\ ~admitted /\ admitted' = TRUE
  /\ UNCHANGED <<committed, opened, delivered, status>>

Refuse ==
  /\ Running /\ ~admitted /\ status' \in Refusals
  /\ UNCHANGED <<committed, opened, admitted, delivered>>

\* visit_pages: the next page of the snapshot, which the callback may reject.
Deliver ==
  /\ Running /\ admitted
  /\ Len(delivered) < Len(Snapshot)
  /\ delivered' = Append(delivered, Snapshot[Len(delivered) + 1])
  /\ status' \in {"none", "Callback"}
  /\ UNCHANGED <<committed, opened, admitted>>

Succeed ==
  /\ Running /\ admitted
  /\ delivered = Snapshot /\ status' = "ok"
  /\ UNCHANGED <<committed, opened, admitted, delivered>>

Break ==
  /\ Running /\ admitted /\ status' \in Breaks
  /\ UNCHANGED <<committed, opened, admitted, delivered>>

Next == Commit \/ Lose \/ Open \/ Admit \/ Refuse \/ Deliver \/ Succeed \/ Break

Spec == Init /\ [][Next]_vars
=============================================================================
