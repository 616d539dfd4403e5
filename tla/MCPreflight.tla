----------------------------- MODULE MCPreflight -----------------------------
(***************************************************************************)
(* Small instances of Preflight for TLC: what each name may hold.          *)
(***************************************************************************)
EXTENDS Preflight

CONSTANTS target, other

Links(suffix, paths) == {Companion(path, suffix) : path \in paths}

\* Two paths, each with anything its names may be, loops included.
AnyEntry ==
  [n \in Names |->
    IF n[2] = "-journal" THEN {NoEntry, RegularFile} \cup Links(n[2], Paths \ {n[1]})
    ELSE {NoEntry, RegularFile, Directory} \cup Links(n[2], Paths)]

\* The supplied path is an alias that other programs move between two
\* databases, whose companions come and go.
MovingAlias ==
  [n \in Names |->
    IF n[1] = Supplied
    THEN CASE n[2] = "" -> {NoEntry, RegularFile} \cup Links("", {target, other})
           [] n[2] = "-wal" -> {NoEntry, RegularFile} \cup Links("-wal", {target})
           [] n[2] = "-journal" -> {NoEntry, RegularFile}
    ELSE IF n[2] = "" THEN {RegularFile, NoEntry}
    ELSE {NoEntry, RegularFile}]
=============================================================================
