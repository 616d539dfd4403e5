------------------------------ MODULE Registry ------------------------------
(***************************************************************************)
(* SQL connections of several callers in one process: open_connection in   *)
(* snapshot.rs and the identity of a codec in codec.rs, above the registry *)
(* of Turso, which keeps one database, with its schema and its index of    *)
(* the WAL, for all connections to a file.                                 *)
(*                                                                         *)
(* The checks before it are modelled in Preflight, the pages that are read *)
(* after it in WalSnapshot.  A caller's key is right if it authenticates   *)
(* page 1; the digest of a codec's identity has no collisions.             *)
(***************************************************************************)
EXTENDS Integers, FiniteSets

CONSTANTS
  Callers,
  Paths,           \* canonical paths of main files
  Files,           \* files
  FileAt,          \* the file at each path: several paths are hard links
  Configs,         \* cipher configurations
  Passphrases,
  Salts,
  Versions,        \* contents of databases of one key
  NoPath, None,
  MaxReplacements  \* bound: files replaced by other databases

ASSUME RegistryAssumption ==
  /\ FileAt \in [Paths -> Files]
  /\ Paths \cap Files = {}
  /\ NoPath \notin Paths
  /\ MaxReplacements \in Nat

Keys == [config : Configs, passphrase : Passphrases, salt : Salts]

\* A database file: the keys its pages are for, and what they hold.
Contents == [keys : Keys, version : Versions]

Requests == [path : Paths, wal : BOOLEAN, config : Configs, passphrase : Passphrases]

Steps == {"idle", "authenticate", "open", "connect", "connected"}

Results == {"Decrypt", "Io", "IdentityMismatch", "Turso", "Connected"}

VARIABLES
  content,      \* the database in each file
  byFile,       \* the platform's registry tells files apart, else paths
  database,     \* the databases of the registry
  users,        \* the callers that own each of them
  pc,           \* where each caller is
  request,      \* what it asked for
  codec,        \* its codec, once page 1 is authenticated
  seen,         \* the database whose page 1 that was
  result,       \* how its last open ended
  overwritten,  \* files that got another database of the salt in use
  replacements  \* files replaced so far

vars == <<content, byFile, database, users, pc, request, codec, seen, result,
          overwritten, replacements>>

-----------------------------------------------------------------------------
(* The codec.                                                              *)

\* Mutant: hard links are not told apart.
IdentityOfMain(r, salt) ==
  [config |-> r.config, salt |-> salt, wal |-> r.wal, path |-> NoPath]

\* Mutant: every connection is bound to its path.
IdentityOfPath(r, salt) ==
  [config |-> r.config, salt |-> salt, wal |-> r.wal, path |-> r.path]

\* Mutant: the salt is not part of the identity.
IdentityWithoutSalt(r, salt) ==
  [config |-> r.config, wal |-> r.wal,
   path |-> IF r.wal THEN r.path ELSE NoPath]

\* SqlCipherCodec::new: nothing secret, and the path only with a WAL.
CodecId(r, salt) ==
  [config |-> r.config, salt |-> salt, wal |-> r.wal,
   path |-> IF r.wal THEN r.path ELSE NoPath]

CodecIds ==
  [config : Configs, salt : Salts, wal : BOOLEAN, path : Paths \cup {NoPath}]

\* The keys derived from the caller's passphrase and the salt of the file.
DeriveKeys(r, salt) ==
  [config |-> r.config, passphrase |-> r.passphrase, salt |-> salt]

Codecs == [id : CodecIds, keys : Keys]

NewCodec(r) ==
  LET salt == content[FileAt[r.path]].keys.salt
  IN [id |-> CodecId(r, salt), keys |-> DeriveKeys(r, salt)]

-----------------------------------------------------------------------------
(* The registry.                                                           *)

\* What identifies the file at a path for the registry.
RegistryKey(path) == IF byFile THEN FileAt[path] ELSE path

RegistryKeys == Paths \cup Files

\* A database of the registry: the identity it was opened with, the database
\* file its schema was read from and the path whose WAL it indexes.
Databases == [id : CodecIds, image : Contents, wal : Paths \cup {NoPath}]

ASSUME NamesAssumption ==
  /\ None \notin Requests
  /\ None \notin Contents
  /\ None \notin Codecs
  /\ None \notin Databases
  /\ None \notin Results

Init ==
  /\ content \in [Files -> Contents]
  /\ byFile \in BOOLEAN
  /\ database = [k \in RegistryKeys |-> None]
  /\ users = [k \in RegistryKeys |-> {}]
  /\ pc = [c \in Callers |-> "idle"]
  /\ request = [c \in Callers |-> None]
  /\ codec = [c \in Callers |-> None]
  /\ seen = [c \in Callers |-> None]
  /\ result = [c \in Callers |-> None]
  /\ overwritten = {}
  /\ replacements = 0

Go(c, step) == pc' = [pc EXCEPT ![c] = step]

\* The callers that have authenticated page 1 of a file.
Readers(f) == {c \in Callers : codec[c] # None /\ FileAt[request[c].path] = f}

\* What the caller's open has built is dropped; a file that nobody else reads
\* may as well be new.
Forget(c) ==
  /\ Go(c, "idle")
  /\ request' = [request EXCEPT ![c] = None]
  /\ codec' = [codec EXCEPT ![c] = None]
  /\ seen' = [seen EXCEPT ![c] = None]
  /\ overwritten' = {f \in overwritten : Readers(f) \ {c} # {}}

Fails(c, error) == Forget(c) /\ result' = [result EXCEPT ![c] = error]

\* A database goes with its last owner.
Release(c) ==
  /\ users' = [k \in RegistryKeys |-> users[k] \ {c}]
  /\ database' = [k \in RegistryKeys |->
                    IF users[k] \subseteq {c} THEN None ELSE database[k]]

-----------------------------------------------------------------------------
(* open_connection.                                                        *)

\* open_readonly, open_readonly_with_wal and WalInput::snapshot
Call(c) ==
  /\ pc[c] = "idle"
  /\ \E r \in Requests : request' = [request EXCEPT ![c] = r]
  /\ Go(c, "authenticate")
  /\ result' = [result EXCEPT ![c] = None]
  /\ UNCHANGED <<content, byFile, database, users, codec, seen, overwritten,
                 replacements>>

\* Mutant: a database that is open already is not authenticated again.
PageOneAuthenticOrWarm(r) ==
  \/ DeriveKeys(r, content[FileAt[r.path]].keys.salt) = content[FileAt[r.path]].keys
  \/ database[RegistryKey(r.path)] # None

PageOneAuthentic(r) ==
  DeriveKeys(r, content[FileAt[r.path]].keys.salt) = content[FileAt[r.path]].keys

\* Page 1 is read and decrypted with this caller's key.
Authenticate(c) ==
  /\ pc[c] = "authenticate"
  /\ \/ /\ PageOneAuthentic(request[c])
        /\ codec' = [codec EXCEPT ![c] = NewCodec(request[c])]
        /\ seen' = [seen EXCEPT ![c] = content[FileAt[request[c].path]]]
        /\ Go(c, "open")
        /\ UNCHANGED <<request, result, overwritten>>
     \/ ~PageOneAuthentic(request[c]) /\ Fails(c, "Decrypt")
     \/ Fails(c, "Io")
  /\ UNCHANGED <<content, byFile, database, users, replacements>>

\* turso::Database::open reads the file at the path, through the codec, only
\* if the registry does not have it; else the identities must be the same.
OpenDatabase(c) ==
  LET r == request[c]
      k == RegistryKey(r.path)
      image == content[FileAt[r.path]]
  IN /\ pc[c] = "open"
     /\ \/ /\ database[k] = None /\ image.keys = codec[c].keys
           /\ database' = [database EXCEPT ![k] =
                [id |-> codec[c].id, image |-> image,
                 wal |-> IF r.wal THEN r.path ELSE NoPath]]
           /\ users' = [users EXCEPT ![k] = {c}]
           /\ Go(c, "connect")
           /\ UNCHANGED <<request, codec, seen, result, overwritten>>
        \/ /\ database[k] # None /\ database[k].id = codec[c].id
           /\ users' = [users EXCEPT ![k] = @ \cup {c}]
           /\ Go(c, "connect")
           /\ UNCHANGED <<database, request, codec, seen, result, overwritten>>
        \/ /\ database[k] # None /\ database[k].id # codec[c].id
           /\ Fails(c, "IdentityMismatch")
           /\ UNCHANGED <<database, users>>
        \/ database[k] = None /\ Fails(c, "Turso") /\ UNCHANGED <<database, users>>
     /\ UNCHANGED <<content, byFile, replacements>>

\* connect_with_page_codec; an error drops the database too.
Connect(c) ==
  /\ pc[c] = "connect"
  /\ \/ /\ Go(c, "connected")
        /\ result' = [result EXCEPT ![c] = "Connected"]
        /\ UNCHANGED <<database, users, request, codec, seen, overwritten>>
     \/ Fails(c, "Turso") /\ Release(c)
  /\ UNCHANGED <<content, byFile, replacements>>

\* The caller drops its connection.
Close(c) ==
  /\ pc[c] = "connected"
  /\ Release(c) /\ Forget(c)
  /\ UNCHANGED <<content, byFile, result, replacements>>

\* Somebody puts another database in a file: one of another salt, or a newer
\* or restored copy of the same one, or the same one after a rekey, which keeps
\* the salt.  If callers have authenticated the old one this breaks the
\* contract.
Replace(f) ==
  /\ replacements < MaxReplacements
  /\ replacements' = replacements + 1
  /\ \E other \in Contents \ {content[f]} :
       /\ content' = [content EXCEPT ![f] = other]
       /\ overwritten' =
            IF \E c \in Readers(f) : codec[c].keys.salt = other.keys.salt
            THEN overwritten \cup {f} ELSE overwritten
  /\ UNCHANGED <<byFile, database, users, pc, request, codec, seen, result>>

Next ==
  \/ \E c \in Callers :
       Call(c) \/ Authenticate(c) \/ OpenDatabase(c) \/ Connect(c) \/ Close(c)
  \/ \E f \in Files : Replace(f)

Spec == Init /\ [][Next]_vars

-----------------------------------------------------------------------------
(* Properties.                                                             *)

TypeOK ==
  /\ content \in [Files -> Contents]
  /\ byFile \in BOOLEAN
  /\ database \in [RegistryKeys -> Databases \cup {None}]
  /\ users \in [RegistryKeys -> SUBSET Callers]
  /\ pc \in [Callers -> Steps]
  /\ request \in [Callers -> Requests \cup {None}]
  /\ codec \in [Callers -> Codecs \cup {None}]
  /\ seen \in [Callers -> Contents \cup {None}]
  /\ result \in [Callers -> Results \cup {None}]
  /\ overwritten \in SUBSET Files
  /\ replacements \in 0 .. MaxReplacements

\* Nobody is served without the key of the file, nor from a database in the
\* registry whose key he does not have, however many connections others keep
\* open to it.  Only after a rekey in place, that is, while somebody reads the
\* file who authenticated it before, is the key of the database not looked at.
OnlyKeyHoldersAreServed ==
  \A k \in RegistryKeys : \A c \in users[k] :
    LET KeyOf(image) == DeriveKeys(request[c], image.keys.salt) = image.keys IN
    /\ KeyOf(seen[c])
    /\ KeyOf(database[k].image) \/ FileAt[request[c].path] \in overwritten

\* The schema a caller is served was read from a database of the configuration
\* and the salt that the caller authenticated, whatever the file was replaced
\* by before, or meanwhile.  It was that very database, unless a caller still
\* reads the file from before it was overwritten by a database of that salt:
\* the identity of a codec does not tell a copy of a database from it.
ServedWhatTheyAuthenticated ==
  \A k \in RegistryKeys : \A c \in users[k] :
    LET image == database[k].image IN
    /\ image.keys.config = seen[c].keys.config
    /\ image.keys.salt = seen[c].keys.salt
    /\ image = seen[c] \/ FileAt[request[c].path] \in overwritten

\* A caller that asked for the WAL beside a path reads that one and not the
\* WAL of a hard link; a caller that did not reads none.
ServedFromTheirOwnWal ==
  \A k \in RegistryKeys : \A c \in users[k] :
    database[k].wal = IF request[c].wal THEN request[c].path ELSE NoPath

\* Callers disagree: about the WAL or about the database.
Conflict(c, d) ==
  \/ request[c].wal # request[d].wal
  \/ request[c].wal /\ request[c].path # request[d].path
  \/ seen[c] # seen[d]

\* A caller with the right key is refused a database that is open only while
\* another caller uses it in a way that conflicts.
RefusedOnlyOnConflict ==
  [][\A c \in Callers :
       pc[c] = "open" /\ result'[c] = "IdentityMismatch" =>
         \E d \in users[RegistryKey(request[c].path)] : Conflict(c, d)]_vars
=============================================================================
