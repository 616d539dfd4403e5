--------------------------- MODULE Registry_proofs ---------------------------
(***************************************************************************)
(* Proofs about Registry: whoever is served from a database that Turso     *)
(* shares authenticated it, or a database of its salt that took its place  *)
(* while it was read, and asked for its WAL.                               *)
(***************************************************************************)
EXTENDS Registry, TLAPS

-----------------------------------------------------------------------------
(* The inductive invariant.                                                *)

\* The caller has authenticated page 1 of seen[c].
Authenticated(c) ==
  /\ request[c] \in Requests
  /\ seen[c] \in Contents
  /\ codec[c] \in Codecs
  /\ codec[c].id = CodecId(request[c], seen[c].keys.salt)
  /\ codec[c].keys = seen[c].keys
  /\ seen[c].keys = DeriveKeys(request[c], seen[c].keys.salt)

CallerState(c) ==
  /\ pc[c] \in Steps
  /\ pc[c] = "idle" => request[c] = None /\ codec[c] = None /\ seen[c] = None
  /\ pc[c] = "authenticate" =>
       request[c] \in Requests /\ codec[c] = None /\ seen[c] = None
  /\ pc[c] \in {"open", "connect", "connected"} => Authenticated(c)
  /\ pc[c] \in {"authenticate", "open", "connect"} => result[c] = None

\* A file with the salt that was authenticated still is that database, if it
\* was not overwritten.
Fresh(c) ==
  /\ codec[c] # None
  /\ FileAt[request[c].path] \notin overwritten
  /\ content[FileAt[request[c].path]].keys.salt = seen[c].keys.salt
  => content[FileAt[request[c].path]] = seen[c]

\* Callers that authenticated the same salt in one file saw one database, if
\* it was not overwritten.
Agree(c, d) ==
  /\ codec[c] # None /\ codec[d] # None
  /\ FileAt[request[c].path] \notin overwritten
  /\ FileAt[request[c].path] = FileAt[request[d].path]
  /\ seen[c].keys.salt = seen[d].keys.salt
  => seen[c] = seen[d]

\* A user of a database passed the check of its identity.
Served(k, c) ==
  c \in users[k] =>
    /\ pc[c] \in {"connect", "connected"}
    /\ k = RegistryKey(request[c].path)
    /\ database[k].id = codec[c].id
    /\ database[k].image.keys.config = seen[c].keys.config
    /\ database[k].image.keys.salt = seen[c].keys.salt
    /\ FileAt[request[c].path] \notin overwritten => database[k].image = seen[c]

Owned(k) ==
  /\ database[k] = None <=> users[k] = {}
  /\ database[k] # None => database[k].wal = database[k].id.path

IInv ==
  /\ TypeOK
  /\ \A c \in Callers : CallerState(c)
  /\ \A c \in Callers : Fresh(c)
  /\ \A c, d \in Callers : Agree(c, d)
  /\ \A k \in RegistryKeys : \A c \in Callers : Served(k, c)
  /\ \A k \in RegistryKeys : Owned(k)

-----------------------------------------------------------------------------
(* Records and keys.                                                       *)

LEMMA CodecIdFields ==
  ASSUME NEW r \in Requests, NEW salt \in Salts
  PROVE  /\ CodecId(r, salt) \in CodecIds
         /\ CodecId(r, salt).config = r.config
         /\ CodecId(r, salt).salt = salt
         /\ CodecId(r, salt).wal = r.wal
         /\ CodecId(r, salt).path = IF r.wal THEN r.path ELSE NoPath
  BY DEF CodecId, CodecIds, Requests

\* Callers of one database of the registry named one file.
LEMMA OneFileForAKey ==
  ASSUME TypeOK, NEW p \in Paths, NEW q \in Paths, RegistryKey(p) = RegistryKey(q)
  PROVE  FileAt[p] = FileAt[q]
  BY RegistryAssumption DEF RegistryKey, TypeOK

LEMMA KeyInRegistry ==
  ASSUME NEW p \in Paths
  PROVE  RegistryKey(p) \in RegistryKeys
  BY RegistryAssumption DEF RegistryKey, RegistryKeys

\* The codec that is made of an authenticated page 1.
LEMMA NewCodecIsAuthentic ==
  ASSUME TypeOK, NEW r \in Requests, PageOneAuthentic(r)
  PROVE  LET image == content[FileAt[r.path]] IN
         /\ image \in Contents
         /\ NewCodec(r) \in Codecs
         /\ NewCodec(r).id = CodecId(r, image.keys.salt)
         /\ NewCodec(r).keys = image.keys
         /\ image.keys = DeriveKeys(r, image.keys.salt)
PROOF
  <1> DEFINE image == content[FileAt[r.path]]
  <1>1. image \in Contents
    BY RegistryAssumption DEF TypeOK, Requests
  <1>2. image.keys \in Keys /\ image.keys.salt \in Salts
    BY <1>1 DEF Contents, Keys
  <1>3. CodecId(r, image.keys.salt) \in CodecIds
    BY <1>2, CodecIdFields
  <1>4. image.keys = DeriveKeys(r, image.keys.salt)
    BY DEF PageOneAuthentic
  <1>5. NewCodec(r) = [id |-> CodecId(r, image.keys.salt), keys |-> image.keys]
    BY <1>4 DEF NewCodec
  <1> QED BY <1>1, <1>2, <1>3, <1>4, <1>5 DEF Codecs

-----------------------------------------------------------------------------
(* Steps of one caller.                                                    *)

\* A step of c leaves the files and the other callers alone.
OnlyCaller(c) ==
  /\ content' = content /\ byFile' = byFile
  /\ \A d \in Callers \ {c} :
       /\ pc'[d] = pc[d] /\ request'[d] = request[d] /\ codec'[d] = codec[d]
       /\ seen'[d] = seen[d] /\ result'[d] = result[d]
       /\ codec[d] # None =>
            (FileAt[request[d].path] \in overwritten' <=>
             FileAt[request[d].path] \in overwritten)

\* Then only what is said about c, and the databases, is left to show.
LEMMA StepOfOneCaller ==
  ASSUME IInv, NEW c \in Callers, TypeOK', OnlyCaller(c),
         CallerState(c)', Fresh(c)', \A d \in Callers : Agree(c, d)',
         \A k \in RegistryKeys : \A d \in Callers : Served(k, d)',
         \A k \in RegistryKeys : Owned(k)'
  PROVE  IInv'
PROOF
  <1>1. ASSUME NEW d \in Callers PROVE CallerState(d)'
    <2>1. CASE d = c BY <2>1
    <2>2. CASE d # c
      BY <2>2 DEF IInv, OnlyCaller, CallerState, Authenticated
    <2> QED BY <2>1, <2>2
  <1>2. ASSUME NEW d \in Callers PROVE Fresh(d)'
    <2>1. CASE d = c BY <2>1
    <2>2. CASE d # c
      BY <2>2 DEF IInv, OnlyCaller, Fresh
    <2> QED BY <2>1, <2>2
  <1>3. ASSUME NEW d \in Callers, NEW e \in Callers PROVE Agree(d, e)'
    <2>1. CASE d = c BY <2>1
    <2>2. CASE e = c
      BY <2>2 DEF Agree
    <2>3. CASE d # c /\ e # c
      BY <2>3 DEF IInv, OnlyCaller, Agree
    <2> QED BY <2>1, <2>2, <2>3
  <1> QED BY <1>1, <1>2, <1>3 DEF IInv

\* Whoever has a codec has authenticated a file, and reads it.
LEMMA CodecMeansAuthenticated ==
  ASSUME IInv, NEW c \in Callers
  PROVE  /\ codec[c] # None => Authenticated(c)
         /\ pc[c] \in {"open", "connect", "connected"} => codec[c] # None
PROOF
  <1>1. pc[c] \in {"open", "connect", "connected"} => Authenticated(c)
    BY DEF IInv, CallerState
  <1>2. codec[c] # None => pc[c] \in {"open", "connect", "connected"}
    BY DEF IInv, CallerState, Steps
  <1> QED BY <1>1, <1>2, NamesAssumption DEF Authenticated

\* Files that others read stay overwritten when a caller forgets its own.
LEMMA ForgetKeepsOverwritten ==
  ASSUME IInv, NEW c \in Callers, Forget(c), NEW d \in Callers \ {c}, codec[d] # None
  PROVE  FileAt[request[d].path] \in overwritten' <=>
         FileAt[request[d].path] \in overwritten
  BY DEF Forget, Readers

\* A caller without a codec has authenticated nothing.
LEMMA NothingAuthenticated ==
  ASSUME NEW c, codec'[c] = None
  PROVE  Fresh(c)' /\ \A d \in Callers : Agree(c, d)'
  BY DEF Fresh, Agree

\* A caller that goes on with what it has authenticated.
LEMMA StillAuthenticated ==
  ASSUME IInv, NEW c \in Callers, content' = content, OnlyCaller(c),
         request'[c] = request[c], codec'[c] = codec[c], seen'[c] = seen[c],
         overwritten' = overwritten
  PROVE  Fresh(c)' /\ \A d \in Callers : Agree(c, d)'
PROOF
  <1>1. Fresh(c)'
    BY DEF IInv, Fresh
  <1>2. ASSUME NEW d \in Callers PROVE Agree(c, d)'
    BY DEF IInv, Agree, OnlyCaller
  <1> QED BY <1>1, <1>2

\* The databases, as long as the users of them are left alone.
LEMMA DatabasesUntouched ==
  ASSUME IInv, NEW c \in Callers, OnlyCaller(c), UNCHANGED <<database, users>>,
         pc[c] \notin {"connect", "connected"}
  PROVE  /\ \A k \in RegistryKeys : \A d \in Callers : Served(k, d)'
         /\ \A k \in RegistryKeys : Owned(k)'
PROOF
  <1>1. ASSUME NEW k \in RegistryKeys, NEW d \in Callers PROVE Served(k, d)'
    <2>1. CASE d = c
      BY <2>1 DEF IInv, Served
    <2>2. CASE d # c
      BY <2>2, CodecMeansAuthenticated DEF IInv, Served, OnlyCaller, RegistryKey
    <2> QED BY <2>1, <2>2
  <1>2. ASSUME NEW k \in RegistryKeys PROVE Owned(k)'
    BY DEF IInv, Owned
  <1> QED BY <1>1, <1>2

LEMMA CallPreserves ==
  ASSUME IInv, NEW c \in Callers, Call(c)
  PROVE  IInv'
PROOF
  <1>1. TypeOK'
    BY DEF IInv, TypeOK, Call, Go, Steps
  <1>2. OnlyCaller(c)
    BY DEF IInv, TypeOK, Call, Go, OnlyCaller
  <1>3. CallerState(c)'
    BY DEF IInv, TypeOK, Call, Go, CallerState, Steps
  <1>4. codec'[c] = None
    BY DEF IInv, CallerState, Call
  <1>5. UNCHANGED <<database, users>> /\ pc[c] = "idle"
    BY DEF Call
  <1> QED
    BY <1>1, <1>2, <1>3, <1>4, <1>5, NothingAuthenticated, DatabasesUntouched,
       StepOfOneCaller

\* An open that fails leaves nothing of the caller.
LEMMA FailsForgets ==
  ASSUME IInv, NEW c \in Callers, NEW error \in Results, Fails(c, error),
         UNCHANGED <<content, byFile>>,
         database' \in [RegistryKeys -> Databases \cup {None}],
         users' \in [RegistryKeys -> SUBSET Callers],
         replacements' = replacements
  PROVE  /\ TypeOK' /\ OnlyCaller(c) /\ CallerState(c)'
         /\ Fresh(c)' /\ \A d \in Callers : Agree(c, d)'
PROOF
  <1>1. TypeOK'
    BY DEF IInv, TypeOK, Fails, Forget, Go, Steps
  <1>2. OnlyCaller(c)
    BY ForgetKeepsOverwritten DEF IInv, TypeOK, Fails, Forget, Go, OnlyCaller
  <1>3. CallerState(c)'
    BY DEF IInv, TypeOK, Fails, Forget, Go, CallerState, Steps
  <1>4. codec'[c] = None
    BY DEF IInv, TypeOK, Fails, Forget
  <1> QED BY <1>1, <1>2, <1>3, <1>4, NothingAuthenticated

LEMMA FailureBeforeTheRegistry ==
  ASSUME IInv, NEW c \in Callers, NEW error \in Results, Fails(c, error),
         pc[c] \notin {"connect", "connected"},
         UNCHANGED <<content, byFile, database, users, replacements>>
  PROVE  IInv'
PROOF
  <1>1. /\ database' \in [RegistryKeys -> Databases \cup {None}]
        /\ users' \in [RegistryKeys -> SUBSET Callers]
    BY DEF IInv, TypeOK
  <1> QED
    BY <1>1, FailsForgets, DatabasesUntouched, StepOfOneCaller

LEMMA AuthenticatePreserves ==
  ASSUME IInv, NEW c \in Callers, Authenticate(c)
  PROVE  IInv'
PROOF
  <1> DEFINE r == request[c]
             image == content[FileAt[r.path]]
  <1>0. /\ pc[c] = "authenticate" /\ r \in Requests /\ result[c] = None
        /\ UNCHANGED <<content, byFile, database, users, replacements>>
    BY DEF IInv, CallerState, Authenticate
  <1>1. CASE /\ PageOneAuthentic(r)
             /\ codec' = [codec EXCEPT ![c] = NewCodec(r)]
             /\ seen' = [seen EXCEPT ![c] = image]
             /\ Go(c, "open")
             /\ UNCHANGED <<request, result, overwritten>>
    <2>1. /\ image \in Contents
          /\ NewCodec(r) \in Codecs
          /\ NewCodec(r).id = CodecId(r, image.keys.salt)
          /\ NewCodec(r).keys = image.keys
          /\ image.keys = DeriveKeys(r, image.keys.salt)
      BY <1>0, <1>1, NewCodecIsAuthentic DEF IInv
    <2>2. TypeOK'
      BY <1>0, <1>1, <2>1 DEF IInv, TypeOK, Go, Steps
    <2>3. OnlyCaller(c)
      BY <1>0, <1>1 DEF IInv, TypeOK, Go, OnlyCaller
    <2>4. /\ request'[c] = r /\ codec'[c] = NewCodec(r) /\ seen'[c] = image
          /\ pc'[c] = "open" /\ result'[c] = None
      BY <1>0, <1>1 DEF IInv, TypeOK, Go
    <2>5. CallerState(c)'
      BY <1>0, <2>1, <2>4 DEF CallerState, Authenticated, Steps
    <2>6. Fresh(c)'
      BY <1>0, <2>4 DEF Fresh
    <2>7. ASSUME NEW d \in Callers PROVE Agree(c, d)'
      <3>1. CASE d = c
        BY <3>1 DEF Agree
      <3>2. CASE d # c
        BY <3>2, <2>3, <2>4 DEF IInv, Fresh, Agree, OnlyCaller
      <3> QED BY <3>1, <3>2
    <2> QED
      BY <1>0, <2>2, <2>3, <2>5, <2>6, <2>7, DatabasesUntouched, StepOfOneCaller
  <1>2. CASE \E error \in {"Decrypt", "Io"} : Fails(c, error)
    BY <1>0, <1>2, FailureBeforeTheRegistry DEF Results
  <1> QED BY <1>1, <1>2 DEF Authenticate

\* Whoever opens a database first is served what the file holds by then.
LEMMA OpensFirst ==
  ASSUME IInv, NEW c \in Callers,
         pc[c] = "open",
         NEW k \in RegistryKeys, k = RegistryKey(request[c].path),
         NEW image, image = content[FileAt[request[c].path]],
         database[k] = None, image.keys = codec[c].keys,
         database' = [database EXCEPT ![k] =
           [id |-> codec[c].id, image |-> image,
            wal |-> IF request[c].wal THEN request[c].path ELSE NoPath]],
         users' = [users EXCEPT ![k] = {c}],
         Go(c, "connect"),
         UNCHANGED <<content, byFile, request, codec, seen, result, overwritten,
                     replacements>>
  PROVE  IInv'
PROOF
  <1> DEFINE entry == [id |-> codec[c].id, image |-> image,
                       wal |-> IF request[c].wal THEN request[c].path ELSE NoPath]
  <1>1. Authenticated(c) /\ result[c] = None
    BY DEF IInv, CallerState
  <1>2. /\ request[c].path \in Paths /\ request[c].wal \in BOOLEAN
        /\ codec[c].id \in CodecIds /\ codec[c].keys \in Keys
        /\ seen[c].keys.salt \in Salts
    BY <1>1 DEF Authenticated, Requests, Codecs, Keys
  <1>3. /\ image \in Contents /\ image.keys = seen[c].keys
        /\ FileAt[request[c].path] \notin overwritten => image = seen[c]
    <2>1. image \in Contents
      BY <1>2, RegistryAssumption DEF IInv, TypeOK
    <2> QED BY <1>1, <2>1, NamesAssumption DEF IInv, Fresh, Authenticated
  <1>4. entry \in Databases
    BY <1>1, <1>2, <1>3 DEF Authenticated, Databases
  <1>5. TypeOK'
    BY <1>4 DEF IInv, TypeOK, Go, Steps
  <1>6. OnlyCaller(c)
    BY DEF IInv, TypeOK, Go, OnlyCaller
  <1>7. pc'[c] = "connect" /\ result'[c] = None
    BY <1>1 DEF IInv, TypeOK, Go
  <1>8. CallerState(c)'
    BY <1>1, <1>7 DEF CallerState, Authenticated, Steps
  <1>9. entry.wal = entry.id.path
    BY <1>1, <1>2, CodecIdFields DEF Authenticated
  <1>10. ASSUME NEW j \in RegistryKeys, NEW d \in Callers PROVE Served(j, d)'
    <2>1. CASE j = k
      <3>1. users'[j] = {c} /\ database'[j] = entry
        BY <2>1 DEF IInv, TypeOK
      <3> QED BY <2>1, <3>1, <1>3, <1>7 DEF Served, RegistryKey
    <2>2. CASE j # k
      <3>1. users'[j] = users[j] /\ database'[j] = database[j]
        BY <2>2 DEF IInv, TypeOK
      <3>2. c \notin users[j]
        BY <2>2 DEF IInv, Served
      <3> QED
        BY <3>1, <3>2, <1>6, CodecMeansAuthenticated
        DEF IInv, Served, OnlyCaller, RegistryKey
    <2> QED BY <2>1, <2>2
  <1>11. ASSUME NEW j \in RegistryKeys PROVE Owned(j)'
    <2>1. CASE j = k
      <3>1. users'[j] = {c} /\ database'[j] = entry
        BY <2>1 DEF IInv, TypeOK
      <3> QED BY <3>1, <1>4, <1>9, NamesAssumption DEF Owned
    <2>2. CASE j # k
      <3>1. users'[j] = users[j] /\ database'[j] = database[j]
        BY <2>2 DEF IInv, TypeOK
      <3> QED BY <3>1 DEF IInv, Owned
    <2> QED BY <2>1, <2>2
  <1>12. Fresh(c)' /\ \A d \in Callers : Agree(c, d)'
    BY <1>6, StillAuthenticated
  <1> QED
    BY <1>5, <1>6, <1>8, <1>10, <1>11, <1>12, StepOfOneCaller

\* Whoever joins a database passes for one of its users.
LEMMA JoinsUsers ==
  ASSUME IInv, NEW c \in Callers,
         pc[c] = "open",
         NEW k \in RegistryKeys, k = RegistryKey(request[c].path),
         database[k] # None, database[k].id = codec[c].id,
         users' = [users EXCEPT ![k] = @ \cup {c}],
         Go(c, "connect"),
         UNCHANGED <<content, byFile, database, request, codec, seen, result,
                     overwritten, replacements>>
  PROVE  IInv'
PROOF
  <1>1. Authenticated(c) /\ result[c] = None
    BY DEF IInv, CallerState
  <1>2. PICK d \in Callers : d \in users[k]
    BY DEF IInv, Owned, TypeOK
  <1>3. /\ pc[d] \in {"connect", "connected"} /\ k = RegistryKey(request[d].path)
        /\ database[k].id = codec[d].id
        /\ database[k].image.keys.config = seen[d].keys.config
        /\ database[k].image.keys.salt = seen[d].keys.salt
        /\ FileAt[request[d].path] \notin overwritten => database[k].image = seen[d]
    BY <1>2 DEF IInv, Served
  <1>4. Authenticated(d)
    BY <1>3 DEF IInv, CallerState
  <1>5. /\ seen[c].keys.salt = seen[d].keys.salt
        /\ seen[c].keys.config = seen[d].keys.config
    <2>1. seen[c].keys.salt \in Salts /\ seen[d].keys.salt \in Salts
      BY <1>1, <1>4 DEF Authenticated, Contents, Keys
    <2>2. codec[c].id.salt = seen[c].keys.salt /\ codec[d].id.salt = seen[d].keys.salt
      BY <2>1, <1>1, <1>4, CodecIdFields DEF Authenticated
    <2>3. /\ codec[c].id.config = request[c].config
          /\ codec[d].id.config = request[d].config
      BY <2>1, <1>1, <1>4, CodecIdFields DEF Authenticated
    <2>4. /\ seen[c].keys.config = request[c].config
          /\ seen[d].keys.config = request[d].config
      BY <1>1, <1>4 DEF Authenticated, DeriveKeys
    <2> QED BY <2>2, <2>3, <2>4, <1>3
  <1>6. FileAt[request[c].path] = FileAt[request[d].path]
    <2>1. request[c].path \in Paths /\ request[d].path \in Paths
      BY <1>1, <1>4 DEF Authenticated, Requests
    <2> QED BY <2>1, <1>3, OneFileForAKey DEF IInv
  <1>7. FileAt[request[c].path] \notin overwritten => seen[c] = seen[d]
    <2>1. codec[c] # None /\ codec[d] # None
      BY <1>1, <1>4, NamesAssumption DEF Authenticated
    <2> QED BY <2>1, <1>5, <1>6 DEF IInv, Agree
  <1>8. TypeOK'
    BY DEF IInv, TypeOK, Go, Steps
  <1>9. OnlyCaller(c)
    BY DEF IInv, TypeOK, Go, OnlyCaller
  <1>10. pc'[c] = "connect" /\ result'[c] = None
    BY <1>1 DEF IInv, TypeOK, Go
  <1>11. CallerState(c)'
    BY <1>1, <1>10 DEF CallerState, Authenticated, Steps
  <1>12. ASSUME NEW j \in RegistryKeys, NEW e \in Callers PROVE Served(j, e)'
    <2>1. users'[j] = IF j = k THEN users[j] \cup {c} ELSE users[j]
      BY DEF IInv, TypeOK
    <2>2. CASE e = c
      <3>1. c \notin users[j]
        BY DEF IInv, Served
      <3> QED
        BY <2>1, <2>2, <3>1, <1>3, <1>5, <1>6, <1>7, <1>10 DEF Served, RegistryKey
    <2>3. CASE e # c
      BY <2>1, <2>3, <1>9, CodecMeansAuthenticated
      DEF IInv, Served, OnlyCaller, RegistryKey
    <2> QED BY <2>2, <2>3
  <1>13. ASSUME NEW j \in RegistryKeys PROVE Owned(j)'
    BY DEF IInv, Owned, TypeOK
  <1>14. Fresh(c)' /\ \A e \in Callers : Agree(c, e)'
    BY <1>9, StillAuthenticated
  <1> QED
    BY <1>8, <1>9, <1>11, <1>12, <1>13, <1>14, StepOfOneCaller

LEMMA OpenDatabasePreserves ==
  ASSUME IInv, NEW c \in Callers, OpenDatabase(c)
  PROVE  IInv'
PROOF
  <1> DEFINE k == RegistryKey(request[c].path)
             image == content[FileAt[request[c].path]]
  <1>1. /\ pc[c] = "open"
        /\ UNCHANGED <<content, byFile, replacements>>
    BY DEF OpenDatabase
  <1>2. k \in RegistryKeys
    BY <1>1, KeyInRegistry DEF IInv, CallerState, Authenticated, Requests
  <1>3. CASE /\ database[k] = None /\ image.keys = codec[c].keys
             /\ database' = [database EXCEPT ![k] =
                  [id |-> codec[c].id, image |-> image,
                   wal |-> IF request[c].wal THEN request[c].path ELSE NoPath]]
             /\ users' = [users EXCEPT ![k] = {c}]
             /\ Go(c, "connect")
             /\ UNCHANGED <<request, codec, seen, result, overwritten>>
    BY <1>1, <1>2, <1>3, OpensFirst
  <1>4. CASE /\ database[k] # None /\ database[k].id = codec[c].id
             /\ users' = [users EXCEPT ![k] = @ \cup {c}]
             /\ Go(c, "connect")
             /\ UNCHANGED <<database, request, codec, seen, result, overwritten>>
    BY <1>1, <1>2, <1>4, JoinsUsers
  <1>5. CASE /\ \E error \in {"IdentityMismatch", "Turso"} : Fails(c, error)
             /\ UNCHANGED <<database, users>>
    BY <1>1, <1>5, FailureBeforeTheRegistry DEF Results
  <1> QED BY <1>3, <1>4, <1>5 DEF OpenDatabase

\* The databases when c drops its own.
LEMMA ReleaseKeepsOthers ==
  ASSUME IInv, NEW c \in Callers, Release(c), OnlyCaller(c)
  PROVE  /\ database' \in [RegistryKeys -> Databases \cup {None}]
         /\ users' \in [RegistryKeys -> SUBSET Callers]
         /\ \A k \in RegistryKeys : \A d \in Callers : Served(k, d)'
         /\ \A k \in RegistryKeys : Owned(k)'
PROOF
  <1>1. /\ database' \in [RegistryKeys -> Databases \cup {None}]
        /\ users' \in [RegistryKeys -> SUBSET Callers]
    BY DEF IInv, TypeOK, Release
  <1>2. ASSUME NEW k \in RegistryKeys
        PROVE  /\ users'[k] = users[k] \ {c}
               /\ database'[k] = IF users[k] \subseteq {c} THEN None ELSE database[k]
    BY DEF Release
  <1>3. ASSUME NEW k \in RegistryKeys, NEW d \in Callers PROVE Served(k, d)'
    <2>1. CASE d = c
      BY <1>2, <2>1 DEF Served
    <2>2. CASE d # c /\ d \in users[k]
      BY <1>2, <2>2, CodecMeansAuthenticated
      DEF IInv, Served, OnlyCaller, RegistryKey
    <2>3. CASE d \notin users[k]
      BY <1>2, <2>3 DEF Served
    <2> QED BY <2>1, <2>2, <2>3
  <1>4. ASSUME NEW k \in RegistryKeys PROVE Owned(k)'
    BY <1>2 DEF IInv, Owned
  <1> QED BY <1>1, <1>3, <1>4

LEMMA ConnectPreserves ==
  ASSUME IInv, NEW c \in Callers, Connect(c)
  PROVE  IInv'
PROOF
  <1>1. /\ pc[c] = "connect" /\ Authenticated(c)
        /\ UNCHANGED <<content, byFile, replacements>>
    BY DEF IInv, CallerState, Connect
  <1>2. CASE /\ Go(c, "connected")
             /\ result' = [result EXCEPT ![c] = "Connected"]
             /\ UNCHANGED <<database, users, request, codec, seen, overwritten>>
    <2>1. TypeOK'
      BY <1>1, <1>2 DEF IInv, TypeOK, Go, Steps, Results
    <2>2. OnlyCaller(c)
      BY <1>1, <1>2 DEF IInv, TypeOK, Go, OnlyCaller
    <2>3. pc'[c] = "connected"
      BY <1>2 DEF IInv, TypeOK, Go
    <2>4. CallerState(c)'
      BY <1>1, <1>2, <2>3 DEF CallerState, Authenticated, Steps
    <2>5. Fresh(c)' /\ \A d \in Callers : Agree(c, d)'
      BY <1>1, <1>2, <2>2, StillAuthenticated
    <2>6. ASSUME NEW k \in RegistryKeys, NEW d \in Callers PROVE Served(k, d)'
      <3>1. CASE d = c
        BY <1>1, <1>2, <2>3, <3>1 DEF IInv, Served, RegistryKey
      <3>2. CASE d # c
        BY <1>2, <2>2, <3>2, CodecMeansAuthenticated
        DEF IInv, Served, OnlyCaller, RegistryKey
      <3> QED BY <3>1, <3>2
    <2>7. ASSUME NEW k \in RegistryKeys PROVE Owned(k)'
      BY <1>2 DEF IInv, Owned
    <2> QED
      BY <2>1, <2>2, <2>4, <2>5, <2>6, <2>7, StepOfOneCaller
  <1>3. CASE Fails(c, "Turso") /\ Release(c)
    <2>1. OnlyCaller(c)
      BY <1>1, <1>3, ForgetKeepsOverwritten
      DEF IInv, TypeOK, Fails, Forget, Go, OnlyCaller
    <2>2. "Turso" \in Results
      BY DEF Results
    <2> QED
      BY <1>1, <1>3, <2>1, <2>2, ReleaseKeepsOthers, FailsForgets, StepOfOneCaller
  <1> QED BY <1>2, <1>3 DEF Connect

LEMMA ClosePreserves ==
  ASSUME IInv, NEW c \in Callers, Close(c)
  PROVE  IInv'
PROOF
  <1>1. OnlyCaller(c)
    BY ForgetKeepsOverwritten DEF IInv, TypeOK, Close, Forget, Go, OnlyCaller
  <1>2. /\ database' \in [RegistryKeys -> Databases \cup {None}]
        /\ users' \in [RegistryKeys -> SUBSET Callers]
        /\ \A k \in RegistryKeys : \A d \in Callers : Served(k, d)'
        /\ \A k \in RegistryKeys : Owned(k)'
    BY <1>1, ReleaseKeepsOthers DEF Close
  <1>3. TypeOK'
    BY <1>2 DEF IInv, TypeOK, Close, Forget, Go, Steps
  <1>4. CallerState(c)'
    BY DEF IInv, TypeOK, Close, Forget, Go, CallerState, Steps
  <1>5. codec'[c] = None
    BY DEF IInv, TypeOK, Close, Forget
  <1> QED
    BY <1>1, <1>2, <1>3, <1>4, <1>5, NothingAuthenticated, StepOfOneCaller

-----------------------------------------------------------------------------
(* Somebody else's step.                                                   *)

LEMMA ReplacePreserves ==
  ASSUME IInv, NEW f \in Files, Replace(f)
  PROVE  IInv'
PROOF
  <1>1. PICK other \in Contents :
          /\ content' = [content EXCEPT ![f] = other]
          /\ overwritten' =
               IF \E c \in Readers(f) : codec[c].keys.salt = other.keys.salt
               THEN overwritten \cup {f} ELSE overwritten
    BY DEF Replace
  <1>2. UNCHANGED <<byFile, database, users, pc, request, codec, seen, result>>
    BY DEF Replace
  <1>3. TypeOK'
    BY <1>1, <1>2, RegistryAssumption DEF IInv, TypeOK, Replace
  <1>4. ASSUME NEW c \in Callers PROVE CallerState(c)'
    BY <1>2 DEF IInv, CallerState, Authenticated
  <1>5. ASSUME NEW c \in Callers PROVE Fresh(c)'
    <2>1. CASE codec[c] = None
      BY <1>2, <2>1 DEF Fresh
    <2>2. CASE codec[c] # None /\ FileAt[request[c].path] = f
      <3>1. Authenticated(c) /\ c \in Readers(f)
        BY <2>2, CodecMeansAuthenticated DEF Readers
      <3>2. content'[f] = other
        BY <1>1 DEF IInv, TypeOK
      <3>3. f \notin overwritten' => codec[c].keys.salt # other.keys.salt
        BY <1>1, <3>1
      <3> QED BY <1>2, <2>2, <3>1, <3>2, <3>3 DEF Fresh, Authenticated
    <2>3. CASE codec[c] # None /\ FileAt[request[c].path] # f
      <3>1. content'[FileAt[request[c].path]] = content[FileAt[request[c].path]]
        BY <1>1, <2>3 DEF IInv, TypeOK
      <3> QED BY <1>1, <1>2, <3>1 DEF IInv, Fresh
    <2> QED BY <2>1, <2>2, <2>3
  <1>6. ASSUME NEW c \in Callers, NEW d \in Callers PROVE Agree(c, d)'
    BY <1>1, <1>2 DEF IInv, Agree
  <1>7. ASSUME NEW k \in RegistryKeys, NEW c \in Callers PROVE Served(k, c)'
    BY <1>1, <1>2 DEF IInv, Served, RegistryKey
  <1>8. ASSUME NEW k \in RegistryKeys PROVE Owned(k)'
    BY <1>2 DEF IInv, Owned
  <1> QED BY <1>3, <1>4, <1>5, <1>6, <1>7, <1>8 DEF IInv

-----------------------------------------------------------------------------
(* The invariant and what it implies.                                      *)

LEMMA InitEstablishes == Init => IInv
PROOF
  <1> SUFFICES ASSUME Init PROVE IInv
    OBVIOUS
  <1>1. TypeOK
    BY RegistryAssumption DEF Init, TypeOK, Steps
  <1>2. ASSUME NEW c \in Callers PROVE CallerState(c)
    BY DEF Init, CallerState, Steps
  <1>3. /\ \A c \in Callers : Fresh(c)
        /\ \A c, d \in Callers : Agree(c, d)
    BY DEF Init, Fresh, Agree
  <1>4. \A k \in RegistryKeys : Owned(k) /\ \A c \in Callers : Served(k, c)
    BY DEF Init, Owned, Served
  <1> QED BY <1>1, <1>2, <1>3, <1>4 DEF IInv

LEMMA StepPreserves == IInv /\ [Next]_vars => IInv'
PROOF
  <1> SUFFICES ASSUME IInv, [Next]_vars PROVE IInv'
    OBVIOUS
  <1>1. ASSUME NEW c \in Callers, Call(c) PROVE IInv'
    BY <1>1, CallPreserves
  <1>2. ASSUME NEW c \in Callers, Authenticate(c) PROVE IInv'
    BY <1>2, AuthenticatePreserves
  <1>3. ASSUME NEW c \in Callers, OpenDatabase(c) PROVE IInv'
    BY <1>3, OpenDatabasePreserves
  <1>4. ASSUME NEW c \in Callers, Connect(c) PROVE IInv'
    BY <1>4, ConnectPreserves
  <1>5. ASSUME NEW c \in Callers, Close(c) PROVE IInv'
    BY <1>5, ClosePreserves
  <1>6. ASSUME NEW f \in Files, Replace(f) PROVE IInv'
    BY <1>6, ReplacePreserves
  <1>7. CASE UNCHANGED vars
    BY <1>7 DEF vars, IInv, TypeOK, CallerState, Authenticated, Fresh, Agree,
       Served, Owned, RegistryKey
  <1> QED BY <1>1, <1>2, <1>3, <1>4, <1>5, <1>6, <1>7 DEF Next

LEMMA Invariance == Spec => []IInv
PROOF
  <1>1. Init => IInv
    BY InitEstablishes
  <1>2. IInv /\ [Next]_vars => IInv'
    BY StepPreserves
  <1> QED BY <1>1, <1>2, PTL DEF Spec

\* The variables of the registry keep their types.
THEOREM RegistryTypeCorrectness == Spec => []TypeOK
PROOF
  <1>1. IInv => TypeOK
    BY DEF IInv
  <1> QED BY <1>1, Invariance, PTL

\* A user of a database has authenticated this very database, or one of the
\* configuration and the salt of it if the file was overwritten.
LEMMA UsersAuthenticated ==
  ASSUME IInv, NEW k \in RegistryKeys, NEW c \in users[k]
  PROVE  /\ c \in Callers /\ Authenticated(c) /\ Served(k, c)
         /\ database[k].wal = database[k].id.path
PROOF
  <1>1. c \in Callers
    BY DEF IInv, TypeOK
  <1>2. Served(k, c) /\ pc[c] \in {"connect", "connected"}
    BY <1>1 DEF IInv, Served
  <1>3. Authenticated(c)
    BY <1>1, <1>2 DEF IInv, CallerState
  <1>4. database[k].wal = database[k].id.path
    BY <1>1 DEF IInv, Owned
  <1> QED BY <1>1, <1>2, <1>3, <1>4

\* No connection of another caller, however long it is kept open, lets a
\* caller into the shared database who has not the key of the file and, but
\* for a rekey in place while others read it, the key of that database.
THEOREM OnlyKeyHolders == Spec => []OnlyKeyHoldersAreServed
PROOF
  <1>1. IInv => OnlyKeyHoldersAreServed
    BY UsersAuthenticated DEF OnlyKeyHoldersAreServed, Authenticated, Served
  <1> QED BY <1>1, Invariance, PTL

\* The shared database of a caller has the configuration and the salt that it
\* authenticated, although Turso reads the file again, and others had opened
\* it before; it is the database it authenticated, unless a reader is left
\* from before the file was overwritten by a database of the same salt.
THEOREM ServedAsAuthenticated == Spec => []ServedWhatTheyAuthenticated
PROOF
  <1>1. IInv => ServedWhatTheyAuthenticated
    BY UsersAuthenticated DEF ServedWhatTheyAuthenticated, Served
  <1> QED BY <1>1, Invariance, PTL

\* Hard links share a database only without a WAL.
THEOREM OwnWal == Spec => []ServedFromTheirOwnWal
PROOF
  <1>1. ASSUME IInv, NEW k \in RegistryKeys, NEW c \in users[k]
        PROVE  database[k].wal = IF request[c].wal THEN request[c].path ELSE NoPath
    <2>1. /\ Authenticated(c) /\ database[k].id = codec[c].id
          /\ database[k].wal = database[k].id.path
      BY <1>1, UsersAuthenticated DEF Served
    <2>2. request[c] \in Requests /\ seen[c].keys.salt \in Salts
      BY <2>1 DEF Authenticated, Contents, Keys
    <2> QED BY <2>1, <2>2, CodecIdFields DEF Authenticated
  <1>2. IInv => ServedFromTheirOwnWal
    BY <1>1 DEF ServedFromTheirOwnWal
  <1> QED BY <1>2, Invariance, PTL

\* A mismatch of identities is always one of the WAL or of the database.
LEMMA MismatchIsConflict ==
  ASSUME IInv, [Next]_vars, NEW c \in Callers,
         pc[c] = "open", result'[c] = "IdentityMismatch"
  PROVE  \E d \in users[RegistryKey(request[c].path)] : Conflict(c, d)
PROOF
  <1> DEFINE k == RegistryKey(request[c].path)
  <1>1. Authenticated(c) /\ result[c] = None
    BY DEF IInv, CallerState
  <1>2. None # "IdentityMismatch"
    BY NamesAssumption DEF Results
  <1>3. k \in RegistryKeys
    BY <1>1, KeyInRegistry DEF Authenticated, Requests
  <1>4. ASSUME NEW d \in Callers, d # c,
               \/ Call(d) \/ Authenticate(d) \/ OpenDatabase(d)
               \/ Connect(d) \/ Close(d)
        PROVE  result'[c] = result[c]
    BY <1>4 DEF IInv, TypeOK, Call, Authenticate, OpenDatabase, Connect, Close,
       Fails
  <1>5. OpenDatabase(c)
    <2>1. ~(Call(c) \/ Authenticate(c) \/ Connect(c) \/ Close(c))
      BY DEF Call, Authenticate, Connect, Close
    <2>2. \A f \in Files : ~Replace(f)
      BY <1>1, <1>2 DEF Replace
    <2>3. ~UNCHANGED vars
      BY <1>1, <1>2 DEF vars
    <2> QED BY <1>1, <1>2, <1>4, <2>1, <2>2, <2>3 DEF Next
  <1>6. database[k] # None /\ database[k].id # codec[c].id
    BY <1>1, <1>2, <1>5 DEF IInv, TypeOK, OpenDatabase, Fails
  <1>7. PICK d \in users[k] : TRUE
    BY <1>3, <1>6 DEF IInv, Owned
  <1>8. Authenticated(d) /\ codec[c].id # codec[d].id
    BY <1>3, <1>6, UsersAuthenticated DEF Served
  <1>9. seen[c] = seen[d] => seen[c].keys.config = seen[d].keys.config
    OBVIOUS
  <1>10. /\ request[c].config = seen[c].keys.config
         /\ request[d].config = seen[d].keys.config
    BY <1>1, <1>8 DEF Authenticated, DeriveKeys
  <1>11. Conflict(c, d)
    BY <1>1, <1>8, <1>10 DEF Conflict, Authenticated, CodecId
  <1> QED BY <1>11

\* An open database keeps nobody out who could share it.
THEOREM RefusalsAreConflicts == Spec => RefusedOnlyOnConflict
PROOF
  <1>1. IInv /\ [Next]_vars =>
          [\A c \in Callers :
             pc[c] = "open" /\ result'[c] = "IdentityMismatch" =>
               \E d \in users[RegistryKey(request[c].path)] : Conflict(c, d)]_vars
    BY MismatchIsConflict
  <1> QED BY <1>1, Invariance, PTL DEF Spec, RefusedOnlyOnConflict
=============================================================================
