-------------------------- MODULE Preflight_proofs --------------------------
(***************************************************************************)
(* PreflightInv is an inductive invariant of Preflight, for any paths,     *)
(* links and number of changes of the directory; the properties of the     *)
(* checks follow from it.                                                  *)
(***************************************************************************)
EXTENDS Preflight, FiniteSetTheorems, WellFoundedInduction, TLAPS

-----------------------------------------------------------------------------
(* Following links.                                                        *)

LEMMA LeastNumber ==
  ASSUME NEW T \in SUBSET Nat, T # {}
  PROVE  \E t \in T : \A u \in T : t <= u
PROOF
  <1>1. PICK t \in T : \A u \in T : ~(<<u, t>> \in OpToRel(<, Nat))
    BY NatLessThanWellFounded, WFMin, Zenon
  <1>2. \A u \in T : ~(u < t)
    BY <1>1, Zenon DEF OpToRel
  <1> QED BY <1>2

\* A directory whose links keep the suffix of the name.
Directories ==
  {dir \in [Names -> Entries] : \A n \in Names : dir[n] \in Names => dir[n][2] = n[2]}

\* The first m links from name n.
Chain(dir, n, m) ==
  {f \in [0 .. m -> Names] :
     f[0] = n /\ \A i \in 1 .. m : f[i] = Target(dir, f[i - 1])}

LEMMA TargetType ==
  ASSUME NEW dir \in Directories, NEW n \in Names
  PROVE  Target(dir, n) \in Names /\ Target(dir, n)[2] = n[2]
  BY DEF Directories, Target

\* Chains of every length exist.
LEMMA ChainExists ==
  ASSUME NEW dir \in Directories, NEW n \in Names, NEW m \in Nat
  PROVE  Chain(dir, n, m) # {}
PROOF
  <1> DEFINE T == {k \in Nat : Chain(dir, n, k) = {}}
  <1>1. ASSUME T # {} PROVE FALSE
    <2>1. PICK t \in T : \A u \in T : t <= u
      BY <1>1, LeastNumber
    <2>2. CASE t = 0
      <3>1. [i \in 0 .. 0 |-> n] \in Chain(dir, n, 0)
        BY DEF Chain
      <3> QED BY <2>1, <2>2, <3>1
    <2>3. CASE t # 0
      <3>1. t - 1 \in Nat /\ t - 1 \notin T
        BY <2>1, <2>3
      <3>2. PICK f : f \in Chain(dir, n, t - 1)
        BY <3>1
      <3> DEFINE g == [i \in 0 .. t |-> IF i = t THEN Target(dir, f[t - 1]) ELSE f[i]]
      <3>3. f[t - 1] \in Names
        BY <3>1, <3>2 DEF Chain
      <3>4. g \in [0 .. t -> Names]
        BY <3>1, <3>2, <3>3, TargetType DEF Chain
      <3>5. g[0] = n
        BY <2>1, <2>3, <3>2 DEF Chain
      <3>6. ASSUME NEW i \in 1 .. t PROVE g[i] = Target(dir, g[i - 1])
        BY <2>1, <3>1, <3>2, <3>6 DEF Chain
      <3>7. g \in Chain(dir, n, t)
        BY <3>4, <3>5, <3>6 DEF Chain
      <3> QED BY <2>1, <3>7
    <2> QED BY <2>2, <2>3
  <1> QED BY <1>1

\* A chain is determined by its length, and by the entries of names with its suffix.
LEMMA ChainUnique ==
  ASSUME NEW d1 \in Directories, NEW d2 \in Directories, NEW n \in Names,
         \A x \in Names : x[2] = n[2] => d1[x] = d2[x],
         NEW m1 \in Nat, NEW m2 \in Nat,
         NEW f \in Chain(d1, n, m1), NEW g \in Chain(d2, n, m2),
         NEW k \in Nat, k <= m1, k <= m2
  PROVE  f[k] = g[k] /\ f[k] \in Names /\ f[k][2] = n[2]
PROOF
  <1> DEFINE Good(i) == f[i] = g[i] /\ f[i] \in Names /\ f[i][2] = n[2]
             T == {i \in Nat : i <= k /\ ~Good(i)}
  <1>1. ASSUME T # {} PROVE FALSE
    <2>1. PICK t \in T : \A u \in T : t <= u
      BY <1>1, LeastNumber
    <2>2. CASE t = 0
      BY <2>1, <2>2 DEF Chain
    <2>3. CASE t # 0
      <3>1. t - 1 \in Nat /\ t - 1 <= k /\ Good(t - 1) /\ t \in 1 .. m1 /\ t \in 1 .. m2
        BY <2>1, <2>3
      <3>2. f[t] = Target(d1, f[t - 1]) /\ g[t] = Target(d2, g[t - 1])
        BY <3>1 DEF Chain
      <3>3. Target(d1, f[t - 1]) = Target(d2, f[t - 1])
        BY <3>1 DEF Target
      <3>4. Good(t)
        BY <3>1, <3>2, <3>3, TargetType
      <3> QED BY <2>1, <3>4
    <2> QED BY <2>2, <2>3
  <1> QED BY <1>1

\* The recursive definition of a walk along the links has a solution, so that
\* FollowIn is the end of the chain.
LEMMA FollowIsChain ==
  ASSUME NEW dir \in Directories, NEW n \in Names
  PROVE  \E f \in Chain(dir, n, Cardinality(Paths)) :
           FollowIn(dir, n) = f[Cardinality(Paths)]
PROOF
  <1> DEFINE c == Cardinality(Paths)
             w == [k \in Nat |-> (CHOOSE f \in Chain(dir, n, k) : TRUE)[k]]
             Walk(walk) == walk = [k \in Nat |-> IF k = 0 THEN n ELSE Target(dir, walk[k - 1])]
             walk == CHOOSE walk : Walk(walk)
  <1>1. c \in Nat
    BY PreflightAssumption, FS_CardinalityType
  <1>2. ASSUME NEW k \in Nat
        PROVE  w[k] = IF k = 0 THEN n ELSE Target(dir, w[k - 1])
    <2> DEFINE f == CHOOSE f \in Chain(dir, n, k) : TRUE
    <2>1. f \in Chain(dir, n, k) /\ w[k] = f[k]
      BY ChainExists
    <2> HIDE DEF f
    <2>2. CASE k = 0
      BY <2>1, <2>2 DEF Chain
    <2>3. CASE k # 0
      <3> DEFINE g == CHOOSE g \in Chain(dir, n, k - 1) : TRUE
      <3>1. k - 1 \in Nat
        BY <2>3
      <3>2. g \in Chain(dir, n, k - 1) /\ w[k - 1] = g[k - 1]
        BY <3>1, ChainExists
      <3> HIDE DEF g, w
      <3>3. f[k - 1] = g[k - 1]
        BY <2>1, <3>1, <3>2, ChainUnique
      <3>4. f[k] = Target(dir, f[k - 1])
        BY <2>1, <2>3 DEF Chain
      <3> QED BY <2>1, <2>3, <3>2, <3>3, <3>4
    <2> QED BY <2>2, <2>3
  <1>3. Walk(w)
    <2>1. w = [k \in Nat |-> w[k]]
      OBVIOUS
    <2> HIDE DEF w
    <2> QED BY <1>2, <2>1
  <1> HIDE DEF w
  <1>4. Walk(walk)
    BY <1>3, Zenon
  <1>5. FollowIn(dir, n) = walk[c]
    BY DEF FollowIn
  <1> HIDE DEF walk
  <1>6. walk[0] = n
    BY <1>4
  <1>7. ASSUME NEW k \in Nat, k # 0
        PROVE  walk[k] = Target(dir, walk[k - 1])
    BY <1>4, <1>7
  <1> HIDE DEF Walk
  <1>8. ASSUME NEW k \in Nat PROVE walk[k] \in Names
    <2> DEFINE T == {i \in Nat : walk[i] \notin Names}
    <2>1. ASSUME T # {} PROVE FALSE
      <3>1. PICK t \in T : \A u \in T : t <= u
        BY <2>1, LeastNumber
      <3>2. t # 0
        BY <1>6, <3>1
      <3>3. t - 1 \in Nat /\ walk[t - 1] \in Names
        BY <3>1, <3>2
      <3> QED BY <1>7, <3>1, <3>2, <3>3, TargetType
    <2> QED BY <2>1
  <1>9. [i \in 0 .. c |-> walk[i]] \in Chain(dir, n, c)
    BY <1>1, <1>6, <1>7, <1>8 DEF Chain
  <1> QED BY <1>1, <1>5, <1>9

\* Links keep the suffix.
LEMMA FollowType ==
  ASSUME NEW dir \in Directories, NEW n \in Names
  PROVE  FollowIn(dir, n) \in Names /\ FollowIn(dir, n)[2] = n[2]
PROOF
  <1>1. PICK f \in Chain(dir, n, Cardinality(Paths)) :
          FollowIn(dir, n) = f[Cardinality(Paths)]
    BY FollowIsChain
  <1>2. Cardinality(Paths) \in Nat
    BY PreflightAssumption, FS_CardinalityType
  <1> QED BY <1>1, <1>2, ChainUnique

\* Where a name leads depends on names with its suffix only.
LEMMA FollowSame ==
  ASSUME NEW d1 \in Directories, NEW d2 \in Directories, NEW n \in Names,
         \A x \in Names : x[2] = n[2] => d1[x] = d2[x]
  PROVE  FollowIn(d1, n) = FollowIn(d2, n)
PROOF
  <1> DEFINE c == Cardinality(Paths)
  <1>1. c \in Nat
    BY PreflightAssumption, FS_CardinalityType
  <1>2. PICK f \in Chain(d1, n, c) : FollowIn(d1, n) = f[c]
    BY FollowIsChain
  <1>3. PICK g \in Chain(d2, n, c) : FollowIn(d2, n) = g[c]
    BY FollowIsChain
  <1> QED BY <1>1, <1>2, <1>3, ChainUnique

\* What is no link leads to itself.
LEMMA FollowEnd ==
  ASSUME NEW dir \in Directories, NEW n \in Names, dir[n] \notin Names
  PROVE  FollowIn(dir, n) = n
PROOF
  <1> DEFINE c == Cardinality(Paths)
             g == [i \in 0 .. c |-> n]
  <1>1. c \in Nat
    BY PreflightAssumption, FS_CardinalityType
  <1>2. PICK f \in Chain(dir, n, c) : FollowIn(dir, n) = f[c]
    BY FollowIsChain
  <1>3. g \in Chain(dir, n, c) /\ g[c] = n
    BY <1>1 DEF Chain, Target
  <1> HIDE DEF g
  <1> QED BY <1>1, <1>2, <1>3, ChainUnique

\* Once at its end, a chain stays there.
LEMMA ChainStays ==
  ASSUME NEW dir \in Directories, NEW n \in Names, NEW m \in Nat,
         NEW f \in Chain(dir, n, m), NEW t \in 0 .. m, dir[f[t]] \notin Names
  PROVE  f[m] = f[t]
PROOF
  <1> DEFINE S == {k \in Nat : k <= m /\ k >= t /\ f[k] # f[t]}
  <1>1. ASSUME S # {} PROVE FALSE
    <2>1. PICK s \in S : \A u \in S : s <= u
      BY <1>1, LeastNumber
    <2>2. s # t /\ s - 1 \in Nat /\ s - 1 >= t /\ s \in 1 .. m /\ s - 1 \notin S
      BY <2>1
    <2>3. f[s - 1] = f[t]
      BY <2>1, <2>2
    <2>4. f[s] = f[t]
      BY <2>2, <2>3 DEF Chain, Target
    <2> QED BY <2>1, <2>4
  <1> QED BY <1>1

\* A chain of links that ends is followed to its end, however long: what is
\* still a link after as many steps as there are paths is a loop.
THEOREM FollowToTheEnd ==
  ASSUME NEW dir \in Directories, NEW n \in Names,
         NEW m \in Nat, NEW f \in Chain(dir, n, m), dir[f[m]] \notin Names
  PROVE  FollowIn(dir, n) = f[m]
PROOF
  <1> DEFINE c == Cardinality(Paths)
             T == {k \in Nat : k <= m /\ dir[f[k]] \notin Names}
  <1>1. c \in Nat
    BY PreflightAssumption, FS_CardinalityType
  <1>2. PICK t \in T : \A u \in T : t <= u
    <2>1. m \in T
      OBVIOUS
    <2> QED BY <2>1, LeastNumber
  <1>3. \A k \in 0 .. m : f[k] \in Names /\ f[k][2] = n[2]
    BY ChainUnique
  <1>4. \A k \in 0 .. t - 1 : dir[f[k]] \in Names
    BY <1>2
  <1>5. f[m] = f[t]
    BY <1>2, ChainStays
  <1>6. t <= c
    <2> SUFFICES ASSUME t > c PROVE FALSE
      BY <1>1, <1>2
    \* the names before the end are different: else the chain would never end
    <2>1. ASSUME NEW i \in 0 .. t - 1, NEW j \in 0 .. t - 1, i < j, f[i] = f[j]
          PROVE  FALSE
      <3> DEFINE S == {k \in Nat : k <= t - j /\ f[i + k] # f[j + k]}
      <3>1. ASSUME S # {} PROVE FALSE
        <4>1. PICK s \in S : \A u \in S : s <= u
          BY <3>1, LeastNumber
        <4>2. s # 0
          BY <2>1, <4>1
        <4>3. s - 1 \in Nat /\ s - 1 <= t - j /\ s - 1 \notin S
          BY <4>1, <4>2
        <4>4. f[i + (s - 1)] = f[j + (s - 1)]
          BY <4>3
        <4>5. /\ i + s \in 1 .. m /\ j + s \in 1 .. m
              /\ (i + s) - 1 = i + (s - 1) /\ (j + s) - 1 = j + (s - 1)
          BY <1>2, <2>1, <4>1, <4>3
        <4>6. f[i + s] = Target(dir, f[i + (s - 1)]) /\ f[j + s] = Target(dir, f[j + (s - 1)])
          BY <4>5 DEF Chain
        <4> QED BY <4>1, <4>4, <4>6
      <3>2. t - j \in Nat /\ i + (t - j) \in 0 .. t - 1 /\ j + (t - j) = t
        BY <1>2, <2>1
      <3>3. f[i + (t - j)] = f[t]
        <4>1. t - j \notin S
          BY <3>1
        <4> QED BY <3>2, <4>1
      <3> QED BY <1>2, <1>4, <3>2, <3>3
    <2> DEFINE h == [k \in 1 .. t |-> f[k - 1][1]]
    <2>2. h \in [1 .. t -> Paths]
      BY <1>2, <1>3 DEF Names
    <2>3. ASSUME NEW i \in 1 .. t, NEW j \in 1 .. t, i # j, h[i] = h[j]
          PROVE  FALSE
      <3>1. /\ i - 1 \in 0 .. t - 1 /\ j - 1 \in 0 .. t - 1
            /\ i - 1 \in 0 .. m /\ j - 1 \in 0 .. m
        BY <1>2
      <3>2. f[i - 1] = f[j - 1]
        BY <1>3, <2>3, <3>1 DEF Names
      <3>3. i - 1 < j - 1 \/ j - 1 < i - 1
        BY <2>3
      <3> QED BY <2>1, <3>1, <3>2, <3>3
    <2>4. IsFiniteSet(1 .. t) /\ Cardinality(1 .. t) = t
      BY <1>2, FS_Interval
    <2> HIDE DEF h
    <2>5. IsFiniteSet(Paths) /\ Cardinality(Paths) < Cardinality(1 .. t)
      BY <2>4, PreflightAssumption
    <2>6. \E i, j \in 1 .. t : i # j /\ h[i] = h[j]
      BY <2>2, <2>4, <2>5, FS_PigeonHole
    <2> QED BY <2>3, <2>6
  <1>7. PICK g \in Chain(dir, n, c) : FollowIn(dir, n) = g[c]
    BY FollowIsChain
  <1>8. f[t] = g[t]
    BY <1>1, <1>2, <1>6, <1>7, ChainUnique
  <1>9. g[c] = g[t]
    BY <1>1, <1>2, <1>6, <1>7, <1>8, ChainStays
  <1> QED BY <1>5, <1>7, <1>8, <1>9

-----------------------------------------------------------------------------
(* The calls, written out.                                                 *)

LEMMA OpenReadonlyProgram ==
  LET P == Program("open_readonly") IN
  /\ Len(P) = 7
  /\ P[1] = <<"absent", "supplied", "-wal">>
  /\ P[2] = <<"absent", "supplied", "-journal">>
  /\ P[3] = <<"canonicalize">>
  /\ P[4] = <<"absent", "resolved", "-wal">>
  /\ P[5] = <<"absent", "resolved", "-journal">>
  /\ P[6] = <<"utf8">>
  /\ P[7] = <<"open">>
PROOF
  <1>1. Program("open_readonly") = OpenMain
    BY DEF Program
  <1> QED BY <1>1 DEF OpenMain, CheckCompanions, OpenConnection

LEMMA ReaderProgram ==
  LET P == Program("reader") IN
  /\ Len(P) = 7
  /\ P[1] = <<"absent", "supplied", "-wal">>
  /\ P[2] = <<"absent", "supplied", "-journal">>
  /\ P[3] = <<"canonicalize">>
  /\ P[4] = <<"absent", "resolved", "-wal">>
  /\ P[5] = <<"absent", "resolved", "-journal">>
  /\ P[6] = <<"ask">>
  /\ P[7] = <<"open">>
PROOF
  <1>1. Program("reader") = OpenReader
    BY DEF Program
  <1> QED BY <1>1 DEF OpenReader, CheckCompanions

LEMMA WithWalProgram ==
  LET P == Program("open_readonly_with_wal") IN
  /\ Len(P) = 11
  /\ P[1] = <<"absent", "supplied", "-journal">>
  /\ P[2] = <<"canonicalize">>
  /\ P[3] = <<"absent", "resolved", "-journal">>
  /\ P[4] = <<"regular", "resolved", NoSuffix>>
  /\ P[5] = <<"regular", "resolved", "-wal">>
  /\ P[6] = <<"alias_exists">>
  /\ P[7] = <<"alias_leads">>
  /\ P[8] = <<"alias_agrees">>
  /\ P[9] = <<"utf8">>
  /\ P[10] = <<"utf8">>
  /\ P[11] = <<"open">>
PROOF
  <1>1. Program("open_readonly_with_wal") = WalInputOpen \o OpenConnection
    BY DEF Program
  <1> QED BY <1>1 DEF WalInputOpen, RejectJournal, OpenConnection

LEMMA SnapshotProgram ==
  LET P == Program("wal_snapshot") IN
  /\ Len(P) = 12
  /\ P[1] = <<"absent", "supplied", "-journal">>
  /\ P[2] = <<"canonicalize">>
  /\ P[3] = <<"absent", "resolved", "-journal">>
  /\ P[4] = <<"regular", "resolved", NoSuffix>>
  /\ P[5] = <<"regular", "resolved", "-wal">>
  /\ P[6] = <<"alias_exists">>
  /\ P[7] = <<"alias_leads">>
  /\ P[8] = <<"alias_agrees">>
  /\ P[9] = <<"utf8">>
  /\ P[10] = <<"ask">>
  /\ P[11] = <<"utf8">>
  /\ P[12] = <<"open">>
PROOF
  <1>1. Program("wal_snapshot") = OpenWalSnapshot
    BY DEF Program
  <1> QED BY <1>1 DEF OpenWalSnapshot, WalInputOpen, RejectJournal, OpenConnection

LEMMA InspectProgram ==
  LET P == Program("inspect") IN
  /\ Len(P) = 6
  /\ P[1] = <<"regular", "supplied", NoSuffix>>
  /\ P[2] = <<"canonicalize">>
  /\ P[3] = <<"present", "supplied", "-wal">>
  /\ P[4] = <<"present", "resolved", "-wal">>
  /\ P[5] = <<"present", "supplied", "-journal">>
  /\ P[6] = <<"present", "resolved", "-journal">>
PROOF
  <1>1. Program("inspect") = Inspect
    BY DEF Program
  <1> QED BY <1>1 DEF Inspect, Presence

\* Before the main file's canonical path is known, the probes are about the
\* supplied path; nobody is asked and nothing is opened before the companions
\* were looked at.
CanonicalAt(c) == IF c \in MainCalls THEN 3 ELSE 2
CheckedAt(c) == CASE c \in MainCalls -> 5 [] c \in WalCalls -> 8 [] OTHER -> 6

AllCalls == {"open_readonly", "open_readonly_with_wal", "reader", "wal_snapshot", "inspect"}

Kinds == {"absent", "canonicalize", "regular", "alias_exists", "alias_leads",
          "alias_agrees", "utf8", "ask", "open", "present"}

\* What a step may be, by its place.
StepAllowed(c, i) ==
  LET s == Program(c)[i] IN
  /\ s[1] \in Kinds
  /\ s[1] = "canonicalize" <=> i = CanonicalAt(c)
  /\ i < CanonicalAt(c) => s[1] \in {"absent", "regular"} /\ s[2] = "supplied"
  /\ s[1] \in {"absent", "regular", "present"} =>
       s[2] \in {"supplied", "resolved"} /\ s[3] \in {NoSuffix, "-wal", "-journal"}
  /\ s[1] \in {"ask", "open"} => c # "inspect" /\ i > CheckedAt(c)
  /\ s[1] = "open" <=> c # "inspect" /\ i = Len(Program(c))
  /\ s[1] = "present" => c = "inspect" /\ s[3] \in {"-wal", "-journal"}
  /\ s[1] = "absent" => IF c \in MainCalls THEN s[3] \in {"-wal", "-journal"}
                        ELSE c \in WalCalls /\ s[3] = "-journal"
  /\ s[1] = "regular" => \/ s[3] = NoSuffix
                         \/ c \in WalCalls /\ s[2] = "resolved" /\ s[3] = "-wal"
  /\ s[1] = "regular" /\ c \in WalCalls => s[2] = "resolved"
  /\ s[1] = "utf8" => c \in WalCalls \cup {"open_readonly"}
  /\ s[1] = "alias_exists" <=> c \in WalCalls /\ i = 6
  /\ s[1] = "alias_leads" <=> c \in WalCalls /\ i = 7
  /\ s[1] = "alias_agrees" <=> c \in WalCalls /\ i = 8

LEMMA ProgramShape ==
  ASSUME NEW c \in AllCalls
  PROVE  /\ Len(Program(c)) \in 6 .. 12
         /\ Len(Program(c)) >= CheckedAt(c)
         /\ CanonicalAt(c) \in 2 .. 3
         /\ CheckedAt(c) \in 5 .. 8
         /\ \A i \in 1 .. Len(Program(c)) : StepAllowed(c, i)
PROOF
  <1>1. CASE c = "open_readonly"
    <2>1. /\ StepAllowed("open_readonly", 1)
          /\ StepAllowed("open_readonly", 2)
          /\ StepAllowed("open_readonly", 3)
      BY OpenReadonlyProgram DEF StepAllowed, CanonicalAt, CheckedAt, MainCalls, WalCalls, Kinds
    <2>2. /\ StepAllowed("open_readonly", 4)
          /\ StepAllowed("open_readonly", 5)
          /\ StepAllowed("open_readonly", 6)
      BY OpenReadonlyProgram DEF StepAllowed, CanonicalAt, CheckedAt, MainCalls, WalCalls, Kinds
    <2>3. /\ StepAllowed("open_readonly", 7)
      BY OpenReadonlyProgram DEF StepAllowed, CanonicalAt, CheckedAt, MainCalls, WalCalls, Kinds
    <2>4. \A i \in 1 .. 7 : StepAllowed(c, i)
      <3> TAKE i \in 1 .. 7
      <3>1. i = 1 \/ i = 2 \/ i = 3 \/ i = 4 \/ i = 5 \/ i = 6 \/ i = 7
        OBVIOUS
      <3> QED BY <1>1, <3>1, <2>1, <2>2, <2>3
    <2>5. Len(Program(c)) = 7
      BY <1>1, OpenReadonlyProgram
    <2>6. CanonicalAt(c) = 3 /\ CheckedAt(c) = 5
      BY <1>1 DEF CanonicalAt, CheckedAt, MainCalls, WalCalls
    <2> QED BY <2>4, <2>5, <2>6
  <1>2. CASE c = "reader"
    <2>1. /\ StepAllowed("reader", 1)
          /\ StepAllowed("reader", 2)
          /\ StepAllowed("reader", 3)
      BY ReaderProgram DEF StepAllowed, CanonicalAt, CheckedAt, MainCalls, WalCalls, Kinds
    <2>2. /\ StepAllowed("reader", 4)
          /\ StepAllowed("reader", 5)
          /\ StepAllowed("reader", 6)
      BY ReaderProgram DEF StepAllowed, CanonicalAt, CheckedAt, MainCalls, WalCalls, Kinds
    <2>3. /\ StepAllowed("reader", 7)
      BY ReaderProgram DEF StepAllowed, CanonicalAt, CheckedAt, MainCalls, WalCalls, Kinds
    <2>4. \A i \in 1 .. 7 : StepAllowed(c, i)
      <3> TAKE i \in 1 .. 7
      <3>1. i = 1 \/ i = 2 \/ i = 3 \/ i = 4 \/ i = 5 \/ i = 6 \/ i = 7
        OBVIOUS
      <3> QED BY <1>2, <3>1, <2>1, <2>2, <2>3
    <2>5. Len(Program(c)) = 7
      BY <1>2, ReaderProgram
    <2>6. CanonicalAt(c) = 3 /\ CheckedAt(c) = 5
      BY <1>2 DEF CanonicalAt, CheckedAt, MainCalls, WalCalls
    <2> QED BY <2>4, <2>5, <2>6
  <1>3. CASE c = "open_readonly_with_wal"
    <2>1. /\ StepAllowed("open_readonly_with_wal", 1)
          /\ StepAllowed("open_readonly_with_wal", 2)
          /\ StepAllowed("open_readonly_with_wal", 3)
      BY WithWalProgram DEF StepAllowed, CanonicalAt, CheckedAt, MainCalls, WalCalls, Kinds
    <2>2. /\ StepAllowed("open_readonly_with_wal", 4)
          /\ StepAllowed("open_readonly_with_wal", 5)
          /\ StepAllowed("open_readonly_with_wal", 6)
      BY WithWalProgram DEF StepAllowed, CanonicalAt, CheckedAt, MainCalls, WalCalls, Kinds
    <2>3. /\ StepAllowed("open_readonly_with_wal", 7)
          /\ StepAllowed("open_readonly_with_wal", 8)
          /\ StepAllowed("open_readonly_with_wal", 9)
      BY WithWalProgram DEF StepAllowed, CanonicalAt, CheckedAt, MainCalls, WalCalls, Kinds
    <2>4. /\ StepAllowed("open_readonly_with_wal", 10)
          /\ StepAllowed("open_readonly_with_wal", 11)
      BY WithWalProgram DEF StepAllowed, CanonicalAt, CheckedAt, MainCalls, WalCalls, Kinds
    <2>5. \A i \in 1 .. 11 : StepAllowed(c, i)
      <3> TAKE i \in 1 .. 11
      <3>1. i = 1 \/ i = 2 \/ i = 3 \/ i = 4 \/ i = 5 \/ i = 6 \/ i = 7 \/ i = 8 \/ i = 9 \/ i = 10 \/ i = 11
        OBVIOUS
      <3> QED BY <1>3, <3>1, <2>1, <2>2, <2>3, <2>4
    <2>6. Len(Program(c)) = 11
      BY <1>3, WithWalProgram
    <2>7. CanonicalAt(c) = 2 /\ CheckedAt(c) = 8
      BY <1>3 DEF CanonicalAt, CheckedAt, MainCalls, WalCalls
    <2> QED BY <2>5, <2>6, <2>7
  <1>4. CASE c = "wal_snapshot"
    <2>1. /\ StepAllowed("wal_snapshot", 1)
          /\ StepAllowed("wal_snapshot", 2)
          /\ StepAllowed("wal_snapshot", 3)
      BY SnapshotProgram DEF StepAllowed, CanonicalAt, CheckedAt, MainCalls, WalCalls, Kinds
    <2>2. /\ StepAllowed("wal_snapshot", 4)
          /\ StepAllowed("wal_snapshot", 5)
          /\ StepAllowed("wal_snapshot", 6)
      BY SnapshotProgram DEF StepAllowed, CanonicalAt, CheckedAt, MainCalls, WalCalls, Kinds
    <2>3. /\ StepAllowed("wal_snapshot", 7)
          /\ StepAllowed("wal_snapshot", 8)
          /\ StepAllowed("wal_snapshot", 9)
      BY SnapshotProgram DEF StepAllowed, CanonicalAt, CheckedAt, MainCalls, WalCalls, Kinds
    <2>4. /\ StepAllowed("wal_snapshot", 10)
          /\ StepAllowed("wal_snapshot", 11)
          /\ StepAllowed("wal_snapshot", 12)
      BY SnapshotProgram DEF StepAllowed, CanonicalAt, CheckedAt, MainCalls, WalCalls, Kinds
    <2>5. \A i \in 1 .. 12 : StepAllowed(c, i)
      <3> TAKE i \in 1 .. 12
      <3>1. i = 1 \/ i = 2 \/ i = 3 \/ i = 4 \/ i = 5 \/ i = 6 \/ i = 7 \/ i = 8 \/ i = 9 \/ i = 10 \/ i = 11 \/ i = 12
        OBVIOUS
      <3> QED BY <1>4, <3>1, <2>1, <2>2, <2>3, <2>4
    <2>6. Len(Program(c)) = 12
      BY <1>4, SnapshotProgram
    <2>7. CanonicalAt(c) = 2 /\ CheckedAt(c) = 8
      BY <1>4 DEF CanonicalAt, CheckedAt, MainCalls, WalCalls
    <2> QED BY <2>5, <2>6, <2>7
  <1>5. CASE c = "inspect"
    <2>1. /\ StepAllowed("inspect", 1)
          /\ StepAllowed("inspect", 2)
          /\ StepAllowed("inspect", 3)
      BY InspectProgram DEF StepAllowed, CanonicalAt, CheckedAt, MainCalls, WalCalls, Kinds
    <2>2. /\ StepAllowed("inspect", 4)
          /\ StepAllowed("inspect", 5)
          /\ StepAllowed("inspect", 6)
      BY InspectProgram DEF StepAllowed, CanonicalAt, CheckedAt, MainCalls, WalCalls, Kinds
    <2>3. \A i \in 1 .. 6 : StepAllowed(c, i)
      <3> TAKE i \in 1 .. 6
      <3>1. i = 1 \/ i = 2 \/ i = 3 \/ i = 4 \/ i = 5 \/ i = 6
        OBVIOUS
      <3> QED BY <1>5, <3>1, <2>1, <2>2
    <2>4. Len(Program(c)) = 6
      BY <1>5, InspectProgram
    <2>5. CanonicalAt(c) = 2 /\ CheckedAt(c) = 6
      BY <1>5 DEF CanonicalAt, CheckedAt, MainCalls, WalCalls
    <2> QED BY <2>3, <2>4, <2>5
  <1> QED BY <1>1, <1>2, <1>3, <1>4, <1>5 DEF AllCalls

-----------------------------------------------------------------------------
(* Names, types and places.                                                *)

LEMMA NameTypes ==
  /\ \A path \in Paths, suffix \in {NoSuffix, "-wal", "-journal"} :
       /\ Companion(path, suffix) \in Names
       /\ Companion(path, suffix)[1] = path /\ Companion(path, suffix)[2] = suffix
  /\ \A n \in Names : /\ n = Companion(n[1], n[2]) /\ n[1] \in Paths
                      /\ n[2] \in {NoSuffix, "-wal", "-journal"}
  BY PreflightAssumption DEF Companion, Names

LEMMA SuffixesDiffer ==
  NoSuffix # "-wal" /\ NoSuffix # "-journal"
  BY Zenon DEF NoSuffix

\* The directory is one whose links keep the suffix.
LEMMA DirectoryType ==
  ASSUME TypeOK, OrderInv
  PROVE  entry \in Directories
  BY PreflightAssumption DEF TypeOK, OrderInv, Directories

LEMMA LeadsFacts ==
  ASSUME TypeOK, OrderInv, NEW n \in Names
  PROVE  /\ Follow(n) \in Names /\ Follow(n)[2] = n[2]
         /\ Follow(n) = Companion(Follow(n)[1], n[2]) /\ Follow(n)[1] \in Paths
         /\ Leads(n) => HasEntry(n) /\ Follow(Follow(n)) = Follow(n)
         /\ entry[n] \notin Names => Follow(n) = n
PROOF
  <1>1. entry \in Directories
    BY DirectoryType
  <1>2. Follow(n) \in Names /\ Follow(n)[2] = n[2]
    BY <1>1, FollowType DEF Follow
  <1>3. ASSUME entry[n] \notin Names PROVE Follow(n) = n
    BY <1>1, <1>3, FollowEnd DEF Follow
  <1>4. ASSUME Leads(n) PROVE HasEntry(n) /\ Follow(Follow(n)) = Follow(n)
    <2>1. entry[Follow(n)] \notin Names /\ entry[Follow(n)] # NoEntry
      BY <1>4, PreflightAssumption DEF Leads
    <2>2. Follow(Follow(n)) = Follow(n)
      BY <1>1, <1>2, <2>1, FollowEnd DEF Follow
    <2>3. entry[n] # NoEntry
      BY <1>3, <2>1, PreflightAssumption
    <2> QED BY <2>2, <2>3 DEF HasEntry
  <1> QED BY <1>2, <1>3, <1>4, NameTypes

LEMMA Place ==
  ASSUME TypeOK
  PROVE  /\ call \in AllCalls
         /\ Len(Program(call)) \in Nat
         /\ at \in 1 .. Len(Program(call)) + 1
         /\ CanonicalAt(call) \in 2 .. 3
         /\ CheckedAt(call) \in 5 .. 8 /\ CheckedAt(call) <= Len(Program(call))
         /\ \A i \in 1 .. Len(Program(call)) : StepAllowed(call, i)
         /\ outcome = "running" => at \in 1 .. Len(Program(call)) /\ StepAllowed(call, at)
         /\ \A i \in 1 .. at - 1 : i \in 1 .. Len(Program(call)) /\ StepAllowed(call, i)
         /\ Supplied \in Paths
PROOF
  <1>1. call \in AllCalls
    BY PreflightAssumption DEF TypeOK, AllCalls
  <1>2. /\ Len(Program(call)) \in 6 .. 12
        /\ Len(Program(call)) >= CheckedAt(call)
        /\ CanonicalAt(call) \in 2 .. 3
        /\ CheckedAt(call) \in 5 .. 8
        /\ \A i \in 1 .. Len(Program(call)) : StepAllowed(call, i)
    BY <1>1, ProgramShape
  <1>3. at \in 1 .. Len(Program(call)) + 1 /\ (outcome = "running" => at <= Len(Program(call)))
    BY DEF TypeOK
  <1>4. \A i \in 1 .. at - 1 : i \in 1 .. Len(Program(call))
    BY <1>2, <1>3
  <1> QED BY <1>1, <1>2, <1>3, <1>4, PreflightAssumption

\* The main file's canonical path is known once its step is behind.
LEMMA Canonical ==
  ASSUME TypeOK
  PROVE  Passed("canonicalize") # {} <=> at > CanonicalAt(call)
PROOF
  <1>1. ASSUME NEW i \in Passed("canonicalize") PROVE at > CanonicalAt(call)
    BY Place DEF Passed, StepAllowed
  <1>2. ASSUME at > CanonicalAt(call) PROVE CanonicalAt(call) \in Passed("canonicalize")
    BY <1>2, Place DEF Passed, StepAllowed
  <1> QED BY <1>1, <1>2

\* A step that went well.
LEMMA Advance ==
  ASSUME TypeOK, outcome = "running", GoTo(at + 1), UNCHANGED call
  PROVE  /\ at' = at + 1 /\ at' \in 1 .. Len(Program(call)) + 1
         /\ \A do : Passed(do)' = {i \in 1 .. at : Program(call)[i][1] = do}
         /\ outcome' \in {"running", "done"}
         /\ outcome' = "done" => at' = Len(Program(call)) + 1
         /\ outcome' = "running" => at' <= Len(Program(call))
PROOF
  <1>1. at' = at + 1 /\ at \in 1 .. Len(Program(call)) /\ Len(Program(call)) \in Nat
    BY Place DEF GoTo
  <1>2. \A do : Passed(do)' = {i \in 1 .. at : Program(call)[i][1] = do}
    BY <1>1 DEF Passed
  <1> QED BY <1>1, <1>2 DEF GoTo

\* Nothing but the place in the program changes for what was seen before.
LEMMA Kept ==
  ASSUME UNCHANGED <<environment, call, resolved>>
  PROVE  /\ \A i : ProbedAt(i)' = ProbedAt(i)
         /\ \A n : /\ Throughout(n)' = Throughout(n) /\ Never(n)' = Never(n)
                   /\ HasEntry(n)' = HasEntry(n) /\ Follow(n)' = Follow(n)
                   /\ Leads(n)' = Leads(n)
         /\ Main' = Main /\ Wal' = Wal /\ MainSteady' = MainSteady
         /\ WalsSteady' = WalsSteady /\ Documented' = Documented
         /\ \A i : Holds(i)' = Holds(i)
PROOF
  <1>1. entry' = entry /\ steady' = steady /\ resolved' = resolved /\ call' = call
    BY DEF environment
  <1> QED BY <1>1 DEF ProbedAt, Where, Throughout, Never, HasEntry, Follow, Leads, Main, Wal,
                      MainSteady, WalsSteady, Documented, Holds, Forbidden

-----------------------------------------------------------------------------
(* Steps that keep PreflightInv.                                           *)

LEMMA RefusedStep ==
  ASSUME PreflightInv, outcome = "running",
         NEW why \in {"Companion", "Io", "WalInput", "NonUtf8Path"}, Refuse(why),
         UNCHANGED <<call, environment, resolved, aliasWal, asked, found, opened>>,
         faulty' \in BOOLEAN,
         changes = 0 /\ ~faulty' => ~faulty /\ ~Documented
  PROVE  PreflightInv'
PROOF
  <1>1. /\ UNCHANGED <<at, entry, steady, changes, call, resolved, aliasWal, asked, found, opened>>
        /\ outcome' = why
    BY DEF Refuse, environment
  <1>2. TypeOK'
    BY <1>1 DEF PreflightInv, TypeOK
  <1>3. \A do : Passed(do)' = Passed(do) /\ NextIs(do)' = NextIs(do)
    BY <1>1 DEF Passed, NextIs, Step
  <1>4. OrderInv'
    BY <1>1, <1>3 DEF PreflightInv, OrderInv
  <1>5. MainInv'
    BY <1>1, <1>3, Kept DEF PreflightInv, MainInv, Main
  <1>6. CompanionInv'
    BY <1>1, <1>3, Kept DEF PreflightInv, CompanionInv
  <1>7. AliasInv'
    BY <1>1, <1>3, Kept DEF PreflightInv, AliasInv, Beside
  <1>8. AcceptInv'
    BY <1>1, <1>3, Kept DEF PreflightInv, AcceptInv, Beside
  <1> QED BY <1>2, <1>4, <1>5, <1>6, <1>7, <1>8 DEF PreflightInv

\* A step of kind do goes well: what it has seen and what it leaves behind.
GoesWell(do) ==
  /\ outcome = "running" /\ Program(call)[at][1] = do /\ GoTo(at + 1)
  /\ UNCHANGED <<call, environment, resolved, faulty>>
  /\ do = "absent" => ~HasEntry(ProbedAt(at))
  /\ do = "regular" => HasEntry(ProbedAt(at))
  /\ found \subseteq found' /\ found' \subseteq Suffixes
  /\ do = "present" => Program(call)[at][3] \in found' \/ ~HasEntry(ProbedAt(at))
  /\ \A suffix \in found' \ found :
       /\ do = "present"
       /\ HasEntry(Companion(Supplied, suffix)) \/ HasEntry(Companion(resolved, suffix))
  /\ asked' \in BOOLEAN /\ (asked' => asked \/ do = "ask")
  /\ opened' = opened \/ (opened' = Follow(Main) /\ do = "open")
  /\ aliasWal' \in Names
  /\ do = "alias_exists" => HasEntry(Beside)
  /\ do = "alias_leads" => aliasWal' = Follow(Beside)
  /\ do = "alias_agrees" => aliasWal = Follow(Wal)
  /\ changes = 0 /\ ~faulty => Holds(at)

\* Such a step keeps the invariant, unless it moves the canonical path.
LEMMA AdvanceStep ==
  ASSUME PreflightInv, NEW do, do # "canonicalize", GoesWell(do)
  PROVE  PreflightInv'
PROOF
  <1> DEFINE P == Program(call)
  <1> USE DEF GoesWell
  <1>1. /\ UNCHANGED <<entry, steady, changes, call, resolved, faulty>>
        /\ TypeOK /\ OrderInv /\ MainInv /\ CompanionInv /\ AliasInv /\ AcceptInv
    BY DEF environment, PreflightInv
  <1>2. /\ at' = at + 1 /\ at' \in 1 .. Len(P) + 1
        /\ \A d : Passed(d)' = {i \in 1 .. at : P[i][1] = d}
        /\ outcome' \in {"running", "done"}
        /\ outcome' = "done" => at' = Len(P) + 1
        /\ outcome' = "running" => at' <= Len(P)
    BY <1>1, Advance
  <1>3. /\ at \in 1 .. Len(P) /\ Len(P) \in Nat /\ StepAllowed(call, at)
        /\ at' <= Len(P) => StepAllowed(call, at')
    BY <1>1, <1>2, Place
  <1>4. \A d : Passed(d)' = Passed(d) \cup (IF do = d THEN {at} ELSE {})
    BY <1>2, <1>3 DEF Passed
  <1>5. Main \in Names
    BY <1>1, NameTypes DEF TypeOK, Main
  <1>6. TypeOK'
    <2>1. opened' \in Names \cup {NoEntry}
      BY <1>1, <1>5, LeadsFacts DEF TypeOK
    <2>2. /\ entry' \in [Names -> Entries] /\ call' \in Calls
          /\ resolved' \in Paths /\ steady' \subseteq Names /\ changes' \in 0 .. MaxChanges
          /\ faulty' \in BOOLEAN
      BY <1>1 DEF TypeOK
    <2>3. asked' \in BOOLEAN
      OBVIOUS
    <2>4. /\ at' \in 1 .. Len(Program(call')) + 1
          /\ outcome' = "running" => at' <= Len(Program(call'))
          /\ outcome' \in {"running", "done"}
      BY <1>1, <1>2
    <2> QED BY <2>1, <2>2, <2>3, <2>4 DEF TypeOK
  <1>7. OrderInv'
    <2>1. opened' # NoEntry => Passed("open")' # {}
      BY <1>1, <1>4 DEF OrderInv
    <2>2. asked' => Passed("ask")' # {}
      BY <1>1, <1>4 DEF OrderInv
    <2>3. found' # {} => Passed("present")' # {}
      BY <1>1, <1>4 DEF OrderInv
    <2>4. Passed("canonicalize")' = {} => resolved' = Supplied
      BY <1>1, <1>4 DEF OrderInv
    <2> QED BY <1>1, <1>2, <2>1, <2>2, <2>3, <2>4 DEF OrderInv
  <1>8. Passed("canonicalize")' = Passed("canonicalize")
    BY <1>4
  <1>9. MainInv'
    <2>1. ASSUME Passed("canonicalize") # {}, MainSteady, opened' = Follow(Main)
          PROVE  opened' = Main
      <3>1. entry[Main] \notin Names
        BY <1>1, <2>1, PreflightAssumption DEF MainInv
      <3> QED BY <1>1, <1>5, <2>1, <3>1, LeadsFacts
    <2> QED BY <1>1, <1>8, <2>1, Kept DEF MainInv, Main
  <1>10. CompanionInv'
    <2>1. \A i \in Passed("absent")' : ~Throughout(ProbedAt(i))'
      BY <1>1, <1>4, Kept DEF CompanionInv, Throughout
    <2>2. \A i \in Passed("regular")' : ~Never(ProbedAt(i))'
      BY <1>1, <1>4, Kept DEF CompanionInv, Never
    <2>3. \A i \in Passed("present")' : Program(call)[i][3] \in found' \/ ~Throughout(ProbedAt(i))'
      BY <1>1, <1>4, Kept DEF CompanionInv, Throughout
    <2>4. \A suffix \in found' :
            ~Never(Companion(Supplied, suffix)) \/ ~Never(Companion(resolved, suffix))
      BY <1>1 DEF CompanionInv, Never
    <2> QED BY <1>1, <2>1, <2>2, <2>3, <2>4, Kept DEF CompanionInv
  <1>11. AliasInv'
    <2>1. NextIs("alias_agrees")' => do = "alias_leads"
      BY <1>1, <1>2, <1>3 DEF NextIs, Step, StepAllowed
    <2>2. do = "alias_agrees" => NextIs("alias_agrees")
      BY <1>3 DEF NextIs, Step
    <2> QED BY <1>1, <1>4, <2>1, <2>2, Kept DEF AliasInv, Beside
  <1>12. AcceptInv'
    <2>1. \A i \in 1 .. at' - 1 : i \in 1 .. at - 1 \/ i = at
      BY <1>2, <1>3
    <2>2. NextIs("alias_agrees")' => do = "alias_leads"
      BY <1>1, <1>2, <1>3 DEF NextIs, Step, StepAllowed
    <2>3. NextIs("alias_leads")' => do = "alias_exists"
      BY <1>1, <1>2, <1>3 DEF NextIs, Step, StepAllowed
    <2>4. do = "alias_leads" => NextIs("alias_leads")
      BY <1>3 DEF NextIs, Step
    <2> QED BY <1>1, <1>2, <2>1, <2>2, <2>3, <2>4, Kept DEF AcceptInv, Beside
  <1> QED BY <1>6, <1>7, <1>9, <1>10, <1>11, <1>12 DEF PreflightInv

\* The step that moves the canonical path: nothing was seen beside it before.
LEMMA CanonicalizeStep ==
  ASSUME PreflightInv, Canonicalize, UNCHANGED <<call, environment>>
  PROVE  PreflightInv'
PROOF
  <1> DEFINE P == Program(call)
             main == Companion(Supplied, NoSuffix)
  <1>1. /\ TypeOK /\ OrderInv /\ MainInv /\ CompanionInv /\ AliasInv /\ AcceptInv
        /\ UNCHANGED <<entry, steady, changes, call, aliasWal, asked, found, opened, faulty>>
        /\ outcome = "running" /\ P[at][1] = "canonicalize"
    BY DEF PreflightInv, Canonicalize, environment, Ready, Step
  <1>2. CASE ~Leads(main)
    <2>1. Refuse("Io") /\ UNCHANGED resolved
      BY <1>2 DEF Canonicalize
    <2>2. ~Documented
      BY <1>2, PreflightAssumption DEF Documented, Leads
    <2> QED BY <1>1, <2>1, <2>2, RefusedStep DEF TypeOK
  <1>3. CASE Leads(main)
    <2>1. resolved' = Follow(main)[1] /\ GoTo(at + 1)
      BY <1>3 DEF Canonicalize
    <2>2. /\ at' = at + 1 /\ at' \in 1 .. Len(P) + 1
          /\ \A d : Passed(d)' = {i \in 1 .. at : P[i][1] = d}
          /\ outcome' \in {"running", "done"}
          /\ outcome' = "done" => at' = Len(P) + 1
          /\ outcome' = "running" => at' <= Len(P)
      BY <1>1, <2>1, Advance
    <2>3. /\ at \in 1 .. Len(P) /\ Len(P) \in Nat /\ at = CanonicalAt(call)
          /\ at' <= Len(P) => StepAllowed(call, at')
          /\ call \in AllCalls
      BY <1>1, <2>2, Place DEF StepAllowed
    <2>4. \A i \in 1 .. at - 1 :
            P[i][1] \in {"absent", "regular"} /\ P[i][2] = "supplied"
      BY <1>1, <2>3, Place DEF StepAllowed
    <2>5. Passed("ask") = {} /\ Passed("open") = {} /\ Passed("present") = {}
          /\ Passed("alias_agrees") = {} /\ Passed("canonicalize") = {}
      BY <2>4 DEF Passed
    <2>6. ~asked /\ opened = NoEntry /\ found = {}
      BY <1>1, <2>5 DEF OrderInv
    <2>7. /\ main \in Names /\ main[2] = NoSuffix /\ Follow(main) \in Names
          /\ Follow(main) = Companion(Follow(main)[1], NoSuffix)
          /\ Follow(main)[1] \in Paths
      <3>1. main \in Names /\ main[2] = NoSuffix
        BY <1>1, NameTypes, Place
      <3> QED BY <1>1, <3>1, LeadsFacts
    <2>8. Main' = Follow(main)
      BY <2>1, <2>7 DEF Main
    <2>9. /\ \A i \in 1 .. at - 1 : ProbedAt(i)' = ProbedAt(i)
          /\ \A n : /\ Throughout(n)' = Throughout(n) /\ Never(n)' = Never(n)
                    /\ HasEntry(n)' = HasEntry(n) /\ Follow(n)' = Follow(n)
                    /\ Leads(n)' = Leads(n)
      BY <1>1, <2>4 DEF ProbedAt, Where, Throughout, Never, HasEntry, Follow, Leads
    <2>10. /\ Passed("absent")' = Passed("absent") /\ Passed("regular")' = Passed("regular")
           /\ Passed("present")' = {} /\ Passed("alias_agrees")' = {}
           /\ at \in Passed("canonicalize")'
      <3>1. \A i \in 1 .. at : i \in 1 .. at - 1 \/ i = at
        BY <2>3
      <3>2. \A d : d # "canonicalize" => Passed(d)' = Passed(d)
        BY <1>1, <2>2, <2>3, <3>1 DEF Passed
      <3>3. at \in Passed("canonicalize")'
        BY <1>1, <2>2, <2>3
      <3> QED BY <2>5, <3>2, <3>3
    <2>11. ~NextIs("alias_agrees")' /\ ~NextIs("alias_leads")'
      BY <1>1, <2>2, <2>3, Place DEF NextIs, Step, StepAllowed
    <2>12. TypeOK'
      <3>1. /\ entry' \in [Names -> Entries] /\ call' \in Calls
            /\ aliasWal' \in Names /\ asked' \in BOOLEAN /\ found' \subseteq Suffixes
            /\ opened' \in Names \cup {NoEntry} /\ steady' \subseteq Names
            /\ changes' \in 0 .. MaxChanges /\ faulty' \in BOOLEAN
        BY <1>1 DEF TypeOK
      <3>2. resolved' \in Paths
        BY <2>1, <2>7
      <3>3. /\ at' \in 1 .. Len(Program(call')) + 1
            /\ outcome' = "running" => at' <= Len(Program(call'))
            /\ outcome' \in {"running", "done"}
        BY <1>1, <2>2
      <3> QED BY <3>1, <3>2, <3>3 DEF TypeOK
    <2>13. OrderInv'
      BY <1>1, <2>2, <2>6, <2>10 DEF OrderInv
    <2>14. MainInv'
      BY <1>1, <1>3, <2>6, <2>8 DEF MainInv, Leads
    <2>15. CompanionInv'
      <3>1. \A i \in Passed("absent") : ~Throughout(ProbedAt(i))'
        BY <1>1, <2>9 DEF CompanionInv, Passed
      <3>2. \A i \in Passed("regular") : ~Never(ProbedAt(i))'
        BY <1>1, <2>9 DEF CompanionInv, Passed
      <3> QED BY <1>1, <2>6, <2>10, <3>1, <3>2 DEF CompanionInv
    <2>16. AliasInv'
      BY <2>10, <2>11 DEF AliasInv
    <2>17. AcceptInv'
      <3>1. ASSUME changes = 0, ~faulty, NEW i \in 1 .. at - 1 PROVE Holds(i)'
        <4>1. Holds(i) /\ P[i][1] \in {"absent", "regular"}
          BY <1>1, <2>4, <3>1 DEF AcceptInv
        <4> QED BY <1>1, <2>9, <4>1 DEF Holds
      <3>2. ASSUME NEW i, i = at PROVE Holds(i)'
        BY <1>1, <1>3, <2>8, <2>9, <3>2 DEF Holds
      <3>3. \A i \in 1 .. at' - 1 : i \in 1 .. at - 1 \/ i = at
        BY <2>2, <2>3
      <3>4. ASSUME changes = 0, ~faulty, NEW i \in 1 .. at' - 1 PROVE Holds(i)'
        BY <3>1, <3>2, <3>3, <3>4
      <3> QED BY <1>1, <2>2, <2>11, <3>4 DEF AcceptInv
    <2> QED BY <2>12, <2>13, <2>14, <2>15, <2>16, <2>17 DEF PreflightInv
  <1> QED BY <1>2, <1>3

\* Without a WAL beside the supplied path its two probes are left out.
LEMMA NoAliasStep ==
  ASSUME PreflightInv, Ready("alias_exists"), ~HasEntry(Beside), GoTo(at + 3),
         UNCHANGED <<call, environment, resolved, aliasWal, asked, found, opened, faulty>>
  PROVE  PreflightInv'
PROOF
  <1> DEFINE P == Program(call)
  <1>1. /\ TypeOK /\ OrderInv /\ MainInv /\ CompanionInv /\ AliasInv /\ AcceptInv
        /\ UNCHANGED <<entry, steady, changes, call, resolved, aliasWal, asked, found,
                       opened, faulty>>
        /\ outcome = "running" /\ P[at][1] = "alias_exists"
    BY DEF PreflightInv, environment, Ready, Step
  <1>2. /\ call \in WalCalls /\ at = 6 /\ Len(P) \in Nat /\ Len(P) >= 8
        /\ P[7][1] = "alias_leads" /\ P[8][1] = "alias_agrees"
    <2>1. call \in WalCalls /\ at = 6
      BY <1>1, Place DEF StepAllowed
    <2>2. CheckedAt(call) = 8
      BY <2>1 DEF CheckedAt, WalCalls, MainCalls
    <2> QED BY <1>1, <2>1, <2>2, Place DEF StepAllowed
  <1>3. /\ at' = 9 /\ at' \in 1 .. Len(P) + 1
        /\ outcome' \in {"running", "done"}
        /\ outcome' = "done" => at' = Len(P) + 1
        /\ outcome' = "running" => at' <= Len(P)
    BY <1>2 DEF GoTo
  <1>4. \A d : Passed(d)' = {i \in 1 .. 8 : P[i][1] = d}
    BY <1>1, <1>3 DEF Passed
  <1>5. \A i \in 1 .. 8 : i \in 1 .. at - 1 \/ i = 6 \/ i = 7 \/ i = 8
    BY <1>2
  <1>6. /\ \A d \in Kinds \ {"alias_exists", "alias_leads", "alias_agrees"} :
             Passed(d)' = Passed(d)
        /\ \A d : Passed(d) \subseteq Passed(d)'
    <2>1. \A d : Passed(d) = {i \in 1 .. 5 : P[i][1] = d}
      BY <1>2 DEF Passed
    <2>2. ASSUME NEW d, d \notin {"alias_exists", "alias_leads", "alias_agrees"}
          PROVE  Passed(d)' = Passed(d)
      <3>1. \A i \in 1 .. 8 : P[i][1] = d => i \in 1 .. 5
        BY <1>1, <1>2, <1>5, <2>2
      <3>2. {i \in 1 .. 8 : P[i][1] = d} = {i \in 1 .. 5 : P[i][1] = d}
        BY <3>1
      <3> HIDE DEF P
      <3> QED BY <1>4, <2>1, <3>2
    <2>3. \A d : Passed(d) \subseteq Passed(d)'
      BY <1>4, <2>1
    <2> QED BY <2>2, <2>3
  <1>7. ~NextIs("alias_agrees")' /\ ~NextIs("alias_leads")'
    BY <1>1, <1>3, Place DEF NextIs, Step, StepAllowed
  <1>8. TypeOK'
    BY <1>1, <1>3 DEF TypeOK
  <1>9. OrderInv'
    BY <1>1, <1>3, <1>6 DEF OrderInv, Kinds
  <1>10. MainInv'
    BY <1>1, <1>6, Kept DEF MainInv, Main, Kinds
  <1>11. CompanionInv'
    BY <1>1, <1>6, Kept DEF CompanionInv, Kinds
  <1>12. AliasInv'
    BY <1>1, <1>7, Kept DEF AliasInv, Beside
  <1>13. AcceptInv'
    <2>1. Holds(6) /\ Holds(7) /\ Holds(8)
      BY <1>1, <1>2 DEF Holds
    <2> QED BY <1>1, <1>3, <1>5, <1>7, <2>1, Kept DEF AcceptInv, Beside
  <1> QED BY <1>8, <1>9, <1>10, <1>11, <1>12, <1>13 DEF PreflightInv

\* Another program changes an entry: what was there throughout was there before.
LEMMA ChangeStep ==
  ASSUME PreflightInv, Change
  PROVE  PreflightInv'
PROOF
  <1>1. /\ TypeOK /\ OrderInv /\ MainInv /\ CompanionInv /\ AliasInv
        /\ UNCHANGED <<call, at, resolved, aliasWal, asked, found, opened, outcome, faulty>>
        /\ changes < MaxChanges /\ changes' = changes + 1
    BY DEF PreflightInv, Change
  <1>2. PICK n \in Names, e \in Entries :
          /\ e \in MayHold[n]
          /\ entry' = [entry EXCEPT ![n] = e] /\ steady' = steady \ {n}
    BY PreflightAssumption DEF Change
  <1>3. MaxChanges \in Nat /\ changes \in Nat /\ changes' # 0 /\ changes' \in 0 .. MaxChanges
    BY <1>1, PreflightAssumption DEF TypeOK
  <1>4. entry' \in [Names -> Entries] /\ \A x \in Names : entry'[x] \in MayHold[x]
    BY <1>1, <1>2, PreflightAssumption DEF TypeOK, OrderInv
  <1>5. \A x \in Names : x \in steady' => x \in steady /\ entry'[x] = entry[x]
    BY <1>1, <1>2 DEF TypeOK
  <1>6. \A do : Passed(do)' = Passed(do) /\ NextIs(do)' = NextIs(do)
    BY <1>1 DEF Passed, NextIs, Step
  <1>7. TypeOK'
    BY <1>1, <1>2, <1>3, <1>4 DEF TypeOK
  <1>8. OrderInv'
    BY <1>1, <1>4, <1>6 DEF OrderInv
  <1>9. /\ \A i : ProbedAt(i)' = ProbedAt(i)
        /\ Main' = Main /\ Main \in Names /\ Wal' = Wal /\ Wal \in Names /\ Wal[2] = "-wal"
        /\ Beside \in Names /\ Beside[2] = "-wal"
    BY <1>1, NameTypes, Place DEF ProbedAt, Where, Main, Wal, Beside, TypeOK
  <1>10. \A x \in Names : (Throughout(x)' => Throughout(x)) /\ (Never(x)' => Never(x))
    BY <1>5 DEF Throughout, Never, HasEntry
  <1>11. MainInv'
    <2>1. MainSteady' => MainSteady /\ entry'[Main] = entry[Main]
      BY <1>1, <1>5, <1>9 DEF MainSteady, Main
    <2> QED BY <1>1, <1>6, <1>9, <2>1 DEF MainInv
  <1>12. CompanionInv'
    <2>1. \A i \in 1 .. at - 1 :
            Program(call)[i][1] \in {"absent", "regular", "present"} => ProbedAt(i) \in Names
      BY <1>1, Place, NameTypes DEF StepAllowed, ProbedAt, Where, TypeOK
    <2>2. \A suffix \in found : /\ Companion(Supplied, suffix) \in Names
                                /\ Companion(resolved, suffix) \in Names
      BY <1>1, Place, NameTypes, PreflightAssumption DEF TypeOK
    <2>3. \A i \in Passed("absent") : ~Throughout(ProbedAt(i))'
      BY <1>1, <1>9, <1>10, <2>1 DEF CompanionInv, Passed, Throughout, HasEntry
    <2>4. \A i \in Passed("regular") : ~Never(ProbedAt(i))'
      BY <1>1, <1>9, <1>10, <2>1 DEF CompanionInv, Passed, Never, HasEntry
    <2>5. \A i \in Passed("present") :
            Program(call)[i][3] \in found \/ ~Throughout(ProbedAt(i))'
      BY <1>1, <1>9, <1>10, <2>1 DEF CompanionInv, Passed, Throughout, HasEntry
    <2>6. \A suffix \in found :
            ~Never(Companion(Supplied, suffix))' \/ ~Never(Companion(resolved, suffix))'
      BY <1>1, <1>10, <2>2 DEF CompanionInv, Never, HasEntry
    <2> QED BY <1>1, <1>6, <2>3, <2>4, <2>5, <2>6 DEF CompanionInv
  <1>13. AliasInv'
    <2> SUFFICES ASSUME WalsSteady'
                 PROVE  /\ NextIs("alias_agrees")' => aliasWal' = Follow(Beside)'
                        /\ Passed("alias_agrees")' # {} =>
                             ~HasEntry(Beside)' \/ Follow(Beside)' = Follow(Wal)'
      BY DEF AliasInv
    <2>1. \A path \in Paths : Companion(path, "-wal") \in steady'
      BY DEF WalsSteady
    <2>2. WalsSteady
      BY <1>5, <2>1, NameTypes DEF WalsSteady
    <2>3. \A x \in Names : x[2] = "-wal" => entry'[x] = entry[x]
      BY <1>5, <2>1, NameTypes
    <2>4. entry \in Directories /\ entry' \in Directories
      BY <1>1, <1>4, DirectoryType, PreflightAssumption DEF Directories
    <2>5. Follow(Beside)' = Follow(Beside) /\ Follow(Wal)' = Follow(Wal)
      <3>1. FollowIn(entry', Beside) = FollowIn(entry, Beside)
        BY <1>9, <2>3, <2>4, FollowSame
      <3>2. FollowIn(entry', Wal) = FollowIn(entry, Wal)
        BY <1>9, <2>3, <2>4, FollowSame
      <3> QED BY <1>9, <3>1, <3>2 DEF Follow, Beside
    <2>6. HasEntry(Beside)' = HasEntry(Beside)
      BY <1>9, <2>3 DEF HasEntry, Beside
    <2> QED BY <1>1, <1>6, <2>2, <2>5, <2>6 DEF AliasInv
  <1>14. AcceptInv'
    BY <1>3 DEF AcceptInv
  <1> QED BY <1>7, <1>8, <1>11, <1>12, <1>13, <1>14 DEF PreflightInv

-----------------------------------------------------------------------------
(* The invariant.                                                          *)

LEMMA InitInv == Init => PreflightInv
PROOF
  <1> SUFFICES ASSUME Init PROVE PreflightInv
    OBVIOUS
  <1>1. /\ at = 1 /\ resolved = Supplied /\ ~asked /\ found = {} /\ opened = NoEntry
        /\ outcome = "running" /\ call \in Calls /\ call \in AllCalls
        /\ asked = FALSE /\ faulty = FALSE /\ changes = 0 /\ steady = Names
        /\ aliasWal \in Names /\ Supplied \in Paths
    BY PreflightAssumption, NameTypes DEF Init, AllCalls
  <1>2. /\ Len(Program(call)) \in 6 .. 12 /\ CanonicalAt(call) \in 2 .. 3
        /\ StepAllowed(call, 1)
    BY <1>1, ProgramShape
  <1>3. \A n \in Names : entry[n] \in MayHold[n]
    BY DEF Init
  <1>4. entry \in [Names -> Entries]
    BY <1>3, PreflightAssumption DEF Init
  <1>5. TypeOK
    <2>1. at \in 1 .. Len(Program(call)) + 1 /\ at <= Len(Program(call))
      <3>1. at = 1
        BY DEF Init
      <3>2. \A n \in 6 .. 12 : 1 \in 1 .. n + 1 /\ 1 <= n
        OBVIOUS
      <3>3. Len(Program(call)) \in 6 .. 12
        BY <1>2
      <3> QED BY <3>1, <3>2, <3>3
    <2>3. changes \in 0 .. MaxChanges
      <3>1. changes = 0
        BY DEF Init
      <3> QED BY <3>1, PreflightAssumption
    <2>2. asked \in BOOLEAN /\ faulty \in BOOLEAN
      BY DEF Init
    <2> QED BY <1>1, <1>4, <2>1, <2>2, <2>3 DEF TypeOK
  <1>6. \A do : Passed(do) = {}
    BY <1>1 DEF Passed
  <1>7. ~NextIs("alias_leads") /\ ~NextIs("alias_agrees")
    BY <1>1, <1>2 DEF NextIs, Step, StepAllowed
  <1> QED BY <1>1, <1>3, <1>5, <1>6, <1>7
          DEF PreflightInv, OrderInv, MainInv, CompanionInv, AliasInv, AcceptInv

\* The name a probe is about, and what the documentation says of it.
LEMMA ProbeFacts ==
  ASSUME PreflightInv, outcome = "running"
  PROVE  /\ Probed = ProbedAt(at)
         /\ Program(call)[at][1] \in {"absent", "regular", "present"} => Probed \in Names
  BY Place, NameTypes DEF PreflightInv, Probed, ProbedAt, Step, StepAllowed, Where, TypeOK

\* In a directory that has not changed, the canonical path is the main file.
LEMMA CanonicalMain ==
  ASSUME PreflightInv, changes = 0, ~faulty, at > CanonicalAt(call)
  PROVE  Main = Follow(Companion(Supplied, NoSuffix)) /\ resolved = Follow(Companion(Supplied, NoSuffix))[1]
         /\ Leads(Companion(Supplied, NoSuffix)) /\ Follow(Main) = Main
PROOF
  <1>1. PICK i \in Passed("canonicalize") : TRUE
    BY Canonical DEF PreflightInv
  <1>2. Leads(Companion(Supplied, NoSuffix)) /\ Main = Follow(Companion(Supplied, NoSuffix))
    BY <1>1 DEF PreflightInv, AcceptInv, Passed, Holds
  <1>3. Companion(Supplied, NoSuffix) \in Names
    BY Place, NameTypes DEF PreflightInv
  <1>4. Main[1] = resolved
    BY NameTypes DEF PreflightInv, TypeOK, Main
  <1> QED BY <1>2, <1>3, <1>4, LeadsFacts DEF PreflightInv

LEMMA AbsentStep ==
  ASSUME PreflightInv, Absent, UNCHANGED <<call, environment>>
  PROVE  PreflightInv'
PROOF
  <1>1. /\ outcome = "running" /\ Program(call)[at][1] = "absent"
        /\ UNCHANGED <<resolved, aliasWal, asked, found, opened, faulty>>
        /\ TypeOK /\ StepAllowed(call, at) /\ Probed = ProbedAt(at) /\ Probed \in Names
    BY ProbeFacts, Place DEF Absent, Ready, Step, PreflightInv
  <1>2. CASE HasEntry(Probed)
    <2>1. Refuse("Companion")
      BY <1>2 DEF Absent, Exists
    <2>2. ASSUME changes = 0, ~faulty PROVE ~Documented
      <3>1. Program(call)[at][3] \in Forbidden
        BY <1>1 DEF StepAllowed, Forbidden
      <3>2. CASE Program(call)[at][2] = "supplied"
        BY <1>1, <1>2, <3>1, <3>2 DEF Documented, ProbedAt, Where
      <3>3. CASE Program(call)[at][2] = "resolved"
        <4>1. at > CanonicalAt(call)
          BY <1>1, <3>3, Place DEF StepAllowed
        <4> QED BY <1>1, <1>2, <2>2, <3>1, <3>3, <4>1, CanonicalMain
                DEF Documented, ProbedAt, Where
      <3> QED BY <1>1, <3>2, <3>3 DEF StepAllowed
    <2> QED BY <1>1, <2>1, <2>2, RefusedStep DEF TypeOK
  <1>3. CASE ~HasEntry(Probed)
    <2>1. GoTo(at + 1)
      BY <1>3 DEF Absent, Exists
    <2>2. Holds(at)
      BY <1>1, <1>3 DEF Holds
    <2>9. GoesWell("absent")
      BY <1>1, <1>3, <2>1, <2>2 DEF TypeOK, GoesWell
    <2> QED BY <2>9, AdvanceStep
  <1> QED BY <1>2, <1>3

LEMMA RegularStep ==
  ASSUME PreflightInv, Regular, UNCHANGED <<call, environment>>
  PROVE  PreflightInv'
PROOF
  <1>1. /\ outcome = "running" /\ Program(call)[at][1] = "regular"
        /\ UNCHANGED <<resolved, aliasWal, asked, found, opened, faulty>>
        /\ TypeOK /\ OrderInv /\ StepAllowed(call, at)
        /\ Probed = ProbedAt(at) /\ Probed \in Names
    BY ProbeFacts, Place DEF Regular, Ready, Step, PreflightInv
  <1>2. CASE entry[Follow(Probed)] # RegularFile
    <2>1. PICK why \in {"Io", "WalInput"} : Refuse(why)
      BY <1>2, PreflightAssumption DEF Regular, Leads
    <2>2. ASSUME changes = 0, ~faulty PROVE ~Documented
      <3>1. CASE Program(call)[at][2] = "supplied"
        <4>1. Probed = Companion(Supplied, NoSuffix)
          BY <1>1, <3>1, SuffixesDiffer DEF StepAllowed, ProbedAt, Where
        <4> QED BY <1>2, <4>1 DEF Documented
      <3>2. CASE Program(call)[at][2] = "resolved"
        <4>1. at > CanonicalAt(call)
          BY <1>1, <3>2, Place DEF StepAllowed
        <4>2. CASE Program(call)[at][3] = NoSuffix
          BY <1>1, <1>2, <2>2, <3>2, <4>1, <4>2, CanonicalMain
          DEF Documented, ProbedAt, Where, Main
        <4>3. CASE Program(call)[at][3] = "-wal" /\ call \in WalCalls
          BY <1>1, <1>2, <2>2, <3>2, <4>1, <4>3, CanonicalMain
          DEF Documented, ProbedAt, Where
        <4> QED BY <1>1, <4>2, <4>3 DEF StepAllowed
      <3> QED BY <1>1, <3>1, <3>2 DEF StepAllowed
    <2> QED BY <1>1, <2>1, <2>2, RefusedStep DEF TypeOK
  <1>3. CASE entry[Follow(Probed)] = RegularFile
    <2>1. GoTo(at + 1) /\ Leads(Probed)
      BY <1>3 DEF Regular, Leads
    <2>2. Holds(at)
      BY <1>1, <1>3 DEF Holds
    <2>3. HasEntry(ProbedAt(at))
      BY <1>1, <2>1, LeadsFacts
    <2>9. GoesWell("regular")
      BY <1>1, <2>1, <2>2, <2>3 DEF TypeOK, GoesWell
    <2> QED BY <2>9, AdvanceStep
  <1> QED BY <1>2, <1>3

LEMMA AliasExistsStep ==
  ASSUME PreflightInv, AliasExists, UNCHANGED <<call, environment>>
  PROVE  PreflightInv'
PROOF
  <1>1. /\ outcome = "running" /\ Program(call)[at][1] = "alias_exists"
        /\ UNCHANGED <<resolved, aliasWal, asked, found, opened, faulty>>
        /\ Ready("alias_exists") /\ TypeOK
        /\ GoTo(IF HasEntry(Beside) THEN at + 1 ELSE at + 3)
    BY DEF AliasExists, Ready, Step, PreflightInv, Exists, Beside
  <1>2. CASE ~HasEntry(Beside)
    BY <1>1, <1>2, NoAliasStep
  <1>3. CASE HasEntry(Beside)
    <2>1. GoTo(at + 1) /\ Holds(at)
      BY <1>1, <1>3 DEF Holds
    <2>9. GoesWell("alias_exists")
      BY <1>1, <1>3, <2>1 DEF TypeOK, GoesWell
    <2> QED BY <2>9, AdvanceStep
  <1> QED BY <1>2, <1>3

LEMMA AliasLeadsStep ==
  ASSUME PreflightInv, AliasLeads, UNCHANGED <<call, environment>>
  PROVE  PreflightInv'
PROOF
  <1>1. /\ outcome = "running" /\ Program(call)[at][1] = "alias_leads"
        /\ UNCHANGED <<resolved, asked, found, opened, faulty>>
        /\ TypeOK /\ OrderInv /\ AcceptInv /\ StepAllowed(call, at)
        /\ Beside \in Names
    BY Place, NameTypes DEF AliasLeads, Ready, Step, PreflightInv, Beside
  <1>2. CASE ~Leads(Beside)
    <2>1. Refuse("Io") /\ UNCHANGED aliasWal
      BY <1>2 DEF AliasLeads, Beside
    <2>2. ASSUME changes = 0, ~faulty PROVE ~Documented
      <3>1. HasEntry(Beside) /\ call \in WalCalls
        BY <1>1, <2>2, Place DEF AcceptInv, NextIs, Step, StepAllowed
      <3> QED BY <1>2, <3>1 DEF Documented, Beside, Leads
    <2> QED BY <1>1, <2>1, <2>2, RefusedStep DEF TypeOK
  <1>3. CASE Leads(Beside)
    <2>1. GoTo(at + 1) /\ aliasWal' = Follow(Beside) /\ Holds(at)
      BY <1>1, <1>3 DEF AliasLeads, Beside, Holds
    <2>2. aliasWal' \in Names
      BY <1>1, <2>1, LeadsFacts
    <2>9. GoesWell("alias_leads")
      BY <1>1, <2>1, <2>2 DEF TypeOK, GoesWell
    <2> QED BY <2>9, AdvanceStep
  <1> QED BY <1>2, <1>3

LEMMA AliasAgreesStep ==
  ASSUME PreflightInv, AliasAgrees, UNCHANGED <<call, environment>>
  PROVE  PreflightInv'
PROOF
  <1>1. /\ outcome = "running" /\ Program(call)[at][1] = "alias_agrees"
        /\ UNCHANGED <<resolved, aliasWal, asked, found, opened, faulty>>
        /\ TypeOK /\ AcceptInv /\ call \in WalCalls /\ at = 8 /\ at <= Len(Program(call))
    BY Place DEF AliasAgrees, Ready, Step, PreflightInv, StepAllowed
  <1>2. ASSUME changes = 0, ~faulty PROVE HasEntry(Beside) /\ aliasWal = Follow(Beside)
    BY <1>1, <1>2 DEF AcceptInv, NextIs, Step
  <1>3. CASE ~(Leads(Wal) /\ Follow(Wal) = aliasWal)
    <2>1. PICK why \in {"Io", "WalInput"} : Refuse(why)
      BY <1>3 DEF AliasAgrees, Wal
    <2>2. ASSUME changes = 0, ~faulty PROVE ~Documented
      <3>1. at > CanonicalAt(call)
        BY <1>1, Place
      <3>2. resolved = Follow(Companion(Supplied, NoSuffix))[1]
        BY <2>2, <3>1, CanonicalMain
      <3> QED BY <1>1, <1>2, <1>3, <2>2, <3>2 DEF Documented, Wal, Beside, Leads
    <2> QED BY <1>1, <2>1, <2>2, RefusedStep DEF TypeOK
  <1>4. CASE Leads(Wal) /\ Follow(Wal) = aliasWal
    <2>1. GoTo(at + 1)
      BY <1>4 DEF AliasAgrees, Wal
    <2>2. changes = 0 /\ ~faulty => Holds(at)
      BY <1>1, <1>2, <1>4 DEF Holds
    <2>9. GoesWell("alias_agrees")
      BY <1>1, <1>4, <2>1, <2>2 DEF TypeOK, GoesWell
    <2> QED BY <2>9, AdvanceStep
  <1> QED BY <1>3, <1>4

LEMMA Utf8Step ==
  ASSUME PreflightInv, Utf8, UNCHANGED <<call, environment>>
  PROVE  PreflightInv'
PROOF
  <1>1. /\ outcome = "running" /\ Program(call)[at][1] = "utf8"
        /\ UNCHANGED <<resolved, aliasWal, asked, found, opened, faulty>>
        /\ TypeOK /\ StepAllowed(call, at)
    BY Place DEF Utf8, Ready, Step, PreflightInv
  <1>2. CASE resolved \in NonUtf8
    <2>1. Refuse("NonUtf8Path")
      BY <1>2 DEF Utf8
    <2>2. ASSUME changes = 0, ~faulty PROVE ~Documented
      <3>1. at > CanonicalAt(call) /\ call \in WalCalls \cup {"open_readonly"}
        BY <1>1, Place DEF StepAllowed
      <3> QED BY <1>2, <2>2, <3>1, CanonicalMain DEF Documented
    <2> QED BY <1>1, <2>1, <2>2, RefusedStep DEF TypeOK
  <1>3. CASE resolved \notin NonUtf8
    <2>1. GoTo(at + 1) /\ Holds(at)
      BY <1>1, <1>3 DEF Utf8, Holds
    <2>9. GoesWell("utf8")
      BY <1>1, <2>1 DEF TypeOK, GoesWell
    <2> QED BY <2>9, AdvanceStep
  <1> QED BY <1>2, <1>3

LEMMA AskStep ==
  ASSUME PreflightInv, Ask, UNCHANGED <<call, environment>>
  PROVE  PreflightInv'
PROOF
  <1>1. /\ outcome = "running" /\ Program(call)[at][1] = "ask" /\ TypeOK
        /\ UNCHANGED <<resolved, aliasWal, found, opened, faulty>>
        /\ asked' = TRUE /\ GoTo(at + 1) /\ Holds(at)
    BY DEF Ask, Ready, Step, PreflightInv, Holds
  <1>9. GoesWell("ask")
    BY <1>1 DEF TypeOK, GoesWell
  <1> QED BY <1>9, AdvanceStep

LEMMA OpenDatabaseStep ==
  ASSUME PreflightInv, OpenDatabase, UNCHANGED <<call, environment>>
  PROVE  PreflightInv'
PROOF
  <1>1. /\ outcome = "running" /\ Program(call)[at][1] = "open"
        /\ UNCHANGED <<resolved, aliasWal, asked, found, faulty>>
        /\ TypeOK /\ StepAllowed(call, at)
    BY Place DEF OpenDatabase, Ready, Step, PreflightInv
  <1>2. CASE entry[Follow(Main)] # RegularFile
    <2>1. Refuse("Io") /\ UNCHANGED opened
      BY <1>2 DEF OpenDatabase, DatabasePath, Main
    <2>2. ASSUME changes = 0, ~faulty PROVE ~Documented
      <3>1. at > CanonicalAt(call)
        BY <1>1, Place DEF StepAllowed
      <3> QED BY <1>2, <2>2, <3>1, CanonicalMain DEF Documented
    <2> QED BY <1>1, <2>1, <2>2, RefusedStep DEF TypeOK
  <1>3. CASE entry[Follow(Main)] = RegularFile
    <2>1. GoTo(at + 1) /\ Holds(at) /\ opened' = Follow(Main)
      BY <1>1, <1>3 DEF OpenDatabase, DatabasePath, Main, Leads, Holds
    <2>9. GoesWell("open")
      BY <1>1, <2>1 DEF TypeOK, GoesWell
    <2> QED BY <2>9, AdvanceStep
  <1> QED BY <1>2, <1>3

LEMMA PresentStep ==
  ASSUME PreflightInv, Present, UNCHANGED <<call, environment>>
  PROVE  PreflightInv'
PROOF
  <1>1. /\ outcome = "running" /\ Program(call)[at][1] = "present"
        /\ UNCHANGED <<resolved, aliasWal, asked, opened, faulty>>
        /\ TypeOK /\ StepAllowed(call, at) /\ Probed = ProbedAt(at)
        /\ GoTo(at + 1) /\ Holds(at)
        /\ found' = IF Program(call)[at][3] \notin found /\ HasEntry(Probed)
                    THEN found \cup {Program(call)[at][3]} ELSE found
    BY ProbeFacts, Place DEF Present, Exists, Ready, Step, PreflightInv, Holds
  <1> DEFINE suffix == Program(call)[at][3]
  <1>2. suffix \in Suffixes
    BY <1>1, PreflightAssumption DEF StepAllowed
  <1>3. Probed = Companion(Supplied, suffix) \/ Probed = Companion(resolved, suffix)
    BY <1>1 DEF StepAllowed, ProbedAt, Where
  <1>4. /\ found \subseteq found' /\ found' \subseteq Suffixes
        /\ suffix \in found' \/ ~HasEntry(ProbedAt(at))
        /\ \A s \in found' \ found :
             HasEntry(Companion(Supplied, s)) \/ HasEntry(Companion(resolved, s))
    BY <1>1, <1>2, <1>3 DEF TypeOK
  <1>9. GoesWell("present")
    BY <1>1, <1>4 DEF TypeOK, GoesWell
  <1> QED BY <1>9, AdvanceStep

LEMMA FailStep ==
  ASSUME PreflightInv, Fail, UNCHANGED <<call, environment>>
  PROVE  PreflightInv'
  BY RefusedStep DEF Fail

\* PreflightInv holds in every reachable state.
THEOREM PreflightInvariant == Spec => []PreflightInv
PROOF
  <1>1. Init => PreflightInv
    BY InitInv
  <1>2. PreflightInv /\ [Next]_vars => PreflightInv'
    <2> SUFFICES ASSUME PreflightInv, [Next]_vars PROVE PreflightInv'
      OBVIOUS
    <2>1. CASE Proceed
      BY <2>1, AbsentStep, CanonicalizeStep, RegularStep, AliasExistsStep, AliasLeadsStep,
         AliasAgreesStep, Utf8Step, AskStep, OpenDatabaseStep, PresentStep, FailStep
      DEF Proceed
    <2>2. CASE Change
      BY <2>2, ChangeStep
    <2>3. CASE UNCHANGED vars
      BY <2>3, Kept
      DEF vars, environment, PreflightInv, TypeOK, OrderInv, MainInv, CompanionInv,
          AliasInv, AcceptInv, Passed, NextIs, Step, Main, Beside
    <2> QED BY <2>1, <2>2, <2>3 DEF Next
  <1> QED BY <1>1, <1>2, PTL DEF Spec

-----------------------------------------------------------------------------
(* The properties.                                                         *)

\* What the calls without a WAL, and those with one, begin with.
LEMMA MainProgram ==
  ASSUME NEW c \in MainCalls
  PROVE  LET P == Program(c) IN
         /\ Len(P) = 7 /\ P[3] = <<"canonicalize">>
         /\ P[1] = <<"absent", "supplied", "-wal">>
         /\ P[2] = <<"absent", "supplied", "-journal">>
         /\ P[4] = <<"absent", "resolved", "-wal">>
         /\ P[5] = <<"absent", "resolved", "-journal">>
         /\ P[7] = <<"open">>
         /\ c = "open_readonly" => P[6] = <<"utf8">>
PROOF
  <1>1. CASE c = "open_readonly"
    BY <1>1, OpenReadonlyProgram
  <1>2. CASE c = "reader"
    BY <1>2, ReaderProgram
  <1> QED BY <1>1, <1>2 DEF MainCalls

LEMMA WalProgram ==
  ASSUME NEW c \in WalCalls
  PROVE  LET P == Program(c) IN
         /\ Len(P) \in 11 .. 12 /\ P[2] = <<"canonicalize">>
         /\ P[1] = <<"absent", "supplied", "-journal">>
         /\ P[3] = <<"absent", "resolved", "-journal">>
         /\ P[4] = <<"regular", "resolved", NoSuffix>>
         /\ P[5] = <<"regular", "resolved", "-wal">>
         /\ P[8] = <<"alias_agrees">> /\ P[9] = <<"utf8">>
PROOF
  <1>1. CASE c = "open_readonly_with_wal"
    BY <1>1, WithWalProgram
  <1>2. CASE c = "wal_snapshot"
    BY <1>2, SnapshotProgram
  <1> QED BY <1>1, <1>2 DEF WalCalls

\* Nobody is asked and nothing is opened before the checks are done.
LEMMA CommittedLate ==
  ASSUME PreflightInv, Committed
  PROVE  /\ call \in MainCalls \cup WalCalls
         /\ at \in Nat /\ at - 1 > CheckedAt(call)
         /\ Passed("canonicalize") # {}
PROOF
  <1>1. TypeOK /\ OrderInv
    BY DEF PreflightInv
  <1>2. PICK i \in 1 .. at - 1 : Program(call)[i][1] \in {"ask", "open"}
    BY <1>1 DEF Committed, OrderInv, Passed
  <1>3. /\ at \in 1 .. Len(Program(call)) + 1 /\ Len(Program(call)) \in Nat
        /\ CheckedAt(call) \in 5 .. 8 /\ CanonicalAt(call) \in 2 .. 3
        /\ call \in AllCalls /\ StepAllowed(call, i)
    BY <1>1, Place
  <1>4. call # "inspect" /\ i > CheckedAt(call)
    BY <1>2, <1>3 DEF StepAllowed
  <1>5. at \in Nat /\ at - 1 > CheckedAt(call) /\ at > CanonicalAt(call)
    BY <1>2, <1>3, <1>4
  <1>6. Passed("canonicalize") # {}
    BY <1>1, <1>5, Canonical
  <1> QED BY <1>3, <1>4, <1>5, <1>6 DEF AllCalls, MainCalls, WalCalls

\* Step i, of kind do, is behind and was about this name.
LEMMA PassedAt ==
  ASSUME NEW do, NEW base, NEW suffix, NEW i \in 1 .. at - 1,
         Program(call)[i] = <<do, base, suffix>>
  PROVE  i \in Passed(do) /\ ProbedAt(i) = Companion(Where(base), suffix)
  BY DEF Passed, ProbedAt

\* The probes of a call that asked or opened have seen both places.
LEMMA LookedAt ==
  ASSUME PreflightInv, Committed, NEW suffix \in Forbidden
  PROVE  /\ ~Throughout(Companion(Supplied, suffix))
         /\ ~Throughout(Companion(resolved, suffix))
PROOF
  <1>1. call \in MainCalls \cup WalCalls /\ at \in Nat /\ at - 1 > CheckedAt(call)
    BY CommittedLate
  <1>2. \A i \in Passed("absent") : ~Throughout(ProbedAt(i))
    BY DEF PreflightInv, CompanionInv
  <1>3. Where("supplied") = Supplied /\ Where("resolved") = resolved
    BY DEF Where
  <1>4. CASE call \in MainCalls
    <2>1. 1 \in 1 .. at - 1 /\ 2 \in 1 .. at - 1 /\ 4 \in 1 .. at - 1 /\ 5 \in 1 .. at - 1
      BY <1>1, <1>4 DEF CheckedAt
    <2>2. /\ Program(call)[1] = <<"absent", "supplied", "-wal">>
          /\ Program(call)[2] = <<"absent", "supplied", "-journal">>
          /\ Program(call)[4] = <<"absent", "resolved", "-wal">>
          /\ Program(call)[5] = <<"absent", "resolved", "-journal">>
      BY <1>4, MainProgram
    <2>3. CASE suffix = "-wal"
      BY <1>2, <1>3, <2>1, <2>2, <2>3, PassedAt
    <2>4. CASE suffix = "-journal"
      BY <1>2, <1>3, <2>1, <2>2, <2>4, PassedAt
    <2> QED BY <1>4, <2>3, <2>4 DEF Forbidden
  <1>5. CASE call \in WalCalls
    <2>1. call \notin MainCalls
      BY <1>5 DEF MainCalls, WalCalls
    <2>2. 1 \in 1 .. at - 1 /\ 3 \in 1 .. at - 1
      BY <1>1, <1>5, <2>1 DEF CheckedAt
    <2>3. /\ Program(call)[1] = <<"absent", "supplied", "-journal">>
          /\ Program(call)[3] = <<"absent", "resolved", "-journal">>
      BY <1>5, WalProgram
    <2>4. suffix = "-journal"
      BY <1>5, <2>1 DEF Forbidden
    <2> QED BY <1>2, <1>3, <2>2, <2>3, <2>4, PassedAt
  <1> QED BY <1>1, <1>4, <1>5

LEMMA StandingFromInv ==
  ASSUME PreflightInv PROVE StandingCompanionsRefuse
PROOF
  <1> SUFFICES ASSUME Committed, MainSteady, NEW suffix \in Forbidden
               PROVE  /\ ~Throughout(Companion(Supplied, suffix))
                      /\ ~Throughout(Companion(resolved, suffix))
                      /\ opened # NoEntry => ~Throughout(Companion(opened[1], suffix))
    BY DEF StandingCompanionsRefuse
  <1>1. /\ ~Throughout(Companion(Supplied, suffix))
        /\ ~Throughout(Companion(resolved, suffix))
    BY LookedAt
  <1>2. opened # NoEntry => opened = Main
    BY CommittedLate DEF PreflightInv, MainInv
  <1>3. Main[1] = resolved
    BY NameTypes DEF PreflightInv, TypeOK, Main
  <1> QED BY <1>1, <1>2, <1>3

LEMMA WalFromInv ==
  ASSUME PreflightInv PROVE WalIsRequiredAndUnambiguous
PROOF
  <1> SUFFICES ASSUME Committed, call \in WalCalls
               PROVE  /\ ~Never(Wal)
                      /\ WalsSteady => ~HasEntry(Beside) \/ Follow(Beside) = Follow(Wal)
    BY DEF WalIsRequiredAndUnambiguous, Wal, Beside
  <1>1. at \in Nat /\ at - 1 > 8
    BY CommittedLate DEF CheckedAt, MainCalls, WalCalls
  <1>2. 5 \in 1 .. at - 1 /\ 8 \in 1 .. at - 1
    BY <1>1
  <1>3. /\ Program(call)[5] = <<"regular", "resolved", "-wal">>
        /\ Program(call)[8] = <<"alias_agrees">>
    BY WalProgram
  <1>4. 5 \in Passed("regular") /\ ProbedAt(5) = Wal
    BY <1>2, <1>3, PassedAt DEF Where, Wal
  <1>5. 8 \in Passed("alias_agrees")
    BY <1>2, <1>3 DEF Passed
  <1> QED BY <1>4, <1>5 DEF PreflightInv, CompanionInv, AliasInv

LEMMA InspectFromInv ==
  ASSUME PreflightInv PROVE InspectSeesStandingCompanions
PROOF
  <1> SUFFICES ASSUME call = "inspect", outcome = "done", NEW suffix \in {"-wal", "-journal"}
               PROVE  IF suffix \in found
                      THEN ~Never(Companion(Supplied, suffix)) \/ ~Never(Companion(resolved, suffix))
                      ELSE ~Throughout(Companion(Supplied, suffix))
                           /\ ~Throughout(Companion(resolved, suffix))
    BY DEF InspectSeesStandingCompanions
  <1>1. at = 7
    <2>1. at = Len(Program(call)) + 1
      BY DEF PreflightInv, OrderInv
    <2>2. Len(Program(call)) = 6
      BY InspectProgram
    <2>3. 6 + 1 = 7
      OBVIOUS
    <2> QED BY <2>1, <2>2, <2>3, Zenon
  <1>2. 3 \in 1 .. at - 1 /\ 4 \in 1 .. at - 1 /\ 5 \in 1 .. at - 1 /\ 6 \in 1 .. at - 1
    BY <1>1
  <1>3. Where("supplied") = Supplied /\ Where("resolved") = resolved
    BY DEF Where
  <1>4. /\ Program(call)[3] = <<"present", "supplied", "-wal">>
        /\ Program(call)[4] = <<"present", "resolved", "-wal">>
        /\ Program(call)[5] = <<"present", "supplied", "-journal">>
        /\ Program(call)[6] = <<"present", "resolved", "-journal">>
    BY InspectProgram
  <1>5. PICK i \in Passed("present"), j \in Passed("present") :
          /\ Program(call)[i][3] = suffix /\ ProbedAt(i) = Companion(Supplied, suffix)
          /\ Program(call)[j][3] = suffix /\ ProbedAt(j) = Companion(resolved, suffix)
    <2>1. CASE suffix = "-wal"
      BY <1>2, <1>3, <1>4, <2>1, PassedAt
    <2>2. CASE suffix = "-journal"
      BY <1>2, <1>3, <1>4, <2>2, PassedAt
    <2> QED BY <2>1, <2>2
  <1> QED BY <1>5 DEF PreflightInv, CompanionInv

LEMMA AcceptFromInv ==
  ASSUME PreflightInv PROVE AcceptsTheDocumented
PROOF
  <1> SUFFICES ASSUME changes = 0, ~faulty, outcome = "done" PROVE Documented
    BY DEF AcceptsTheDocumented, PreflightInv, AcceptInv
  <1> DEFINE main == Follow(Companion(Supplied, NoSuffix))
  <1>1. /\ at = Len(Program(call)) + 1 /\ Len(Program(call)) \in Nat
        /\ CanonicalAt(call) < at /\ call \in AllCalls
    BY Place DEF PreflightInv, OrderInv
  <1>2. Main = main /\ resolved = main[1] /\ Follow(Main) = Main
    BY <1>1, CanonicalMain
  <1>3. \A i \in 1 .. Len(Program(call)) : Holds(i)
    BY <1>1 DEF PreflightInv, AcceptInv
  <1>4. Where("supplied") = Supplied /\ Where("resolved") = resolved
    BY DEF Where
  <1>5. CASE call \in MainCalls
    <2>1. Holds(1) /\ Holds(2) /\ Holds(4) /\ Holds(5) /\ Holds(6) /\ Holds(7)
      BY <1>3, <1>5, MainProgram
    <2>2. /\ ~HasEntry(Companion(Supplied, "-wal")) /\ ~HasEntry(Companion(Supplied, "-journal"))
          /\ ~HasEntry(Companion(resolved, "-wal")) /\ ~HasEntry(Companion(resolved, "-journal"))
      BY <1>4, <1>5, <2>1, MainProgram DEF Holds, ProbedAt
    <2>3. entry[main] = RegularFile
      BY <1>2, <1>5, <2>1, MainProgram DEF Holds
    <2>4. call = "open_readonly" => resolved \notin NonUtf8
      BY <1>5, <2>1, MainProgram DEF Holds
    <2>5. call \notin WalCalls
      BY <1>5 DEF MainCalls, WalCalls
    <2>6. Forbidden = {"-wal", "-journal"}
      BY <1>5 DEF Forbidden
    <2> QED BY <1>2, <2>2, <2>3, <2>4, <2>5, <2>6 DEF Documented
  <1>6. CASE call \in WalCalls
    <2>1. Holds(1) /\ Holds(3) /\ Holds(4) /\ Holds(5) /\ Holds(8) /\ Holds(9)
      BY <1>3, <1>6, WalProgram
    <2>2. ~HasEntry(Companion(Supplied, "-journal")) /\ ~HasEntry(Companion(resolved, "-journal"))
      BY <1>4, <1>6, <2>1, WalProgram DEF Holds, ProbedAt
    <2>3. entry[Follow(Main)] = RegularFile /\ entry[Follow(Wal)] = RegularFile
      BY <1>4, <1>6, <2>1, WalProgram DEF Holds, ProbedAt, Main, Wal
    <2>4. (~HasEntry(Beside) \/ Follow(Beside) = Follow(Wal)) /\ resolved \notin NonUtf8
      BY <1>6, <2>1, WalProgram DEF Holds
    <2>5. Forbidden = {"-journal"}
      BY <1>6 DEF Forbidden, MainCalls, WalCalls
    <2> QED BY <1>2, <2>2, <2>3, <2>4, <2>5 DEF Documented, Wal, Beside
  <1>7. CASE call = "inspect"
    <2>1. Holds(1)
      BY <1>3, <1>7, InspectProgram
    <2>2. entry[main] = RegularFile
      BY <1>4, <1>7, <2>1, InspectProgram DEF Holds, ProbedAt
    <2>3. Forbidden = {} /\ call \notin WalCalls \cup {"open_readonly"}
      BY <1>7 DEF Forbidden, MainCalls, WalCalls
    <2> QED BY <2>2, <2>3 DEF Documented
  <1> QED BY <1>1, <1>5, <1>6, <1>7 DEF AllCalls, MainCalls, WalCalls

\* Every variable has its type, and a call that runs has a step to do.
THEOREM PreflightTypeCorrectness == Spec => []TypeOK
PROOF
  <1>1. PreflightInv => TypeOK
    BY DEF PreflightInv
  <1> QED BY <1>1, PreflightInvariant, PTL

\* In a directory nobody changes, open_readonly, open_readonly_with_wal,
\* verify, export and inspect accept exactly the documented inputs, however
\* long the chains of symbolic links are.
THEOREM Acceptance == Spec => []AcceptsTheDocumented
PROOF
  <1>1. PreflightInv => AcceptsTheDocumented
    BY AcceptFromInv
  <1> QED BY <1>1, PreflightInvariant, PTL

\* check_companions and reject_journal: a companion that stands throughout the
\* call refuses it before a passphrase is read or a database is opened,
\* whatever else changes between the probes.
THEOREM StandingCompanions == Spec => []StandingCompanionsRefuse
PROOF
  <1>1. PreflightInv => StandingCompanionsRefuse
    BY StandingFromInv
  <1> QED BY <1>1, PreflightInvariant, PTL

\* WalInput::open: a call for a WAL goes on only with one, and only when the
\* WAL beside an alias is the same.
THEOREM WalRequired == Spec => []WalIsRequiredAndUnambiguous
PROOF
  <1>1. PreflightInv => WalIsRequiredAndUnambiguous
    BY WalFromInv
  <1> QED BY <1>1, PreflightInvariant, PTL

\* inspect reports every companion that stands throughout, beside either path,
\* and none that never was there.
THEOREM InspectSees == Spec => []InspectSeesStandingCompanions
PROOF
  <1>1. PreflightInv => InspectSeesStandingCompanions
    BY InspectFromInv
  <1> QED BY <1>1, PreflightInvariant, PTL
====
