----------------------------- MODULE InputProofs -----------------------------
(***************************************************************************)
(* Proofs about what the agent takes in: what it makes of its              *)
(* configuration (AgentConfig), the files it reads for its checks          *)
(* (ConfigFiles), which checks it loads and how often they are to run      *)
(* (CheckLoading), and the datagrams that clients send it (Dogstatsd);     *)
(* and about the requests it makes with the proxies of the configuration   *)
(* (HttpRequests).                                                         *)
(***************************************************************************)
EXTENDS AgentConfig, CheckLoading, ConfigFiles, HttpRequests, Dogstatsd, FiniteSetTheorems, SequenceTheorems, TLAPS

-----------------------------------------------------------------------------
(***************************************************************************)
(* Numbers and sequences.                                                  *)
(***************************************************************************)
\* Of some numbers there is a least.
LEMMA Least ==
    ASSUME NEW S, S \subseteq Nat, S # {}
    PROVE  \E b \in S : \A d \in S : b <= d
<1>1. PICK m \in S : TRUE
  OBVIOUS
<1> DEFINE R == StrictSubsetOrdering(0 .. m)
           F == FiniteSubsetsOf(0 .. m)
           T == {0 .. b : b \in {d \in S : d <= m}}
<1>2. IsWellFoundedOn(R, F)
  <2>1. IsFiniteSet(0 .. m)
    BY FS_Interval
  <2> QED
    BY FS_StrictSubsetOrderingWellFounded, <2>1
<1>3. T \subseteq F /\ T # {}
  <2>1. ASSUME NEW b \in S, b <= m PROVE 0 .. b \in F
    BY <2>1, FS_Interval DEF FiniteSubsetsOf
  <2> QED
    BY <2>1, <1>1
<1>4. PICK x \in T : \A y \in T : <<y, x>> \notin R
  <2> HIDE DEF R, F, T
  <2> QED
    BY <1>2, <1>3, WFMin
<1>5. PICK b \in S : b <= m /\ x = 0 .. b
  OBVIOUS
<1>6. ASSUME NEW d \in S, d < b PROVE FALSE
  <2>1. 0 .. d \in T /\ 0 .. d \subseteq 0 .. m /\ 0 .. b \subseteq 0 .. m
    BY <1>5, <1>6
  <2>2. 0 .. d \subseteq 0 .. b /\ 0 .. d # 0 .. b
    <3>1. b \in 0 .. b /\ b \notin 0 .. d
      BY <1>6
    <3> QED
      BY <3>1, <1>6
  <2>3. <<0 .. d, 0 .. b>> \in R
    BY <2>1, <2>2 DEF StrictSubsetOrdering
  <2> QED
    BY <2>1, <2>3, <1>4, <1>5
<1> QED
  BY <1>6

\* What holds of zero, and of a number when it holds of the one before, holds up to n.
LEMMA Upwards ==
    ASSUME NEW G, NEW n \in Nat, 0 \in G, \A k \in 1 .. n : k - 1 \in G => k \in G
    PROVE  \A k \in 0 .. n : k \in G
<1> DEFINE S == {k \in 0 .. n : k \notin G}
<1> SUFFICES ASSUME S # {} PROVE FALSE
  OBVIOUS
<1>1. S \subseteq Nat
  OBVIOUS
<1>2. PICK b \in S : \A d \in S : b <= d
  <2> HIDE DEF S
  <2> QED
    BY <1>1, Least
<1>3. b \in 1 .. n /\ b - 1 \in 0 .. n /\ ~(b <= b - 1)
  BY <1>2
<1>4. b - 1 \notin S
  <2> HIDE DEF S
  <2> QED
    BY <1>2, <1>3
<1> QED
  BY <1>2, <1>3, <1>4

\* FlattenSeq is a recursive function: there is one.
LEMMA FlattenExists ==
    ASSUME NEW ss, NEW n \in Nat
    PROVE  \E f : f = [i \in 1 .. n |-> IF i = 1 THEN ss[i] ELSE f[i - 1] \o ss[i]]
<1> DEFINE Joins(f, k) == f = [i \in 1 .. k |-> IF i = 1 THEN ss[i] ELSE f[i - 1] \o ss[i]]
           G == {k \in 0 .. n : \E f : Joins(f, k)}
<1>1. 0 \in G
  <2>1. Joins([i \in 1 .. 0 |-> 0], 0)
    OBVIOUS
  <2> HIDE DEF Joins
  <2> QED
    BY <2>1
<1>2. ASSUME NEW k \in 1 .. n, k - 1 \in G PROVE k \in G
  <2>1. PICK f : Joins(f, k - 1)
    BY <1>2
  <2> DEFINE g == [i \in 1 .. k |-> IF i = k THEN (IF k = 1 THEN ss[k] ELSE f[k - 1] \o ss[k]) ELSE f[i]]
  <2>2. \A i \in 1 .. k : g[i] = IF i = 1 THEN ss[i] ELSE g[i - 1] \o ss[i]
    <3> TAKE i \in 1 .. k
    <3>1. CASE i = k
      <4>1. k # 1 => g[k - 1] = f[k - 1]
        OBVIOUS
      <4> QED
        BY <3>1, <4>1
    <3>2. CASE i # k
      <4>1. i \in 1 .. k - 1 /\ (i # 1 => i - 1 \in 1 .. k /\ i - 1 # k)
        BY <3>2
      <4>2. f[i] = IF i = 1 THEN ss[i] ELSE f[i - 1] \o ss[i]
        BY <2>1, <4>1
      <4>3. g[i] = f[i] /\ (i # 1 => g[i - 1] = f[i - 1])
        BY <3>2, <4>1
      <4> QED
        BY <4>2, <4>3
    <3> QED
      BY <3>1, <3>2
  <2>3. Joins(g, k)
    <3> HIDE DEF g
    <3>1. g = [i \in 1 .. k |-> g[i]]
      BY DEF g
    <3> QED
      BY <2>2, <3>1
  <2> HIDE DEF g, Joins
  <2> QED
    BY <2>3
<1>3. \A k \in 0 .. n : k \in G
  <2> HIDE DEF G
  <2> QED
    BY <1>1, <1>2, Upwards
<1>4. \E f : Joins(f, n)
  <2> HIDE DEF Joins
  <2> QED
    BY <1>3
<1> QED
  BY <1>4

\* It is the last of the partial results.
LEMMA FlattenPartial ==
    ASSUME NEW ss, Len(ss) \in Nat
    PROVE  \E f : /\ \A i \in 1 .. Len(ss) : f[i] = IF i = 1 THEN ss[i] ELSE f[i - 1] \o ss[i]
                  /\ FlattenSeq(ss) = IF Len(ss) = 0 THEN ss ELSE f[Len(ss)]
<1> DEFINE f == CHOOSE g : g = [i \in 1 .. Len(ss) |-> IF i = 1 THEN ss[i] ELSE g[i - 1] \o ss[i]]
<1>1. f = [i \in 1 .. Len(ss) |-> IF i = 1 THEN ss[i] ELSE f[i - 1] \o ss[i]]
  BY FlattenExists
<1>2. FlattenSeq(ss) = IF Len(ss) = 0 THEN ss ELSE f[Len(ss)]
  BY DEF FlattenSeq
<1> HIDE DEF f
<1>3. \A i \in 1 .. Len(ss) : f[i] = IF i = 1 THEN ss[i] ELSE f[i - 1] \o ss[i]
  BY <1>1
<1> QED
  BY <1>2, <1>3

\* FlattenSeq gives the elements of all.
LEMMA FlattenRange ==
    ASSUME NEW S, NEW ss \in Seq(Seq(S))
    PROVE  /\ FlattenSeq(ss) \in Seq(S)
           /\ \A x : x \in Range(FlattenSeq(ss)) <=> \E i \in 1 .. Len(ss) : x \in Range(ss[i])
<1>1. PICK f : /\ \A i \in 1 .. Len(ss) : f[i] = IF i = 1 THEN ss[i] ELSE f[i - 1] \o ss[i]
               /\ FlattenSeq(ss) = IF Len(ss) = 0 THEN ss ELSE f[Len(ss)]
  <2>1. Len(ss) \in Nat
    OBVIOUS
  <2> QED
    BY <2>1, FlattenPartial
<1> DEFINE Right(k) == /\ f[k] \in Seq(S)
                       /\ \A x : x \in Range(f[k]) <=> \E i \in 1 .. k : x \in Range(ss[i])
           G == {k \in 0 .. Len(ss) : k # 0 => Right(k)}
<1>2. 0 \in G /\ Len(ss) \in Nat
  OBVIOUS
<1>3. ASSUME NEW k \in 1 .. Len(ss), k - 1 \in G PROVE k \in G
  <2>1. k # 1 => Right(k - 1)
    <3> HIDE DEF Right
    <3> QED
      BY <1>3
  <2>2. ss[k] \in Seq(S) /\ k \in Nat
    OBVIOUS
  <2>3. Right(k)
    <3>1. CASE k = 1
      <4>1. f[k] = ss[k] /\ 1 .. k = {k}
        BY <1>1, <3>1
      <4> QED
        BY <2>2, <4>1
    <3>2. CASE k # 1
      <4>1. f[k] = f[k - 1] \o ss[k]
        BY <1>1, <3>2
      <4>2. f[k] \in Seq(S) /\ Range(f[k]) = Range(f[k - 1]) \cup Range(ss[k])
        BY <2>1, <2>2, <3>2, <4>1, RangeConcatenation
      <4>3. 1 .. k = (1 .. k - 1) \cup {k}
        BY <2>2, <3>2
      <4>4. \A x : x \in Range(f[k]) <=> \E i \in 1 .. k : x \in Range(ss[i])
        BY <2>1, <3>2, <4>2, <4>3
      <4> QED
        BY <4>2, <4>4
    <3> QED
      BY <3>1, <3>2
  <2> HIDE DEF Right
  <2> QED
    BY <2>3
<1>4. \A k \in 0 .. Len(ss) : k \in G
  <2> HIDE DEF G
  <2> QED
    BY <1>2, <1>3, Upwards
<1>5. CASE Len(ss) = 0
  <2>1. FlattenSeq(ss) = <<>> /\ Range(<<>>) = {}
    BY <1>1, <1>5 DEF Range
  <2> QED
    BY <2>1, <1>5
<1>6. CASE Len(ss) # 0
  <2>1. Right(Len(ss))
    <3> HIDE DEF Right
    <3> QED
      BY <1>2, <1>4, <1>6
  <2> QED
    BY <2>1, <1>1, <1>6
<1> QED
  BY <1>5, <1>6

\* One element from each gives the sequence of them.
LEMMA FlattenSingles ==
    ASSUME NEW S, NEW s \in Seq(S)
    PROVE  FlattenSeq([i \in DOMAIN s |-> <<s[i]>>]) = s
<1> DEFINE ss == [i \in DOMAIN s |-> <<s[i]>>]
<1> SUFFICES FlattenSeq(ss) = s
  OBVIOUS
<1>1. Len(ss) = Len(s) /\ Len(s) \in Nat /\ DOMAIN s = 1 .. Len(s) /\ \A i \in 1 .. Len(s) : ss[i] = <<s[i]>>
  OBVIOUS
<1> HIDE DEF ss
<1>2. PICK f : /\ \A i \in 1 .. Len(ss) : f[i] = IF i = 1 THEN ss[i] ELSE f[i - 1] \o ss[i]
               /\ FlattenSeq(ss) = IF Len(ss) = 0 THEN ss ELSE f[Len(ss)]
  BY <1>1, FlattenPartial
<1> DEFINE Upto(k) == [j \in 1 .. k |-> s[j]]
           G == {k \in 0 .. Len(s) : k # 0 => f[k] = Upto(k)}
<1>3. 0 \in G
  BY <1>1
<1>4. ASSUME NEW k \in 1 .. Len(s), k - 1 \in G PROVE k \in G
  <2>1. k \in Nat /\ s[k] \in S /\ (k # 1 => f[k - 1] = Upto(k - 1))
    <3>1. k \in Nat /\ s[k] \in S
      BY <1>1
    <3> HIDE DEF Upto
    <3> QED
      BY <1>4, <3>1
  <2>2. f[k] = Upto(k)
    <3>1. CASE k = 1
      <4>1. f[k] = <<s[1]>>
        BY <1>1, <1>2, <3>1
      <4>2. <<s[1]>> = Upto(1)
        OBVIOUS
      <4> QED
        BY <4>1, <4>2, <3>1
    <3>2. CASE k # 1
      <4> DEFINE t == Upto(k - 1)
      <4>1. f[k] = t \o <<s[k]>>
        <5>1. f[k] = f[k - 1] \o ss[k] /\ ss[k] = <<s[k]>>
          BY <1>1, <1>2, <3>2
        <5> HIDE DEF Upto
        <5> QED
          BY <5>1, <2>1, <3>2
      <4>2. t \in Seq(S) /\ Len(t) = k - 1 /\ \A j \in 1 .. k - 1 : t[j] = s[j]
        <5>1. \A j \in 1 .. k - 1 : s[j] \in S
          BY <1>1
        <5>2. t \in [1 .. k - 1 -> S] /\ k - 1 \in Nat
          BY <2>1, <5>1
        <5> QED
          BY <5>2
      <4> HIDE DEF t
      <4>3. /\ t \o <<s[k]>> \in Seq(S) /\ Len(t \o <<s[k]>>) = k
            /\ \A j \in 1 .. k : (t \o <<s[k]>>)[j] = IF j <= k - 1 THEN t[j] ELSE s[k]
        BY <2>1, <4>2
      <4>4. \A j \in 1 .. k : (t \o <<s[k]>>)[j] = s[j]
        BY <4>2, <4>3
      <4> QED
        BY <4>1, <4>3, <4>4
    <3> QED
      BY <3>1, <3>2
  <2> HIDE DEF Upto
  <2> QED
    BY <2>2
<1>5. \A k \in 0 .. Len(s) : k \in G
  <2> HIDE DEF G
  <2> QED
    BY <1>1, <1>3, <1>4, Upwards
<1>6. CASE Len(s) = 0
  <2>1. FlattenSeq(ss) = ss /\ s = <<>>
    BY <1>1, <1>2, <1>6
  <2> QED
    BY <2>1 DEF ss
<1>7. CASE Len(s) # 0
  <2>1. f[Len(s)] = Upto(Len(s))
    <3> HIDE DEF Upto
    <3> QED
      BY <1>1, <1>5, <1>7
  <2>2. Upto(Len(s)) = s
    BY <1>1
  <2> HIDE DEF Upto
  <2> QED
    BY <1>1, <1>2, <1>7, <2>1, <2>2
<1> QED
  BY <1>6, <1>7

-----------------------------------------------------------------------------
(***************************************************************************)
(* AgentConfig.  What a file and the data are.                             *)
(***************************************************************************)
\* A mapping of sections, the options without one among them; or None.
Shaped(d) ==
    d # None => /\ \E D \in SUBSET (Sections \cup {Top}) : d \in [D -> SectionContents \cup {None}]
                /\ Top \in DOMAIN d /\ d[Top] # None

\* A section with contents is not None.
LEMMA Mapped ==
    ASSUME NEW m \in SectionContents
    PROVE  /\ m # None
           /\ DOMAIN m \subseteq Names /\ \A n \in DOMAIN m : m[n] \in Values
<1>1. PICK D \in SUBSET Names : m \in [D -> Values]
  BY DEF SectionContents
<1> QED
  BY <1>1, ConfigAssumption

\* How contents are made.
LEMMA ContentsMade ==
    ASSUME NEW m, m = [n \in DOMAIN m |-> m[n]],
           DOMAIN m \subseteq Names, \A n \in DOMAIN m : m[n] \in Values
    PROVE  m \in SectionContents
<1>1. m \in [DOMAIN m -> Values] /\ DOMAIN m \in SUBSET Names
  OBVIOUS
<1> QED
  BY <1>1 DEF SectionContents

\* How data are made.
LEMMA DataMade ==
    ASSUME NEW d, d = [s \in DOMAIN d |-> d[s]], DOMAIN d \subseteq Sections \cup {Top},
           \A s \in DOMAIN d : d[s] \in SectionContents \cup {None},
           Top \in DOMAIN d, d[Top] # None
    PROVE  Shaped(d) /\ d # None
<1>1. d \in [DOMAIN d -> SectionContents \cup {None}] /\ DOMAIN d \in SUBSET (Sections \cup {Top})
  OBVIOUS
<1>2. None \notin [DOMAIN d -> SectionContents \cup {None}]
  BY <1>1, ConfigAssumption
<1> QED
  BY <1>1, <1>2 DEF Shaped

\* Where the sections of the files come from.
LEMMA SectionOfFile ==
    ASSUME NEW y \in Yamls \ {None}, NEW s \in DOMAIN y, y[s] # None
    PROVE  y[s] \in FileSections
<1> DEFINE A == {y[t] : t \in DOMAIN y}
           F == {{z[t] : t \in DOMAIN z} : z \in Yamls \ {None}}
<1>1. y[s] \in A /\ A \in F
  OBVIOUS
<1>2. FileSections = (UNION F) \ {None}
  BY DEF FileSections
<1> HIDE DEF A, F
<1>3. y[s] \in UNION F
  BY <1>1
<1> QED
  BY <1>2, <1>3

\* A file of the disk.
LEMMA YamlShaped ==
    ASSUME NEW y \in Yamls
    PROVE  Shaped(y)
<1> SUFFICES ASSUME y # None PROVE Shaped(y)
  BY DEF Shaped
<1>1. /\ y = [s \in DOMAIN y |-> y[s]] /\ DOMAIN y \subseteq Sections \cup {Top}
      /\ Top \in DOMAIN y /\ y[Top] # None
  BY ConfigAssumption
<1>2. ASSUME NEW s \in DOMAIN y, y[s] # None PROVE y[s] \in SectionContents
  <2> DEFINE m == y[s]
  <2>1. m \in FileSections
    BY <1>2, SectionOfFile
  <2>2. m = [n \in DOMAIN m |-> m[n]]
    BY <2>1, ConfigAssumption
  <2>3. DOMAIN m \subseteq Names /\ \A n \in DOMAIN m : m[n] \in Values
    BY <2>1 DEF Names, Values
  <2> HIDE DEF m
  <2>4. m \in SectionContents
    BY <2>2, <2>3, ContentsMade
  <2> QED
    BY <2>4 DEF m
<1> QED
  BY <1>1, <1>2, DataMade

\* The data before any file.
LEMMA EmptyShaped ==
    /\ Shaped([s \in {Top} |-> <<>>]) /\ [s \in {Top} |-> <<>>] # None
    /\ <<>> \in SectionContents /\ DOMAIN <<>> = {}
<1>1. <<>> \in [1 .. 0 -> {}] /\ DOMAIN <<>> = 1 .. 0
  BY EmptySeq, LenProperties
<1>2. DOMAIN <<>> = {}
  BY <1>1
<1>3. <<>> = [n \in DOMAIN <<>> |-> <<>>[n]]
  BY <1>1, <1>2
<1>4. <<>> \in SectionContents /\ <<>> # None
  <2> DEFINE m == <<>>
  <2>1. m = [n \in DOMAIN m |-> m[n]] /\ DOMAIN m = {}
    BY <1>2, <1>3
  <2> HIDE DEF m
  <2>2. m \in SectionContents
    BY <2>1, ContentsMade
  <2>3. m # None
    BY <2>2, Mapped
  <2> QED
    BY <2>2, <2>3 DEF m
<1> DEFINE d == [s \in {Top} |-> <<>>]
<1>5. /\ d = [s \in DOMAIN d |-> d[s]] /\ DOMAIN d = {Top} /\ d[Top] = <<>>
      /\ \A s \in DOMAIN d : d[s] = <<>>
  OBVIOUS
<1>6. Shaped(d) /\ d # None
  <2> HIDE DEF d
  <2> QED
    BY <1>4, <1>5, DataMade
<1> QED
  BY <1>2, <1>4, <1>6

\* What the defaults of a section are.
LEMMA DefaultsShaped ==
    ASSUME NEW s
    PROVE  LET D == [n \in {o[2] : o \in {p \in Options : p[1] = s}} |-> Default[<<s, n>>]]
           IN  D \in SectionContents /\ \A p \in Options : p[1] = s => p[2] \in DOMAIN D /\ D[p[2]] = Default[p]
<1> DEFINE N == {o[2] : o \in {p \in Options : p[1] = s}}
           D == [n \in N |-> Default[<<s, n>>]]
<1>1. \A p \in Options : p[1] = s => p[2] \in N /\ <<s, p[2]>> = p
  BY ConfigAssumption
<1>2. \A n \in N : <<s, n>> \in Options
  BY <1>1
<1>3. N \subseteq Names /\ \A n \in N : D[n] \in Values
  BY <1>2 DEF Names, Values
<1>4. D = [n \in DOMAIN D |-> D[n]] /\ DOMAIN D = N
  OBVIOUS
<1>5. \A p \in Options : p[1] = s => p[2] \in DOMAIN D /\ D[p[2]] = Default[p]
  BY <1>1, <1>4
<1>6. D \in SectionContents
  <2> HIDE DEF D, N
  <2> QED
    BY <1>3, <1>4, ContentsMade
<1> QED
  BY <1>5, <1>6

-----------------------------------------------------------------------------
(***************************************************************************)
(* The inductive invariant.                                                *)
(***************************************************************************)
ConfigShapes ==
    /\ search_paths \in Seq(Dirs) /\ IsInjective(search_paths)
    /\ disk \in [Dirs -> Yamls \cup {NoFile}] /\ env \in Environments
    /\ loaded_config \in Dirs \cup {None}
    /\ loaded_config # None => disk[loaded_config] # NoFile
    /\ loaded \in BOOLEAN /\ reload \in BOOLEAN /\ dogstatsd \in BOOLEAN
    /\ pending \subseteq DOMAIN env
    /\ pc \in {"search", "override", "loaded", "raised", "started", "failed"}
    /\ pc \in {"loaded", "started", "failed"} => data # None /\ pending = {}
    /\ Shaped(data)

\* The data have the sections of the file, empty where they are empty, and those that the
\* environment has filled.
SectionsKept ==
    /\ data = None <=> File = None
    /\ data # None =>
          /\ DOMAIN File \subseteq DOMAIN data
          /\ \A s \in DOMAIN data : data[s] = None <=> s \in DOMAIN File /\ File[s] = None

\* What an option is without the environment.
FromFile(o) ==
    IF o[1] \notin DOMAIN File THEN Default[o]
    ELSE IF File[o[1]] = None THEN None
    ELSE IF o[2] \in DOMAIN File[o[1]] THEN File[o[1]][o[2]]
    ELSE Default[o]

\* What was laid over the file so far.  When the search begins anew the data are still
\* those of the first round.
LaidOver ==
    data # None => \A o \in Options :
        /\ o \notin DOMAIN env => Get(o) = FromFile(o)
        /\ o \in DOMAIN env => Get(o) \in {Text(env[o]), FromFile(o)}
        /\ o \in DOMAIN env \ pending /\ pc \in {"override", "loaded", "started", "failed"}
              => Get(o) = Text(env[o])

ConfigInductive == ConfigShapes /\ SectionsKept /\ LaidOver /\ RaisesOnEmptyOnly

\* The file is one of the disk, or there was none.
LEMMA FileShaped ==
    ASSUME ConfigShapes
    PROVE  /\ Shaped(File)
           /\ loaded_config # None => disk[loaded_config] \in Yamls
<1>1. loaded_config # None => disk[loaded_config] \in Yamls
  BY DEF ConfigShapes
<1>2. CASE loaded_config = None
  BY <1>2, EmptyShaped DEF File
<1>3. CASE loaded_config # None
  BY <1>1, <1>3, YamlShaped DEF File
<1> QED
  BY <1>1, <1>2, <1>3

\* A file has its own options only.
LEMMA FromItself ==
    ASSUME ConfigShapes, data = File
    PROVE  SectionsKept /\ \A o \in Options : Get(o) = FromFile(o)
BY DEF SectionsKept, Get, FromFile

\* The first directory with a file.
LEMMA FirstFile ==
    ASSUME ConfigShapes, Found # {}
    PROVE  First \in Dirs /\ disk[First] # NoFile /\ disk[First] \in Yamls
<1>1. Found \subseteq Nat /\ Found \subseteq DOMAIN search_paths
  BY DEF ConfigShapes, Found
<1>2. \E n \in Found : \A m \in Found : n <= m
  BY <1>1, Least
<1>3. Min(Found) \in Found
  BY <1>2 DEF Min
<1>4. search_paths[Min(Found)] \in Dirs
  <2>1. search_paths \in Seq(Dirs) /\ Min(Found) \in DOMAIN search_paths
    BY <1>1, <1>3 DEF ConfigShapes
  <2> QED
    BY ONLY <2>1
<1>5. disk[First] # NoFile
  BY <1>3 DEF Found, First
<1> QED
  BY <1>4, <1>5 DEF First, ConfigShapes

\* The conf_path, before and after the environment was laid over it.
LEMMA ConfPathNames ==
    ASSUME ConfigInductive, data # None
    PROVE  Directory(Get(ConfPath))
<1>1. ConfPath \in Options /\ ConfPath[1] = Top
  BY ConfigAssumption DEF ConfPath
<1>2. Get(ConfPath) = FromFile(ConfPath) \/ (ConfPath \in DOMAIN env /\ Get(ConfPath) = Text(env[ConfPath]))
  BY <1>1 DEF ConfigInductive, LaidOver
<1>3. CASE ConfPath \in DOMAIN env /\ Get(ConfPath) = Text(env[ConfPath])
  BY <1>3, ConfigAssumption DEF ConfigInductive, ConfigShapes
<1>4. CASE Get(ConfPath) = FromFile(ConfPath)
  <2>1. Shaped(File) /\ File # None
    BY FileShaped DEF ConfigInductive, SectionsKept
  <2>2. Top \in DOMAIN File /\ File[Top] # None
    BY <2>1 DEF Shaped
  <2>3. CASE ConfPath[2] \in DOMAIN File[Top]
    <3>1. FromFile(ConfPath) = File[Top][ConfPath[2]]
      BY <1>1, <2>2, <2>3 DEF FromFile
    <3>2. loaded_config # None
      <4>1. loaded_config = None => File[Top] = <<>>
        BY DEF File
      <4> QED
        BY <2>3, <4>1, EmptyShaped
    <3>3. File \in Yamls \ {None}
      BY <2>1, <3>2, FileShaped DEF File, ConfigInductive
    <3>4. File[Top] \in FileSections
      BY <2>2, <3>3, SectionOfFile
    <3> QED
      BY <1>4, <2>3, <3>1, <3>4, ConfigAssumption
  <2>4. CASE ConfPath[2] \notin DOMAIN File[Top]
    BY <1>1, <1>4, <2>2, <2>4, ConfigAssumption DEF FromFile
  <2> QED
    BY <2>3, <2>4
<1> QED
  BY <1>2, <1>3, <1>4

LEMMA ConfigInitially == ConfigInit => ConfigInductive
<1> SUFFICES ASSUME ConfigInit PROVE ConfigInductive
  OBVIOUS
<1>1. ConfigShapes
  BY ConfigAssumption, EmptyShaped DEF ConfigInit, ConfigShapes
<1>2. data = File /\ data # None
  BY EmptyShaped DEF ConfigInit, File
<1>3. SectionsKept /\ LaidOver
  BY <1>1, <1>2, FromItself DEF ConfigInit, LaidOver
<1>4. RaisesOnEmptyOnly
  BY DEF ConfigInit, RaisesOnEmptyOnly
<1> QED
  BY <1>1, <1>3, <1>4 DEF ConfigInductive

\* A file takes the place of the data, or all stays as it is.
LEMMA SearchKeeps ==
    ASSUME ConfigInductive, Search
    PROVE  ConfigInductive'
<1>1. /\ pending' = DOMAIN env /\ pc' = "override"
      /\ UNCHANGED <<disk, env, search_paths, reload, dogstatsd>>
      /\ loaded' \in BOOLEAN
  BY DEF Search, outside, locals
<1>2. RaisesOnEmptyOnly'
  BY <1>1 DEF RaisesOnEmptyOnly
<1>3. CASE Found = {}
  <2>1. UNCHANGED <<data, loaded_config>>
    BY <1>3 DEF Search
  <2>2. ConfigShapes'
    BY <1>1, <2>1 DEF ConfigInductive, ConfigShapes, Shaped
  <2>3. File' = File /\ (\A o : Get(o)' = Get(o)) /\ \A o : FromFile(o)' = FromFile(o)
    BY <1>1, <2>1 DEF File, Get, FromFile
  <2>4. SectionsKept'
    BY <2>1, <2>3 DEF ConfigInductive, SectionsKept
  <2>5. LaidOver'
    BY <1>1, <2>1, <2>3 DEF ConfigInductive, LaidOver
  <2> QED
    BY <1>2, <2>2, <2>4, <2>5 DEF ConfigInductive
<1>4. CASE Found # {}
  <2>1. data' = disk[First] /\ loaded_config' = First
    BY <1>4 DEF Search
  <2>2. First \in Dirs /\ disk[First] # NoFile /\ disk[First] \in Yamls
    BY <1>4, FirstFile DEF ConfigInductive
  <2>3. Shaped(data')
    BY <2>1, <2>2, YamlShaped
  <2>4. ConfigShapes'
    BY <1>1, <2>1, <2>2, <2>3 DEF ConfigInductive, ConfigShapes, Shaped
  <2>5. data' = File'
    BY <1>1, <2>1, <2>2, ConfigAssumption DEF File
  <2>6. SectionsKept' /\ \A o \in Options : Get(o)' = FromFile(o)'
    BY <2>5 DEF SectionsKept, Get, FromFile
  <2>7. LaidOver'
    BY <1>1, <2>6 DEF LaidOver
  <2> QED
    BY <1>2, <2>4, <2>6, <2>7 DEF ConfigInductive
<1> QED
  BY <1>3, <1>4

\* The section that an option is laid over, and what becomes of it.
LEMMA WithFacts ==
    ASSUME NEW m \in SectionContents, NEW o \in DOMAIN env, ConfigShapes
    PROVE  /\ With(m, o) \in SectionContents /\ With(m, o) # None
           /\ DOMAIN With(m, o) = DOMAIN m \cup {o[2]}
           /\ With(m, o)[o[2]] = Text(env[o])
           /\ \A n \in DOMAIN m : n # o[2] => With(m, o)[n] = m[n]
<1> DEFINE w == With(m, o)
<1>1. o \in Options /\ Text(env[o]) \in Values /\ o[2] \in Names
  <2>1. o \in Options
    BY ConfigAssumption DEF ConfigShapes
  <2>2. env[o] \in EnvTexts
    BY DEF ConfigShapes, EnvTexts
  <2> QED
    BY <2>1, <2>2 DEF Values, Names
<1>2. /\ w = [n \in DOMAIN w |-> w[n]]
      /\ DOMAIN w = DOMAIN m \cup {o[2]}
      /\ w[o[2]] = Text(env[o])
      /\ \A n \in DOMAIN m : n # o[2] => w[n] = m[n]
  BY DEF With
<1>3. DOMAIN w \subseteq Names /\ \A n \in DOMAIN w : w[n] \in Values
  <2> HIDE DEF w
  <2> QED
    BY <1>1, <1>2, Mapped
<1> HIDE DEF w
<1>4. w \in SectionContents
  BY <1>2, <1>3, ContentsMade
<1>5. w # None
  BY <1>4, Mapped
<1> QED
  BY <1>2, <1>4, <1>5 DEF w

\* The environment is laid over the data, one option at a time.
LEMMA OverrideKeeps ==
    ASSUME ConfigInductive, NEW o \in Options, Override(o)
    PROVE  ConfigInductive'
<1>1. /\ pc = "override" /\ o \in pending /\ pending' = pending \ {o}
      /\ UNCHANGED <<disk, env, search_paths, reload, loaded_config, dogstatsd>>
      /\ o \in DOMAIN env
  BY DEF Override, outside, locals, ConfigInductive, ConfigShapes
<1>2. File' = File /\ \A p : FromFile(p)' = FromFile(p)
  BY <1>1 DEF File, FromFile
<1>3. CASE ~ Sound(o)
  <2>1. pc' = "raised" /\ UNCHANGED <<data, loaded>>
    BY <1>3 DEF Override
  <2>2. ConfigShapes'
    BY <1>1, <2>1 DEF ConfigInductive, ConfigShapes, Shaped
  <2>3. \A p : Get(p)' = Get(p)
    BY <2>1 DEF Get
  <2>4. SectionsKept'
    BY <1>2, <2>1 DEF ConfigInductive, SectionsKept
  <2>5. LaidOver'
    BY <1>1, <1>2, <2>1, <2>3 DEF ConfigInductive, LaidOver
  <2>6. RaisesOnEmptyOnly'
    <3>1. data = None => File = None
      BY DEF ConfigInductive, SectionsKept
    <3>2. data # None => o[1] \in DOMAIN File /\ File[o[1]] = None
      <4> SUFFICES ASSUME data # None PROVE o[1] \in DOMAIN File /\ File[o[1]] = None
        OBVIOUS
      <4>1. Section(o[1]) = None
        BY <1>3 DEF Sound
      <4>2. o[1] \in DOMAIN data /\ data[o[1]] = None
        BY <4>1, DefaultsShaped, Mapped DEF Section
      <4> QED
        BY <4>2 DEF ConfigInductive, SectionsKept
    <3> QED
      BY <1>1, <1>2, <3>1, <3>2 DEF RaisesOnEmptyOnly
  <2> QED
    BY <2>2, <2>4, <2>5, <2>6 DEF ConfigInductive
<1>4. CASE Sound(o)
  <2> DEFINE s == o[1]
             m == Section(s)
             w == With(m, o)
  <2>1. data # None /\ m # None
    BY <1>4 DEF Sound
  <2>2. /\ data' = [t \in DOMAIN data \cup {s} |-> IF t = s THEN w ELSE data[t]]
        /\ loaded' = (loaded /\ o # ConfPath) /\ pc' = pc
    BY <1>4 DEF Override
  <2>3. /\ \A t \in DOMAIN data : data[t] \in SectionContents \cup {None}
        /\ DOMAIN data \subseteq Sections \cup {Top}
        /\ Top \in DOMAIN data /\ data[Top] # None
    BY <2>1 DEF ConfigInductive, ConfigShapes, Shaped
  <2>4. m \in SectionContents
    <3>1. CASE s \in DOMAIN data
      BY <2>1, <2>3, <3>1 DEF Section
    <3>2. CASE s \notin DOMAIN data
      BY <3>2, DefaultsShaped DEF Section
    <3> QED
      BY <3>1, <3>2
  <2>5. /\ w \in SectionContents /\ w # None
        /\ DOMAIN w = DOMAIN m \cup {o[2]} /\ w[o[2]] = Text(env[o])
        /\ \A n \in DOMAIN m : n # o[2] => w[n] = m[n]
    BY <1>1, <2>4, WithFacts DEF ConfigInductive
  <2>6. s \in Sections \cup {Top}
    BY DEF Sections
  <2>7. s \in DOMAIN data => m = data[s]
    BY DEF Section
  <2>8. s \notin DOMAIN data =>
           \A p \in Options : p[1] = s => p[2] \in DOMAIN m /\ m[p[2]] = Default[p]
    BY DefaultsShaped DEF Section
  <2> HIDE DEF m, w, s
  <2>9. /\ data' = [t \in DOMAIN data' |-> data'[t]]
        /\ DOMAIN data' = DOMAIN data \cup {s} /\ data'[s] = w
        /\ \A t \in DOMAIN data : t # s => data'[t] = data[t]
    BY <2>2
  <2>10. Shaped(data') /\ data' # None
    <3>1. /\ DOMAIN data' \subseteq Sections \cup {Top}
          /\ \A t \in DOMAIN data' : data'[t] \in SectionContents \cup {None}
          /\ Top \in DOMAIN data' /\ data'[Top] # None
      BY <2>3, <2>5, <2>6, <2>9
    <3> QED
      BY <2>9, <3>1, DataMade
  <2>11. ConfigShapes'
    BY <1>1, <2>2, <2>10 DEF ConfigInductive, ConfigShapes, Shaped
  <2>12. SectionsKept'
    <3>1. /\ data # None /\ File # None /\ DOMAIN File \subseteq DOMAIN data
          /\ \A t \in DOMAIN data : data[t] = None <=> t \in DOMAIN File /\ File[t] = None
      BY <2>1 DEF ConfigInductive, SectionsKept
    <3>2. ~ (s \in DOMAIN File /\ File[s] = None)
      BY <2>1, <2>7, <3>1
    <3> QED
      BY <1>2, <2>5, <2>9, <2>10, <3>1, <3>2 DEF SectionsKept
  <2>13. Get(o)' = Text(env[o])
    BY <1>1, <2>5, <2>9 DEF Get, s
  <2>14. ASSUME NEW p \in Options, p # o PROVE Get(p)' = Get(p)
    <3>1. CASE p[1] # s
      BY <2>9, <3>1 DEF Get
    <3>2. CASE p[1] = s
      <4>1. p[2] # o[2]
        BY <2>14, <3>2, ConfigAssumption DEF s
      <4>2. Get(p)' = IF p[2] \in DOMAIN w THEN w[p[2]] ELSE Default[p]
        BY <2>5, <2>9, <3>2 DEF Get
      <4>3. Get(p)' = IF p[2] \in DOMAIN m THEN m[p[2]] ELSE Default[p]
        BY <2>5, <4>1, <4>2
      <4>4. CASE s \in DOMAIN data
        BY <2>1, <2>7, <3>2, <4>3, <4>4 DEF Get
      <4>5. CASE s \notin DOMAIN data
        BY <2>8, <3>2, <4>3, <4>5 DEF Get
      <4> QED
        BY <4>4, <4>5
    <3> QED
      BY <3>1, <3>2
  <2>15. LaidOver'
    <3> SUFFICES ASSUME NEW p \in Options
                 PROVE  /\ p \notin DOMAIN env' => Get(p)' = FromFile(p)'
                        /\ p \in DOMAIN env' => Get(p)' \in {Text(env'[p]), FromFile(p)'}
                        /\ p \in DOMAIN env' \ pending'
                              /\ pc' \in {"override", "loaded", "started", "failed"}
                              => Get(p)' = Text(env'[p])
      BY DEF LaidOver
    <3>1. CASE p = o
      BY <1>1, <2>13, <3>1
    <3>2. CASE p # o
      BY <1>1, <1>2, <2>1, <2>2, <2>14, <3>2 DEF ConfigInductive, LaidOver
    <3> QED
      BY <3>1, <3>2
  <2>16. RaisesOnEmptyOnly'
    BY <1>1, <2>2 DEF RaisesOnEmptyOnly
  <2> QED
    BY <2>11, <2>12, <2>15, <2>16 DEF ConfigInductive
<1> QED
  BY <1>3, <1>4

\* The data are complete, or the search begins anew.
LEMMA DecideKeeps ==
    ASSUME ConfigInductive, Decide
    PROVE  ConfigInductive'
<1>1. /\ pc = "override" /\ pending = {}
      /\ UNCHANGED <<disk, env, data, loaded_config, loaded, pending, dogstatsd>>
  BY DEF Decide, outside
<1>2. \/ data = None /\ pc' = "raised" /\ UNCHANGED <<search_paths, reload>>
      \/ /\ data # None /\ Again /\ pc' = "search" /\ reload' = FALSE
         /\ search_paths' = Added(Get(ConfPath).says)
      \/ data # None /\ pc' = "loaded" /\ UNCHANGED <<search_paths, reload>>
  BY DEF Decide, Reload, locals
<1>3. File' = File /\ (\A o : Get(o)' = Get(o)) /\ \A o : FromFile(o)' = FromFile(o)
  BY <1>1 DEF File, Get, FromFile
<1>4. SectionsKept' /\ LaidOver'
  BY <1>1, <1>2, <1>3 DEF ConfigInductive, SectionsKept, LaidOver
<1>5. RaisesOnEmptyOnly'
  BY <1>2, <1>3 DEF ConfigInductive, SectionsKept, RaisesOnEmptyOnly
<1>6. search_paths' \in Seq(Dirs) /\ IsInjective(search_paths')
  <2>1. search_paths \in Seq(Dirs) /\ IsInjective(search_paths)
    BY DEF ConfigInductive, ConfigShapes
  <2>2. CASE data # None /\ Again /\ search_paths' = Added(Get(ConfPath).says)
    <3> DEFINE d == Get(ConfPath).says
    <3>1. d \in Dirs
      BY <2>2, ConfPathNames DEF Again, Directory
    <3> HIDE DEF d
    <3>2. CASE d \in Range(search_paths)
      BY <2>1, <2>2, <3>2 DEF Added, d
    <3>3. CASE d \notin Range(search_paths)
      <4>1. search_paths' = Append(search_paths, d)
        BY <2>2, <3>3 DEF Added, d
      <4>2. \A n \in DOMAIN search_paths : search_paths[n] # d
        BY <3>3 DEF Range
      <4>3. /\ DOMAIN search_paths' = 1 .. Len(search_paths) + 1
            /\ \A n \in 1 .. Len(search_paths) : search_paths'[n] = search_paths[n]
            /\ search_paths'[Len(search_paths) + 1] = d
            /\ DOMAIN search_paths = 1 .. Len(search_paths) /\ Len(search_paths) \in Nat
        BY <2>1, <3>1, <4>1
      <4>4. IsInjective(search_paths')
        BY <2>1, <4>2, <4>3 DEF IsInjective
      <4> QED
        BY <2>1, <3>1, <4>1, <4>4
    <3> QED
      BY <3>2, <3>3
  <2> QED
    BY <1>2, <2>1, <2>2
<1>7. ConfigShapes'
  BY <1>1, <1>2, <1>6 DEF ConfigInductive, ConfigShapes, Shaped
<1> QED
  BY <1>4, <1>5, <1>7 DEF ConfigInductive

LEMMA ConfigMoves ==
    ASSUME ConfigInductive, [ConfigNext]_configVars
    PROVE  ConfigInductive'
<1>1. CASE Search
  BY <1>1, SearchKeeps
<1>2. ASSUME NEW o \in Options, Override(o) PROVE ConfigInductive'
  BY <1>2, OverrideKeeps
<1>3. CASE Decide
  BY <1>3, DecideKeeps
<1>4. CASE Start \/ UNCHANGED configVars
  <2>1. /\ UNCHANGED <<disk, env, search_paths, reload, data, loaded_config, loaded, pending>>
        /\ dogstatsd' \in BOOLEAN
        /\ pc' = pc \/ (pc = "loaded" /\ pc' \in {"started", "failed"})
    BY <1>4, Zenon DEF Start, configVars, outside, locals, ConfigInductive, ConfigShapes
  <2>2. File' = File /\ (\A o : Get(o)' = Get(o)) /\ \A o : FromFile(o)' = FromFile(o)
    BY <2>1 DEF File, Get, FromFile
  <2>3. ConfigShapes'
    BY <2>1 DEF ConfigInductive, ConfigShapes, Shaped
  <2>4. SectionsKept' /\ LaidOver'
    BY <2>1, <2>2 DEF ConfigInductive, SectionsKept, LaidOver
  <2>5. RaisesOnEmptyOnly'
    BY <2>1, <2>2 DEF ConfigInductive, RaisesOnEmptyOnly
  <2> QED
    BY <2>3, <2>4, <2>5 DEF ConfigInductive
<1> QED
  BY <1>1, <1>2, <1>3, <1>4 DEF ConfigNext

\* Whatever files there are, whatever the environment says and in whatever order it is laid
\* over them, after one round of the search or two: an option is what the environment says,
\* else what the file says, else its default, and load raises for what is empty only.
THEOREM ConfigInvHolds == ConfigSpec => []ConfigInv
<1>1. ConfigInductive /\ [ConfigNext]_configVars => ConfigInductive'
  BY ConfigMoves
<1>2. ConfigInductive => ConfigInv
  <2> SUFFICES ASSUME ConfigInductive PROVE ConfigInv
    OBVIOUS
  <2>1. ConfigTypeOK
    BY DEF ConfigInductive, ConfigShapes, ConfigTypeOK, Range, Shaped
  <2>2. EnvOverFileOverDefault
    <3> SUFFICES ASSUME pc = "loaded", NEW o \in Options
                 PROVE  Get(o) = IF o \in DOMAIN env THEN Text(env[o]) ELSE FromFile(o)
      BY DEF EnvOverFileOverDefault, FromFile
    <3> QED
      BY DEF ConfigInductive, ConfigShapes, LaidOver
  <2> QED
    BY <2>1, <2>2 DEF ConfigInductive, ConfigInv
<1> QED
  BY ConfigInitially, <1>1, <1>2, PTL DEF ConfigSpec

-----------------------------------------------------------------------------
(***************************************************************************)
(* CheckLoading.                                                           *)
(***************************************************************************)
LEMMA LoaderFacts ==
    /\ Range(Loaders) = {"core", "checks.d", "wheel"}
    /\ Loaders[1] = "core" /\ Loaders[2] = "checks.d" /\ Loaders[3] = "wheel"
    /\ \A n \in 1 .. 3 : Loaders[n] \in Range(Loaders)
    /\ \A m, n \in 1 .. 3 : Loaders[m] = Loaders[n] => m = n
    /\ \A l \in Range(Loaders) : \E n \in 1 .. 3 : l = Loaders[n]
BY DEF Loaders, Range

\* The least of up to four places.
LEMMA LeastPlace ==
    ASSUME NEW S, S \subseteq 1 .. 4, S # {}
    PROVE  Min(S) \in S /\ \A n \in S : Min(S) <= n
<1>1. \E m \in S : \A n \in S : m <= n
  <2>1. CASE 1 \in S
    BY <2>1
  <2>2. CASE 1 \notin S /\ 2 \in S
    BY <2>2
  <2>3. CASE 1 \notin S /\ 2 \notin S /\ 3 \in S
    BY <2>3
  <2>4. CASE 1 \notin S /\ 2 \notin S /\ 3 \notin S
    <3>1. \A n \in S : n = 4
      BY <2>4
    <3>2. PICK n \in S : TRUE
      OBVIOUS
    <3> QED
      BY <3>1, <3>2
  <2> QED
    BY <2>1, <2>2, <2>3, <2>4
<1> QED
  BY <1>1 DEF Min

\* The largest of three numbers, and of two.
LEMMA Largest ==
    ASSUME NEW a \in Int, NEW b \in Int, NEW c \in Int
    PROVE  /\ Max({a, b, c}) \in {a, b, c}
           /\ Max({a, b, c}) >= a /\ Max({a, b, c}) >= b /\ Max({a, b, c}) >= c
<1>1. \E m \in {a, b, c} : \A n \in {a, b, c} : m >= n
  <2>1. CASE a >= b /\ a >= c
    BY <2>1
  <2>2. CASE b >= a /\ b >= c
    BY <2>2
  <2>3. CASE c >= a /\ c >= b
    BY <2>3
  <2> QED
    BY <2>1, <2>2, <2>3
<1>2. Max({a, b, c}) \in {a, b, c} /\ \A n \in {a, b, c} : Max({a, b, c}) >= n
  BY <1>1 DEF Max
<1> QED
  BY <1>2

\* What a setting may be.
Settings == [Places -> Nat \cup {Absent, Bad, Infinite}]

\* The first value that can be converted; the global minimum is one.
LEMMA RawFacts ==
    ASSUME NEW s \in Settings
    PROVE  \E n \in 1 .. 4 : /\ Raw(s) = Tried(s)[n]
                             /\ Tried(s)[n] \notin {Absent, Bad}
                             /\ \A m \in 1 .. n - 1 : Tried(s)[m] \in {Absent, Bad}
<1> DEFINE S == {n \in DOMAIN Tried(s) : Tried(s)[n] \notin {Absent, Bad}}
<1>1. DOMAIN Tried(s) = 1 .. 4 /\ Tried(s)[4] = GLOBAL
  BY DEF Tried
<1>2. GLOBAL \notin {Absent, Bad}
  BY LoadingAssumption DEF Absent, Bad
<1>3. S \subseteq 1 .. 4 /\ 4 \in S
  BY <1>1, <1>2
<1>4. Min(S) \in S /\ \A n \in S : Min(S) <= n
  <2> HIDE DEF S
  <2> QED
    BY <1>3, LeastPlace
<1>5. Raw(s) = Tried(s)[Min(S)]
  BY DEF Raw
<1> DEFINE n == Min(S)
<1>6. n \in 1 .. 4 /\ Tried(s)[n] \notin {Absent, Bad}
  BY <1>1, <1>4
<1>7. ASSUME NEW m \in 1 .. n - 1 PROVE Tried(s)[m] \in {Absent, Bad}
  <2>1. m \in 1 .. 4 /\ ~ n <= m
    BY <1>6
  <2>2. m \notin S
    <3> HIDE DEF S
    <3> QED
      BY <1>4, <2>1
  <2> QED
    BY <1>1, <2>1, <2>2
<1> QED
  BY <1>5, <1>6, <1>7

\* The values that are tried.
LEMMA TriedFacts ==
    ASSUME NEW s \in Settings
    PROVE  /\ Tried(s)[1] = Chosen(s) /\ Tried(s)[2] = s["init_config"]
           /\ Tried(s)[3] = ClassDefault(s) /\ Tried(s)[4] = GLOBAL
           /\ \A n \in 1 .. 4 : Tried(s)[n] \in Nat \cup {Absent, Bad, Infinite}
           /\ \A p \in Places : s[p] \in Nat \cup {Absent, Bad, Infinite}
           /\ ClassDefault(s) \in Nat \cup {Bad, Infinite}
<1>1. \A p \in Places : s[p] \in Nat \cup {Absent, Bad, Infinite}
  BY DEF Settings
<1>2. s["instance"] \in Nat \cup {Absent, Bad, Infinite}
      /\ s["init_config"] \in Nat \cup {Absent, Bad, Infinite}
      /\ s["class"] \in Nat \cup {Absent, Bad, Infinite}
  BY <1>1 DEF Places
<1>3. ClassDefault(s) \in Nat \cup {Bad, Infinite}
  BY <1>2 DEF ClassDefault
<1>4. Chosen(s) \in Nat \cup {Absent, Bad, Infinite}
  BY <1>2, <1>3 DEF Chosen
<1>5. /\ Tried(s)[1] = Chosen(s) /\ Tried(s)[2] = s["init_config"]
      /\ Tried(s)[3] = ClassDefault(s) /\ Tried(s)[4] = GLOBAL
  BY DEF Tried
<1>6. \A n \in 1 .. 4 : Tried(s)[n] \in Nat \cup {Absent, Bad, Infinite}
  BY <1>2, <1>3, <1>4, <1>5, LoadingAssumption
<1> QED
  BY <1>1, <1>3, <1>5, <1>6

\* An interval is a number, one second or the global minimum at the least.
LEMMA IntervalFacts ==
    ASSUME NEW s \in Settings, Raw(s) # Infinite
    PROVE  /\ Raw(s) \in Nat /\ Interval(s) \in Nat /\ Interval(s) # 0
           /\ Interval(s) = Max({Raw(s), 1, GLOBAL})
           /\ Interval(s) >= 1 /\ Interval(s) >= GLOBAL
<1>1. Raw(s) \in Nat
  BY RawFacts, TriedFacts
<1>2. GLOBAL \in Nat
  BY LoadingAssumption
<1>3. Interval(s) = Max({Raw(s), 1, GLOBAL})
  BY DEF Interval
<1>4. /\ Max({Raw(s), 1, GLOBAL}) \in {Raw(s), 1, GLOBAL}
      /\ Max({Raw(s), 1, GLOBAL}) >= 1 /\ Max({Raw(s), 1, GLOBAL}) >= GLOBAL
  <2>1. Raw(s) \in Int /\ 1 \in Int /\ GLOBAL \in Int
    BY <1>1, <1>2
  <2> QED
    BY ONLY <2>1, Largest
<1> QED
  BY <1>1, <1>2, <1>3, <1>4

\* It is the first number of those that are set, unless a zero stands for one.
LEMMA FirstNumber ==
    ASSUME NEW s \in Settings, Raw(s) # Infinite, \A p \in Places : s[p] # 0
    PROVE  LET wanted == <<s["instance"], s["init_config"], ClassDefault(s), GLOBAL>>
           IN  Raw(s) = wanted[Min({n \in 1 .. 4 : IsNumber(wanted[n]) \/ n = 4})]
<1> DEFINE wanted == <<s["instance"], s["init_config"], ClassDefault(s), GLOBAL>>
           S == {n \in 1 .. 4 : IsNumber(wanted[n]) \/ n = 4}
           first == Min(S)
<1>1. /\ wanted[1] = s["instance"] /\ wanted[2] = s["init_config"]
      /\ wanted[3] = ClassDefault(s) /\ wanted[4] = GLOBAL
  OBVIOUS
<1>2. first \in S /\ \A n \in S : first <= n
  <2>1. S \subseteq 1 .. 4 /\ 4 \in S
    OBVIOUS
  <2> HIDE DEF S
  <2> QED
    BY <2>1, LeastPlace
<1>3. PICK n \in 1 .. 4 : /\ Raw(s) = Tried(s)[n]
                          /\ Tried(s)[n] \notin {Absent, Bad}
                          /\ \A m \in 1 .. n - 1 : Tried(s)[m] \in {Absent, Bad}
  BY RawFacts
<1>4. /\ s["instance"] \in (Nat \ {0}) \cup {Absent, Bad, Infinite}
      /\ s["init_config"] \in (Nat \ {0}) \cup {Absent, Bad, Infinite}
      /\ s["class"] \in (Nat \ {0}) \cup {Absent, Bad, Infinite}
  BY TriedFacts DEF Places
<1>5. ClassDefault(s) \in (Nat \ {0}) \cup {Bad, Infinite}
  BY <1>4 DEF ClassDefault, Absent
<1>6. Chosen(s) = IF s["instance"] # Absent THEN s["instance"]
                  ELSE IF s["init_config"] # Absent THEN s["init_config"] ELSE ClassDefault(s)
  <2>1. IsSet(s["instance"]) <=> s["instance"] # Absent
    BY DEF IsSet, Places
  <2>2. IsSet(s["init_config"]) <=> s["init_config"] # Absent
    BY DEF IsSet, Places
  <2> QED
    BY <2>1, <2>2 DEF Chosen
<1>7. /\ Tried(s)[1] = Chosen(s) /\ Tried(s)[2] = s["init_config"]
      /\ Tried(s)[3] = ClassDefault(s) /\ Tried(s)[4] = GLOBAL
  BY TriedFacts
<1>8. /\ IsNumber(s["instance"]) <=> s["instance"] \in Nat \ {0}
      /\ IsNumber(s["init_config"]) <=> s["init_config"] \in Nat \ {0}
      /\ IsNumber(ClassDefault(s)) <=> ClassDefault(s) \in Nat \ {0}
  BY <1>4, <1>5 DEF IsNumber, Absent, Bad, Infinite
<1>9. first \in 1 .. 4 /\ (IsNumber(wanted[first]) \/ first = 4)
      /\ \A m \in 1 .. 4 : m < first => ~ IsNumber(wanted[m])
  <2>1. \A m \in 1 .. 4 : m < first => m \notin S
    <3>1. first \in 1 .. 4
      BY <1>2
    <3> HIDE DEF S, first
    <3> QED
      BY <1>2, <3>1
  <2> QED
    BY <1>2, <2>1
<1> HIDE DEF first, S, wanted
<1>10. Raw(s) = wanted[first]
  <2>1. CASE IsNumber(s["instance"])
    <3>1. first = 1
      BY <1>1, <1>9, <2>1
    <3>2. Tried(s)[1] = s["instance"] /\ Tried(s)[1] \notin {Absent, Bad}
      BY <1>6, <1>7, <1>8, <2>1 DEF Absent, Bad
    <3>3. n = 1
      BY <1>3, <3>2
    <3> QED
      BY <1>1, <1>3, <3>1, <3>2, <3>3
  <2>2. CASE s["instance"] = Infinite
    <3>1. Tried(s)[1] = Infinite /\ Tried(s)[1] \notin {Absent, Bad}
      BY <1>6, <1>7, <2>2 DEF Absent, Bad, Infinite
    <3>2. n = 1
      BY <1>3, <3>1
    <3> QED
      BY <1>3, <3>1, <3>2
  <2>3. CASE s["instance"] \in {Absent, Bad}
    <3>1. ~ IsNumber(wanted[1])
      BY <1>1, <2>3 DEF IsNumber, Absent, Bad
    <3>2. CASE IsNumber(s["init_config"])
      <4>1. first = 2
        BY <1>1, <1>9, <3>1, <3>2
      <4>2. Tried(s)[2] = s["init_config"] /\ Tried(s)[2] \notin {Absent, Bad}
        BY <1>7, <1>8, <3>2 DEF Absent, Bad
      <4>3. Tried(s)[1] \in {s["init_config"], Bad}
        BY <1>6, <1>7, <1>8, <2>3, <3>2 DEF Absent, Bad
      <4>4. n = 1 \/ n = 2
        BY <1>3, <4>2
      <4> QED
        BY <1>1, <1>3, <4>1, <4>2, <4>3, <4>4
    <3>3. CASE s["init_config"] = Infinite
      <4>1. Tried(s)[2] = Infinite /\ Infinite \notin {Absent, Bad}
        BY <1>7, <3>3 DEF Absent, Bad, Infinite
      <4>2. Tried(s)[1] \in {Infinite, Bad}
        BY <1>6, <1>7, <2>3, <3>3 DEF Absent, Bad, Infinite
      <4>3. n = 1 \/ n = 2
        BY <1>3, <4>1
      <4> QED
        BY <1>3, <4>1, <4>2, <4>3
    <3>4. CASE s["init_config"] \in {Absent, Bad}
      <4>1. ~ IsNumber(wanted[2])
        BY <1>1, <3>4 DEF IsNumber, Absent, Bad
      <4>2. Tried(s)[1] \in {Bad, ClassDefault(s)} /\ Tried(s)[2] \in {Absent, Bad}
        BY <1>6, <1>7, <2>3, <3>4 DEF Absent, Bad
      <4>3. CASE IsNumber(ClassDefault(s))
        <5>1. first = 3
          BY <1>1, <1>9, <3>1, <4>1, <4>3
        <5>2. ClassDefault(s) \notin {Absent, Bad}
          BY <1>8, <4>3 DEF Absent, Bad
        <5>3. n # 2 /\ n # 4
          BY <1>3, <1>7, <4>2, <5>2
        <5> QED
          BY <1>1, <1>3, <1>7, <4>2, <5>1, <5>3
      <4>4. CASE ClassDefault(s) = Infinite
        <5>1. n # 2 /\ n # 4
          BY <1>3, <1>7, <4>2, <4>4 DEF Absent, Bad, Infinite
        <5> QED
          BY <1>3, <1>7, <4>2, <4>4, <5>1
      <4>5. CASE ClassDefault(s) = Bad
        <5>1. first = 4
          BY <1>1, <1>9, <3>1, <4>1, <4>5 DEF IsNumber, Bad
        <5>2. n = 4
          BY <1>3, <1>7, <4>2, <4>5
        <5> QED
          BY <1>1, <1>3, <1>7, <5>1, <5>2
      <4> QED
        BY <1>5, <1>8, <4>3, <4>4, <4>5
    <3> QED
      BY <1>4, <1>8, <3>2, <3>3, <3>4
  <2> QED
    BY <1>4, <1>8, <2>1, <2>2, <2>3
<1> QED
  BY <1>10 DEF first, S, wanted

-----------------------------------------------------------------------------
(***************************************************************************)
(* The inductive invariant.                                                *)
(***************************************************************************)
\* What the files say is one of the surroundings.
LoadGiven == \E s \in Surroundings : available = s.available /\ setting = s.setting

\* What the loaders that were asked for a check have left: the class of the last of them,
\* or none of any, and the error of each.
LoadFound ==
    \A c \in Checks : \A n \in 1 .. 3 :
        LET l == Loaders[n] IN
        /\ errors[c][l] = IF n <= asked[c] THEN ErrorOf(l, available[c][l]) ELSE "none"
        /\ n <= asked[c] /\ available[c][l] = "class" => n = asked[c] /\ classes[c] = l
        /\ classes[c] = l => n = asked[c] /\ available[c][l] = "class"

\* Instances and pages come after all classes.
LoadOrder == made > 0 \/ pages # {} => Loaded

\* The instances that instantiate_checks is through with.
LoadMade ==
    /\ \A h : h \in signatures <=> \E i \in Instances : intervals[i] # 0 /\ h = Hash[i]
    /\ \A i, j \in Instances : intervals[i] # 0 /\ intervals[j] # 0 /\ Hash[i] = Hash[j] => i = j
    /\ \A n \in 1 .. made : classes[CheckOf[Order[n]]] # None /\ Order[n] \notin failed
                               => Hash[Order[n]] \in signatures
    /\ \A i \in Instances : intervals[i] # 0 =>
          Raw(setting[i]) # Infinite /\ intervals[i] = Interval(setting[i])

LoadInductive ==
    LoadingTypeOK /\ LoadGiven /\ LoadFound /\ LoadOrder /\ MissingAreShown /\ LoadMade

\* What the surroundings are.
LEMMA GivenFacts ==
    ASSUME LoadGiven
    PROVE  /\ available \in [Checks -> [Range(Loaders) -> Outcomes]]
           /\ setting \in [Instances -> Settings]
BY LoadingAssumption DEF LoadGiven, Settings

\* The instances and their order.
LEMMA OrderFacts ==
    /\ Len(Order) \in Nat
    /\ \A n \in 1 .. Len(Order) : Order[n] \in Instances
    /\ \A i \in Instances : \E n \in 1 .. Len(Order) : i = Order[n]
    /\ \A i \in Instances : CheckOf[i] \in Checks /\ Hash[i] \in Range(Hash)
<1>1. Order \in Seq(Instances)
  BY LoadingAssumption
<1>2. Len(Order) \in Nat /\ \A n \in 1 .. Len(Order) : Order[n] \in Instances
  BY <1>1
<1>3. \A i \in Instances : \E n \in 1 .. Len(Order) : i = Order[n]
  BY <1>1 DEF Instances, Range
<1>4. \A i \in Instances : CheckOf[i] \in Checks /\ Hash[i] \in Range(Hash)
  BY LoadingAssumption DEF Range
<1> QED
  BY <1>2, <1>3, <1>4

LEMMA LoadInitially == LoadingInit => LoadInductive
<1> SUFFICES ASSUME NEW s \in Surroundings, LoadingBegins(s) PROVE LoadInductive
  BY DEF LoadingInit
<1> USE DEF LoadingBegins
<1>1. LoadGiven
  BY DEF LoadGiven
<1>2. LoadingTypeOK
  BY OrderFacts DEF LoadingTypeOK
<1>3. LoadFound
  BY LoaderFacts, LoadingAssumption DEF LoadFound
<1>4. LoadOrder /\ MissingAreShown
  BY DEF LoadOrder, MissingAreShown
<1>5. LoadMade
  BY DEF LoadMade
<1> QED
  BY <1>1, <1>2, <1>3, <1>4, <1>5 DEF LoadInductive

\* A loader is asked only while there are no instances and no pages.
LEMMA AskKeeps ==
    ASSUME LoadInductive, NEW c \in Checks, Ask(c)
    PROVE  LoadInductive'
<1> DEFINE l == Loaders[asked[c] + 1]
           found == available[c][l]
<1>1. MustAsk(c) /\ asked[c] < 3 /\ classes[c] = None /\ ~ Loaded
  BY DEF Ask, MustAsk, Loaded
<1>2. made = 0 /\ pages = {}
  BY <1>1 DEF LoadInductive, LoadOrder, LoadingTypeOK
<1>3. /\ UNCHANGED <<available, setting, made, intervals, signatures, failed, pages>>
      /\ classes' = IF found = "class" THEN [classes EXCEPT ![c] = l] ELSE classes
      /\ errors' = [errors EXCEPT ![c][l] = ErrorOf(l, found)]
      /\ asked' = [asked EXCEPT ![c] = @ + 1]
  BY DEF Ask, given
<1>4. /\ asked \in [Checks -> 0 .. 3] /\ asked[c] + 1 \in 1 .. 3
      /\ l \in Range(Loaders) /\ l # None
  <2>1. asked \in [Checks -> 0 .. 3] /\ asked[c] + 1 \in 1 .. 3
    BY <1>1 DEF LoadInductive, LoadingTypeOK
  <2> QED
    BY <2>1, LoaderFacts, LoadingAssumption
<1>5. found \in Outcomes /\ ErrorOf(l, found) \in {"none", "error", "unexplained"}
  <2>1. found \in Outcomes
    BY <1>4, GivenFacts DEF LoadInductive
  <2> QED
    BY <2>1, <1>4, LoaderFacts DEF ErrorOf, CoreError, PlaceError, WheelError, Outcomes
<1>6. LoadGiven'
  BY <1>3 DEF LoadInductive, LoadGiven
<1>7. LoadingTypeOK'
  <2> HIDE DEF l, found
  <2> QED
    BY <1>3, <1>4, <1>5 DEF LoadInductive, LoadingTypeOK
<1>8. LoadFound'
  <2> SUFFICES ASSUME NEW d \in Checks, NEW n \in 1 .. 3
               PROVE  LET k == Loaders[n] IN
                      /\ errors'[d][k] = IF n <= asked'[d] THEN ErrorOf(k, available'[d][k]) ELSE "none"
                      /\ n <= asked'[d] /\ available'[d][k] = "class"
                            => n = asked'[d] /\ classes'[d] = k
                      /\ classes'[d] = k => n = asked'[d] /\ available'[d][k] = "class"
    BY DEF LoadFound
  <2> DEFINE k == Loaders[n]
  <2>1. /\ errors[d][k] = IF n <= asked[d] THEN ErrorOf(k, available[d][k]) ELSE "none"
        /\ n <= asked[d] /\ available[d][k] = "class" => n = asked[d] /\ classes[d] = k
        /\ classes[d] = k => n = asked[d] /\ available[d][k] = "class"
    BY DEF LoadInductive, LoadFound
  <2>2. /\ classes \in [Checks -> Range(Loaders) \cup {None}]
        /\ errors \in [Checks -> [Range(Loaders) -> {"none", "error", "unexplained"}]]
    BY DEF LoadInductive, LoadingTypeOK
  <2>3. k \in Range(Loaders) /\ k # None /\ asked[d] \in 0 .. 3
    BY <1>4, LoaderFacts, LoadingAssumption
  <2>4. k = l <=> n = asked[c] + 1
    BY <1>4, LoaderFacts
  <2> HIDE DEF k, l, found
  <2>5. CASE d # c
    <3>1. errors'[d] = errors[d] /\ asked'[d] = asked[d] /\ classes'[d] = classes[d]
      BY <1>3, <1>4, <2>2, <2>5
    <3> QED
      BY <1>3, <2>1, <3>1 DEF k
  <2>6. CASE d = c
    <3>1. asked'[c] = asked[c] + 1 /\ asked[c] \in 0 .. 2
      BY <1>3, <1>4
    <3>2. /\ errors'[c][k] = IF k = l THEN ErrorOf(l, found) ELSE errors[c][k]
          /\ classes'[c] = IF found = "class" THEN l ELSE None
      BY <1>1, <1>3, <1>4, <2>2, <2>3
    <3>3. available' = available
      BY <1>3
    <3>4. CASE n = asked[c] + 1
      <4>1. k = l /\ available[c][k] = found
        BY <2>4, <3>4 DEF found
      <4>2. n <= asked'[c] /\ n = asked'[c]
        BY <3>1, <3>4
      <4> QED
        BY <1>4, <2>6, <3>2, <3>3, <4>1, <4>2 DEF k
    <3>5. CASE n # asked[c] + 1
      <4>1. k # l /\ (n <= asked'[c] <=> n <= asked[c])
        BY <2>4, <3>1, <3>5
      <4>2. ~ (n <= asked[c] /\ available[c][k] = "class")
        BY <1>1, <2>1, <2>3, <2>6
      <4>3. classes'[c] # k
        BY <2>3, <3>2, <4>1
      <4> QED
        BY <2>1, <2>6, <3>2, <3>3, <4>1, <4>2, <4>3 DEF k
    <3> QED
      BY <3>4, <3>5
  <2> QED
    BY <2>5, <2>6
<1>9. LoadOrder'
  BY <1>2, <1>3 DEF LoadOrder
<1>10. MissingAreShown'
  BY <1>2, <1>3 DEF MissingAreShown
<1>11. LoadMade'
  <2>1. LoadMade
    BY DEF LoadInductive
  <2>2. 1 .. made' = {}
    BY <1>2, <1>3
  <2> QED
    BY <1>3, <2>1, <2>2 DEF LoadMade
<1> QED
  BY <1>6, <1>7, <1>8, <1>9, <1>10, <1>11 DEF LoadInductive

\* An instance is made, not made again, or left out.
LEMMA InstantiateKeeps ==
    ASSUME LoadInductive, NEW i \in Instances, NEW constructed \in BOOLEAN,
           Instantiate(i, constructed)
    PROVE  LoadInductive'
<1> DEFINE ok == constructed /\ Raw(setting[i]) # Infinite
           skipped == classes[CheckOf[i]] = None \/ Hash[i] \in signatures
<1>1. /\ Loaded /\ made < Len(Order) /\ i = Order[made + 1] /\ made' = made + 1
      /\ UNCHANGED <<available, setting, asked, classes, errors, pages>>
  BY DEF Instantiate, given
<1>2. \/ skipped /\ UNCHANGED <<intervals, signatures, failed>>
      \/ /\ ~ skipped /\ ok
         /\ intervals' = [intervals EXCEPT ![i] = Interval(setting[i])]
         /\ signatures' = signatures \cup {Hash[i]} /\ failed' = failed
      \/ /\ ~ skipped /\ ~ ok /\ failed' = failed \cup {i}
         /\ UNCHANGED <<intervals, signatures>>
  BY DEF Instantiate, Signatures
<1>3. /\ made \in 0 .. Len(Order) /\ Len(Order) \in Nat
      /\ intervals \in [Instances -> Nat]
      /\ signatures \subseteq Range(Hash) /\ failed \subseteq Instances
  BY OrderFacts DEF LoadInductive, LoadingTypeOK
<1>4. Hash[i] \in Range(Hash) /\ setting[i] \in Settings
  BY OrderFacts, GivenFacts DEF LoadInductive
<1>5. ok => Interval(setting[i]) \in Nat /\ Interval(setting[i]) # 0
  BY <1>4, IntervalFacts
<1>6. LoadGiven' /\ LoadFound' /\ LoadOrder' /\ MissingAreShown'
  <2>1. Loaded'
    BY <1>1 DEF Loaded, MustAsk
  <2>2. Missing' = Missing
    BY <1>1 DEF Missing
  <2> QED
    BY <1>1, <2>1, <2>2 DEF LoadInductive, LoadGiven, LoadFound, LoadOrder, MissingAreShown
<1>7. LoadingTypeOK'
  <2>1. made' \in 0 .. Len(Order)
    BY <1>1, <1>3
  <2>2. /\ intervals' \in [Instances -> Nat]
        /\ signatures' \subseteq Range(Hash) /\ failed' \subseteq Instances
    BY <1>2, <1>3, <1>4, <1>5
  <2> QED
    BY <1>1, <2>1, <2>2 DEF LoadInductive, LoadingTypeOK
<1>8. LoadMade'
  <2> HIDE DEF skipped, ok
  <2>1. /\ \A h : h \in signatures <=> \E j \in Instances : intervals[j] # 0 /\ h = Hash[j]
        /\ \A j, k \in Instances : intervals[j] # 0 /\ intervals[k] # 0 /\ Hash[j] = Hash[k] => j = k
        /\ \A n \in 1 .. made : classes[CheckOf[Order[n]]] # None /\ Order[n] \notin failed
                                   => Hash[Order[n]] \in signatures
        /\ \A j \in Instances : intervals[j] # 0 =>
              Raw(setting[j]) # Infinite /\ intervals[j] = Interval(setting[j])
    BY DEF LoadInductive, LoadMade
  <2>2. \A n \in 1 .. made' : n \in 1 .. made \/ n = made + 1
    BY <1>1, <1>3
  <2>3. signatures \subseteq signatures' /\ failed \subseteq failed'
    BY <1>2
  <2>4. \A n \in 1 .. made' : classes'[CheckOf[Order[n]]] # None /\ Order[n] \notin failed'
                                 => Hash[Order[n]] \in signatures'
    <3> SUFFICES ASSUME NEW n \in 1 .. made', classes[CheckOf[Order[n]]] # None, Order[n] \notin failed'
                 PROVE  Hash[Order[n]] \in signatures'
      BY <1>1
    <3>1. CASE n \in 1 .. made
      BY <2>1, <2>3, <3>1
    <3>2. CASE n = made + 1
      <4>1. Order[n] = i
        BY <1>1, <3>2
      <4> QED
        BY <1>2, <4>1 DEF skipped
    <3> QED
      BY <2>2, <3>1, <3>2
  <2>5. CASE UNCHANGED <<intervals, signatures>>
    BY <1>1, <2>1, <2>4, <2>5 DEF LoadMade
  <2>6. CASE /\ ~ skipped /\ ok
             /\ intervals' = [intervals EXCEPT ![i] = Interval(setting[i])]
             /\ signatures' = signatures \cup {Hash[i]}
    <3>1. intervals[i] = 0 /\ \A j \in Instances : intervals[j] # 0 => Hash[j] # Hash[i]
      BY <2>1, <2>6 DEF skipped
    <3>2. /\ intervals'[i] = Interval(setting[i]) /\ intervals'[i] # 0
          /\ \A j \in Instances : j # i => intervals'[j] = intervals[j]
      BY <1>3, <1>5, <2>6
    <3>3. \A h : h \in signatures' <=> \E j \in Instances : intervals'[j] # 0 /\ h = Hash[j]
      BY <2>1, <2>6, <3>1, <3>2
    <3>4. \A j, k \in Instances : intervals'[j] # 0 /\ intervals'[k] # 0 /\ Hash[j] = Hash[k] => j = k
      BY <2>1, <3>1, <3>2
    <3>5. \A j \in Instances : intervals'[j] # 0 =>
              Raw(setting'[j]) # Infinite /\ intervals'[j] = Interval(setting'[j])
      BY <1>1, <2>1, <2>6, <3>2 DEF ok
    <3> QED
      BY <2>4, <3>3, <3>4, <3>5 DEF LoadMade
  <2> QED
    BY <1>2, <2>5, <2>6
<1> QED
  BY <1>6, <1>7, <1>8 DEF LoadInductive

\* A check without a class was looked for everywhere.
LEMMA MissingFacts ==
    ASSUME LoadInductive, Loaded, NEW c \in Missing
    PROVE  /\ c \in Checks /\ asked[c] = 3
           /\ errors[c]["checks.d"] \in {"error", "unexplained"}
<1>1. c \in Checks /\ classes[c] = None
  BY DEF Missing
<1>2. asked[c] = 3
  BY <1>1 DEF LoadInductive, LoadingTypeOK, Loaded, MustAsk
<1>3. "checks.d" \in Range(Loaders) /\ Loaders[2] = "checks.d"
  BY LoaderFacts
<1>4. /\ errors[c]["checks.d"] = ErrorOf("checks.d", available[c]["checks.d"])
      /\ available[c]["checks.d"] # "class"
  BY <1>1, <1>2, <1>3, LoadingAssumption DEF LoadInductive, LoadFound
<1>5. available[c]["checks.d"] \in Outcomes
  BY <1>1, <1>3, GivenFacts DEF LoadInductive
<1> QED
  BY <1>1, <1>2, <1>4, <1>5 DEF ErrorOf, PlaceError, Outcomes

LEMMA StatusKeeps ==
    ASSUME LoadInductive, Status
    PROVE  LoadInductive'
<1> DEFINE page == IF \E c \in Missing : errors[c]["checks.d"] = "unexplained"
                   THEN None ELSE [c \in Checks |-> Shown(c)]
<1>1. /\ Ready /\ Loaded /\ pages' = pages \cup {page}
      /\ UNCHANGED <<available, setting, asked, classes, errors, made, intervals, signatures, failed>>
  BY DEF Status, given, Ready
<1>2. LoadGiven' /\ LoadFound' /\ LoadOrder' /\ LoadMade'
  <2>1. Loaded'
    BY <1>1 DEF Loaded, MustAsk
  <2> QED
    BY <1>1, <2>1 DEF LoadInductive, LoadGiven, LoadFound, LoadOrder, LoadMade
<1>3. page = None \/ page \in [Checks -> SUBSET Range(Loaders)]
  BY DEF Shown
<1>4. LoadingTypeOK'
  BY <1>1, <1>3 DEF LoadInductive, LoadingTypeOK
<1>5. MissingAreShown'
  <2>1. Missing' = Missing
    BY <1>1 DEF Missing
  <2>2. ASSUME page # None PROVE {c \in Checks : page[c] # {}} = Missing
    <3>1. /\ page = [c \in Checks |-> Shown(c)]
          /\ \A c \in Missing : errors[c]["checks.d"] # "unexplained"
      BY <2>2
    <3>2. ASSUME NEW c \in Checks PROVE Shown(c) # {} <=> c \in Missing
      <4>1. CASE c \in Missing
        <5>1. errors[c]["checks.d"] = "error" /\ "checks.d" \in Range(Loaders)
          BY <1>1, <3>1, <4>1, MissingFacts, LoaderFacts
        <5> QED
          BY <4>1, <5>1 DEF Shown
      <4>2. CASE c \notin Missing
        BY <4>2 DEF Shown
      <4> QED
        BY <4>1, <4>2
    <3>3. Missing \subseteq Checks
      BY DEF Missing
    <3> HIDE DEF page
    <3> QED
      BY <3>1, <3>2, <3>3
  <2>3. MissingAreShown
    BY DEF LoadInductive
  <2> HIDE DEF page
  <2> QED
    BY <1>1, <2>1, <2>2, <2>3 DEF MissingAreShown
<1> QED
  BY <1>2, <1>4, <1>5 DEF LoadInductive

LEMMA LoadMoves ==
    ASSUME LoadInductive, [LoadingNext]_loadingVars
    PROVE  LoadInductive'
<1>1. ASSUME NEW c \in Checks, Ask(c) PROVE LoadInductive'
  BY <1>1, AskKeeps
<1>2. ASSUME NEW i \in Instances, NEW constructed \in BOOLEAN, Instantiate(i, constructed)
      PROVE  LoadInductive'
  BY <1>2, InstantiateKeeps
<1>3. CASE Status
  BY <1>3, StatusKeeps
<1>4. CASE UNCHANGED loadingVars
  <2>1. LoadGiven' /\ LoadFound' /\ LoadMade' /\ LoadingTypeOK'
    BY <1>4 DEF loadingVars, LoadInductive, LoadGiven, LoadFound, LoadMade, LoadingTypeOK
  <2>2. LoadOrder' /\ MissingAreShown'
    BY <1>4 DEF loadingVars, LoadInductive, LoadOrder, MissingAreShown, Loaded, MustAsk, Missing
  <2> QED
    BY <2>1, <2>2 DEF LoadInductive
<1> QED
  BY <1>1, <1>2, <1>3, <1>4 DEF LoadingNext

-----------------------------------------------------------------------------
(***************************************************************************)
(* What it gives.                                                          *)
(***************************************************************************)
LEMMA FirstFound == LoadInductive => FirstClassWins
<1> SUFFICES ASSUME LoadInductive, Loaded, NEW c \in Checks
             PROVE  LET having == {n \in 1 .. 3 : available[c][Loaders[n]] = "class"}
                    IN  classes[c] = IF having = {} THEN None ELSE Loaders[Min(having)]
  BY DEF FirstClassWins
<1> DEFINE having == {n \in 1 .. 3 : available[c][Loaders[n]] = "class"}
<1>1. /\ asked[c] \in 0 .. 3 /\ (asked[c] = 3 \/ classes[c] # None)
      /\ classes[c] \in Range(Loaders) \cup {None}
  BY DEF LoadInductive, LoadingTypeOK, Loaded, MustAsk
<1>2. \A n \in 1 .. 3 :
        /\ n <= asked[c] /\ available[c][Loaders[n]] = "class"
              => n = asked[c] /\ classes[c] = Loaders[n]
        /\ classes[c] = Loaders[n] => n = asked[c] /\ available[c][Loaders[n]] = "class"
  BY DEF LoadInductive, LoadFound
<1>3. classes[c] # None => \E n \in having : classes[c] = Loaders[n] /\ n = asked[c]
  BY <1>1, <1>2, LoaderFacts
<1>4. CASE having = {}
  BY <1>3, <1>4
<1>5. CASE having # {}
  <2>1. having \subseteq 1 .. 4
    OBVIOUS
  <2>2. Min(having) \in having /\ \A n \in having : Min(having) <= n
    <3> HIDE DEF having
    <3> QED
      BY <1>5, <2>1, LeastPlace
  <2>3. Min(having) <= asked[c]
    BY <1>1, <1>3, <2>2
  <2> DEFINE m == Min(having)
  <2>4. m \in 1 .. 3 /\ available[c][Loaders[m]] = "class"
    BY <2>2
  <2> HIDE DEF m
  <2>5. classes[c] = Loaders[m]
    BY <1>2, <2>3, <2>4 DEF m
  <2> QED
    BY <1>5, <2>5 DEF m
<1> QED
  BY <1>4, <1>5

LEMMA OnceEach == LoadInductive => EachSignatureOnce
<1> SUFFICES ASSUME LoadInductive PROVE EachSignatureOnce
  OBVIOUS
<1>1. LoadMade
  BY DEF LoadInductive
<1>2. ASSUME NEW i \in Instances, Ready, classes[CheckOf[i]] # None, i \notin failed
      PROVE  \E j \in Instances : Hash[j] = Hash[i] /\ intervals[j] # 0
  <2>1. PICK n \in 1 .. Len(Order) : i = Order[n]
    BY OrderFacts
  <2>2. made = Len(Order)
    BY <1>2 DEF Ready
  <2>3. Hash[i] \in signatures
    BY <1>1, <1>2, <2>1, <2>2 DEF LoadMade
  <2> QED
    BY <1>1, <2>3 DEF LoadMade
<1> QED
  BY <1>1, <1>2 DEF LoadMade, EachSignatureOnce

LEMMA AsConfigured == LoadInductive => IntervalAsConfigured
<1> SUFFICES ASSUME LoadInductive, NEW i \in Instances, intervals[i] # 0
             PROVE  LET s == setting[i]
                        wanted == <<s["instance"], s["init_config"], ClassDefault(s), GLOBAL>>
                        first == Min({n \in 1 .. 4 : IsNumber(wanted[n]) \/ n = 4})
                    IN  /\ intervals[i] >= Max({1, GLOBAL})
                        /\ 0 \notin {s[p] : p \in Places} =>
                              intervals[i] = Max({1, GLOBAL, wanted[first]})
  BY DEF IntervalAsConfigured
<1> DEFINE s == setting[i]
           wanted == <<s["instance"], s["init_config"], ClassDefault(s), GLOBAL>>
           first == Min({n \in 1 .. 4 : IsNumber(wanted[n]) \/ n = 4})
<1>1. s \in Settings /\ Raw(s) # Infinite /\ intervals[i] = Interval(s)
  BY GivenFacts DEF LoadInductive, LoadMade
<1>2. intervals[i] >= Max({1, GLOBAL})
  <2>1. {1, GLOBAL} = {1, 1, GLOBAL} /\ GLOBAL \in Int /\ 1 \in Int
    BY LoadingAssumption
  <2>2. Max({1, 1, GLOBAL}) \in {1, GLOBAL}
    BY <2>1, Largest
  <2>3. Max({1, GLOBAL}) \in {1, GLOBAL}
    BY <2>1, <2>2
  <2>4. Interval(s) >= 1 /\ Interval(s) >= GLOBAL
    BY <1>1, IntervalFacts
  <2> QED
    BY <1>1, <2>3, <2>4
<1>3. ASSUME 0 \notin {s[p] : p \in Places}
      PROVE  intervals[i] = Max({1, GLOBAL, wanted[first]})
  <2>1. \A p \in Places : s[p] # 0
    BY <1>3
  <2>2. Raw(s) = wanted[first]
    <3> HIDE DEF s
    <3> QED
      BY <1>1, <2>1, FirstNumber
  <2>3. Interval(s) = Max({Raw(s), 1, GLOBAL})
    BY <1>1, IntervalFacts
  <2>4. {Raw(s), 1, GLOBAL} = {1, GLOBAL, Raw(s)}
    OBVIOUS
  <2> HIDE DEF s, wanted, first
  <2> QED
    BY <1>1, <2>2, <2>3, <2>4
<1> QED
  BY <1>2, <1>3

\* Whatever checks are configured, whatever the loaders find and whatever intervals are
\* asked for: the class of a check is that of the first loader that has one, a status page
\* shows exactly the checks without one, an instance runs once by its signature, and its
\* interval is the first number that was configured for it.
THEOREM LoadingInvHolds == LoadingSpec => []LoadingInv
<1>1. LoadInductive /\ [LoadingNext]_loadingVars => LoadInductive'
  BY LoadMoves
<1>2. LoadInductive => LoadingInv
  BY FirstFound, OnceEach, AsConfigured DEF LoadInductive, LoadingInv
<1> QED
  BY LoadInitially, <1>1, <1>2, PTL DEF LoadingSpec

-----------------------------------------------------------------------------
(***************************************************************************)
(* HttpRequests.  The rules.                                               *)
(***************************************************************************)
\* A sequence is one of what is in it.
LEMMA SeqElements ==
    ASSUME NEW S, NEW s \in Seq(S)
    PROVE  s \in Seq(Range(s)) /\ Range(s) \subseteq S /\ \A i \in 1 .. Len(s) : s[i] \in Range(s)
<1>1. \A i \in 1 .. Len(s) : s[i] \in Range(s) /\ s[i] \in S
  BY DEF Range
<1>2. Range(s) \subseteq S
  BY DEF Range
<1> QED
  BY <1>1, <1>2, SeqOfRange

\* An asterisk is a rule of its own form, and rules are not texts with commas.
LEMMA StarIsNoText == Star.form = "star" /\ \A r : IsRule(r) => r.form # "literal"
BY DEF Star, IsRule

\* Without commas nothing is split.
LEMMA RulesStay == ASSUME NEW rules, AreRules(rules) PROVE SplitRules(rules) = rules /\ AreTexts(rules)
<1>1. rules \in Seq(Range(rules)) /\ \A r \in Range(rules) : IsRule(r)
  BY DEF AreRules
<1>2. \A i \in DOMAIN rules : rules[i] \in Range(rules)
  BY DEF Range
<1>3. [i \in DOMAIN rules |-> IF rules[i].form = "literal" THEN rules[i].rules ELSE <<rules[i]>>]
        = [i \in DOMAIN rules |-> <<rules[i]>>]
  BY <1>1, <1>2, StarIsNoText
<1>4. SplitRules(rules) = rules
  BY <1>1, <1>3, FlattenSingles DEF SplitRules
<1> QED
  BY <1>1, <1>4 DEF AreTexts

\* After the split there are only rules.
LEMMA SplitGivesRules == ASSUME NEW rules, AreTexts(rules) PROVE AreRules(SplitRules(rules))
<1> DEFINE Parts(r) == IF r.form = "literal" THEN r.rules ELSE <<r>>
           ss == [i \in DOMAIN rules |-> Parts(rules[i])]
           S == UNION {Range(Parts(r)) : r \in Range(rules)}
<1>1. /\ rules \in Seq(Range(rules)) /\ DOMAIN rules = 1 .. Len(rules) /\ Len(rules) \in Nat
      /\ \A i \in DOMAIN rules : rules[i] \in Range(rules)
  BY DEF AreTexts, Range
<1>2. ASSUME NEW r \in Range(rules)
      PROVE  Parts(r) \in Seq(Range(Parts(r))) /\ \A q \in Range(Parts(r)) : IsRule(q)
  <2>1. CASE r.form = "literal"
    BY <1>2, <2>1, StarIsNoText DEF AreTexts, AreRules
  <2>2. CASE r.form # "literal"
    <3>1. IsRule(r) /\ Parts(r) = <<r>> /\ Range(<<r>>) = {r}
      BY <1>2, <2>2 DEF AreTexts, Range
    <3>2. <<r>> \in Seq({r})
      OBVIOUS
    <3> HIDE DEF Parts
    <3> QED
      BY <3>1, <3>2
  <2> QED
    BY <2>1, <2>2
<1>3. \A q \in S : IsRule(q)
  <2> HIDE DEF Parts
  <2> QED
    BY <1>2
<1>4. \A i \in DOMAIN rules : Parts(rules[i]) \in Seq(S)
  <2> SUFFICES ASSUME NEW i \in DOMAIN rules PROVE Parts(rules[i]) \in Seq(S)
    OBVIOUS
  <2>1. Parts(rules[i]) \in Seq(Range(Parts(rules[i]))) /\ Range(Parts(rules[i])) \subseteq S
    <3> HIDE DEF Parts
    <3> QED
      BY <1>1, <1>2
  <2> HIDE DEF Parts, S
  <2> QED
    BY <2>1
<1>5. ss \in Seq(Seq(S)) /\ SplitRules(rules) = FlattenSeq(ss)
  <2>1. SplitRules(rules) = FlattenSeq(ss)
    BY DEF SplitRules
  <2> HIDE DEF Parts, S
  <2> QED
    BY <1>1, <1>4, <2>1
<1> HIDE DEF ss, S, Parts
<1>6. FlattenSeq(ss) \in Seq(S)
  BY <1>5, FlattenRange
<1> DEFINE flat == FlattenSeq(ss)
<1> HIDE DEF flat
<1>7. flat \in Seq(Range(flat)) /\ Range(flat) \subseteq S
  <2>1. flat \in Seq(S)
    BY <1>6 DEF flat
  <2> QED
    BY <2>1, SeqElements
<1> QED
  BY <1>3, <1>5, <1>7 DEF AreRules, flat

\* The local hosts are appended where they are missing, once.
LEMMA LocalAppended ==
    ASSUME NEW rules, AreTexts(rules)
    PROVE  /\ AreTexts(WithLocal(rules))
           /\ AreRules(rules) => AreRules(WithLocal(rules))
           /\ WithLocal(WithLocal(rules)) = WithLocal(rules)
           /\ Len(rules) <= Len(WithLocal(rules)) /\ Len(rules) \in Nat /\ Len(WithLocal(rules)) \in Nat
<1>1. rules \in Seq(Range(rules)) /\ Len(rules) \in Nat
  BY DEF AreTexts
<1>2. CASE Star \in Range(rules)
  BY <1>1, <1>2 DEF WithLocal
<1>3. CASE Star \notin Range(rules)
  <2> DEFINE More(chosen) == [i \in DOMAIN LocalSkip |-> IF LocalSkip[i] \in Range(chosen) THEN <<>> ELSE <<LocalSkip[i]>>]
             added == FlattenSeq(More(rules))
             all == rules \o added
  <2>1. /\ LocalSkip \in Seq(Range(LocalSkip)) /\ DOMAIN LocalSkip = 1 .. Len(LocalSkip) /\ Len(LocalSkip) \in Nat
        /\ \A i \in DOMAIN LocalSkip : LocalSkip[i] \in Range(LocalSkip)
        /\ \A r \in Range(LocalSkip) : IsRule(r) /\ \E i \in DOMAIN LocalSkip : r = LocalSkip[i]
        /\ Star \notin Range(LocalSkip)
    BY HttpAssumption DEF AreRules, Range
  <2>2. ASSUME NEW chosen
        PROVE  /\ More(chosen) \in Seq(Seq(Range(LocalSkip))) /\ Len(More(chosen)) = Len(LocalSkip)
               /\ \A i \in DOMAIN LocalSkip : \A x :
                     x \in Range(More(chosen)[i]) <=> LocalSkip[i] \notin Range(chosen) /\ x = LocalSkip[i]
    <3>1. \A i \in DOMAIN LocalSkip : More(chosen)[i] \in Seq(Range(LocalSkip))
      BY <2>1
    <3>2. More(chosen) = [i \in 1 .. Len(LocalSkip) |-> More(chosen)[i]]
      BY <2>1
    <3>3. \A x : Range(<<>>) = {} /\ Range(<<x>>) = {x}
      BY DEF Range
    <3>4. \A i \in DOMAIN LocalSkip : \A x :
              x \in Range(More(chosen)[i]) <=> LocalSkip[i] \notin Range(chosen) /\ x = LocalSkip[i]
      BY <3>3
    <3> HIDE DEF More
    <3> QED
      BY <2>1, <3>1, <3>2, <3>4
  <2>3. WithLocal(rules) = all
    BY <1>3 DEF WithLocal
  <2>4. ASSUME NEW chosen
        PROVE  /\ FlattenSeq(More(chosen)) \in Seq(Range(LocalSkip))
               /\ \A x : x \in Range(FlattenSeq(More(chosen))) <=> x \in Range(LocalSkip) /\ x \notin Range(chosen)
    <3> DEFINE S == Range(LocalSkip)
               ss == More(chosen)
    <3>1. ss \in Seq(Seq(S)) /\ Len(ss) = Len(LocalSkip)
      BY <2>2
    <3>2. \A i \in DOMAIN LocalSkip : \A x : x \in Range(ss[i]) <=> LocalSkip[i] \notin Range(chosen) /\ x = LocalSkip[i]
      BY <2>2
    <3>3. \A r \in S : \E i \in DOMAIN LocalSkip : r = LocalSkip[i]
      BY <2>1
    <3>4. \A i \in DOMAIN LocalSkip : LocalSkip[i] \in S
      BY <2>1
    <3> HIDE DEF ss, S
    <3>5. /\ FlattenSeq(ss) \in Seq(S)
          /\ \A x : x \in Range(FlattenSeq(ss)) <=> \E i \in 1 .. Len(ss) : x \in Range(ss[i])
      BY <3>1, FlattenRange
    <3>6. ASSUME NEW x PROVE x \in Range(FlattenSeq(ss)) <=> x \in S /\ x \notin Range(chosen)
      <4>1. x \in Range(FlattenSeq(ss)) <=> \E i \in DOMAIN LocalSkip : x \in Range(ss[i])
        BY <2>1, <3>1, <3>5
      <4>2. x \in Range(FlattenSeq(ss)) <=>
                \E i \in DOMAIN LocalSkip : LocalSkip[i] \notin Range(chosen) /\ x = LocalSkip[i]
        BY <3>2, <4>1
      <4> QED
        BY <3>3, <3>4, <4>2
    <3> QED
      BY <3>5, <3>6 DEF ss, S
  <2>5. /\ added \in Seq(Range(LocalSkip))
        /\ \A x : x \in Range(added) <=> x \in Range(LocalSkip) /\ x \notin Range(rules)
    <3> HIDE DEF More
    <3> QED
      BY <2>4
  <2>6. /\ all \in Seq(Range(rules) \cup Range(LocalSkip)) /\ Range(all) = Range(rules) \cup Range(added)
        /\ Len(all) = Len(rules) + Len(added) /\ Len(added) \in Nat
    <3> DEFINE S == Range(rules) \cup Range(LocalSkip)
    <3>1. rules \in Seq(S) /\ added \in Seq(S)
      <4> HIDE DEF added
      <4> QED
        BY <1>1, <2>5
    <3> HIDE DEF added, S
    <3>2. Len(rules \o added) = Len(rules) + Len(added) /\ Len(added) \in Nat
      BY <3>1
    <3> QED
      BY <3>1, <3>2, RangeConcatenation DEF S
  <2>7. Star \notin Range(all) /\ Range(LocalSkip) \subseteq Range(all)
    <3> HIDE DEF added, all
    <3> QED
      BY <1>3, <2>1, <2>5, <2>6
  <2>8. all \in Seq(Range(all))
    <3> HIDE DEF added, all
    <3> QED
      BY <2>6, SeqElements
  \* The second time nothing is missing.
  <2>9. WithLocal(all) = all
    <3>1. WithLocal(all) = all \o FlattenSeq(More(all))
      BY <2>7 DEF WithLocal
    <3>2. FlattenSeq(More(all)) \in Seq(Range(LocalSkip)) /\ \A x : x \notin Range(FlattenSeq(More(all)))
      <4> HIDE DEF More, all
      <4> QED
        BY <2>4, <2>7
    <3>3. FlattenSeq(More(all)) = <<>>
      <4> HIDE DEF More, all
      <4> DEFINE none == FlattenSeq(More(all))
      <4>1. none \in Seq(Range(LocalSkip)) /\ Len(none) \in Nat /\ \A i \in 1 .. Len(none) : none[i] \in Range(none)
        BY <3>2, SeqElements
      <4>2. 1 \notin 1 .. Len(none)
        BY <3>2, <4>1
      <4> HIDE DEF none
      <4>3. Len(none) = 0
        BY <4>1, <4>2
      <4> QED
        BY <4>1, <4>3 DEF none
    <3>4. all \o <<>> = all
      <4> HIDE DEF all
      <4> QED
        BY <2>8
    <3> QED
      BY <3>1, <3>3, <3>4
  <2> HIDE DEF added, all
  <2>10. AreTexts(all) /\ (AreRules(rules) => AreRules(all))
    BY <2>1, <2>5, <2>6, <2>8 DEF AreTexts, AreRules
  <2> QED
    BY <1>1, <2>3, <2>6, <2>9, <2>10
<1> QED
  BY <1>2, <1>3

-----------------------------------------------------------------------------
(***************************************************************************)
(* HttpRequests.  The wrappers and the requests.                           *)
(***************************************************************************)
\* The rules that are chosen when nothing was written to the environment yet.
Base ==
    IF settings.dd_no_proxy # None THEN settings.dd_no_proxy
    ELSE IF settings.yaml_no_proxy # None THEN settings.yaml_no_proxy
    ELSE IF settings.no_proxy # <<>> THEN settings.no_proxy ELSE settings.NO_PROXY

Wrapper == [http |-> Proxy("http"), https |-> Proxy("https"), no_proxy |-> Configured]

Direct(host) ==
    \E i \in DOMAIN Configured :
        \/ Configured[i] = Star
        \/ Configured[i].form = "net" /\ host \in Configured[i].hosts
        \/ Configured[i].form = "plain" /\ Configured[i].name = host
        \/ Configured[i].form \in {"plain", "dotted"} /\ IsStrictPrefix(Configured[i].name, host)

\* A request as it should be.
RightRequests ==
    {r \in [host : Hosts, scheme : {"http", "https"}, payload : settings.payloads,
            proxy : {None, Proxy("http"), Proxy("https")}, encoding : {None, "zstd"},
            body : {"compressed", "plain", "as given"}] :
        /\ r.proxy = IF Direct(r.host) THEN None ELSE Proxy(r.scheme)
        /\ (r.encoding # None) = (r.body = "compressed")}

\* Every list that was made, or is in the environment, gives the configured rules.
HttpInductive ==
    /\ HttpTypeOK /\ settings \in HttpSettings
    /\ wrappers \in Seq({Wrapper}) /\ sent \in Seq(RightRequests)
    /\ no_proxy_env \in {settings.no_proxy, Configured}
    /\ DOMAIN mine = Threads /\ DOMAIN no_proxy = Threads
    /\ \A t \in Threads :
        /\ http_pc[t] = "write" => SplitRules(no_proxy[t]) = Configured
        /\ http_pc[t] = "return" => shared # 0

\* The chosen rules are texts; what is made of them are rules.
LEMMA BaseIsText ==
    ASSUME settings \in HttpSettings
    PROVE  /\ AreTexts(Base) /\ Configured = SplitRules(WithLocal(Base)) /\ AreRules(Configured)
           /\ settings.dd_no_proxy = None /\ settings.yaml_no_proxy = None =>
                  AreRules(Base) /\ Configured = WithLocal(Base)
<1>1. /\ settings.dd_no_proxy = None \/ AreTexts(settings.dd_no_proxy)
      /\ settings.yaml_no_proxy = None \/ AreTexts(settings.yaml_no_proxy)
      /\ AreRules(settings.no_proxy) /\ AreTexts(settings.no_proxy)
      /\ AreRules(settings.NO_PROXY) /\ AreTexts(settings.NO_PROXY)
  BY HttpAssumption, RulesStay
<1>2. AreTexts(Base)
  BY <1>1 DEF Base
<1>3. Configured = SplitRules(WithLocal(Base))
  BY DEF Configured, Base
<1>4. AreRules(Configured)
  BY <1>2, <1>3, LocalAppended, SplitGivesRules
<1>5. ASSUME settings.dd_no_proxy = None, settings.yaml_no_proxy = None
      PROVE  AreRules(Base) /\ Configured = WithLocal(Base)
  <2>1. AreRules(Base)
    BY <1>1, <1>5 DEF Base
  <2>2. AreRules(WithLocal(Base))
    BY <1>2, <2>1, LocalAppended
  <2> QED
    BY <1>3, <2>1, <2>2, RulesStay
<1> QED
  BY <1>2, <1>3, <1>4, <1>5

\* Whatever a thread before it has written, a thread chooses what gives the same rules.
LEMMA SameRules ==
    ASSUME settings \in HttpSettings, no_proxy_env \in {settings.no_proxy, Configured}
    PROVE  SplitRules(WithLocal(ChosenRules)) = Configured
<1>1. CASE settings.dd_no_proxy # None \/ settings.yaml_no_proxy # None
  <2>1. ChosenRules = Base
    BY <1>1 DEF ChosenRules, Base
  <2> QED
    BY <2>1, BaseIsText
<1>2. CASE settings.dd_no_proxy = None /\ settings.yaml_no_proxy = None
  <2>1. AreRules(Base) /\ AreTexts(Base) /\ Configured = WithLocal(Base) /\ AreRules(Configured)
    BY <1>2, BaseIsText
  <2>2. CASE ChosenRules = Base
    BY <2>2, BaseIsText
  <2>3. CASE ChosenRules # Base
    <3>1. no_proxy_env = Configured
      BY <1>2, <2>3 DEF ChosenRules, Base
    \* It is not empty if what was set at first is not.
    <3>2. ASSUME Configured = <<>> PROVE FALSE
      <4>1. Base # <<>>
        BY <1>2, <2>3, <3>1, <3>2 DEF ChosenRules, Base
      <4>2. Len(Base) <= Len(Configured) /\ Len(Base) \in Nat /\ Len(Configured) \in Nat
        BY <2>1, LocalAppended
      <4>3. Base \in Seq(Range(Base))
        BY <2>1 DEF AreRules
      <4>4. Len(Base) # 0
        BY <4>1, <4>3
      <4> QED
        BY <3>2, <4>2, <4>4
    <3>3. ChosenRules = Configured
      BY <1>2, <3>1, <3>2 DEF ChosenRules
    <3>4. WithLocal(Configured) = Configured
      BY <2>1, LocalAppended
    <3> QED
      BY <2>1, <3>3, <3>4, RulesStay
  <2> QED
    BY <2>2, <2>3
<1> QED
  BY <1>1, <1>2

\* The bypass is by the configured rules.
LEMMA BypassIsDirect ==
    ASSUME settings \in HttpSettings, NEW host \in Hosts
    PROVE  Bypass(Configured, host) <=> Direct(host)
<1>1. \A i \in DOMAIN Configured : IsRule(Configured[i])
  BY BaseIsText DEF AreRules, Range
<1>2. IsPrefix(host, host)
  <2>1. Len(host) \in Nat
    BY HttpAssumption
  <2> QED
    BY <2>1 DEF IsPrefix
<1>3. ASSUME NEW r, IsRule(r)
      PROVE  Matches(r, host) <=> \/ r = Star
                                  \/ r.form = "net" /\ host \in r.hosts
                                  \/ r.form = "plain" /\ r.name = host
                                  \/ r.form \in {"plain", "dotted"} /\ IsStrictPrefix(r.name, host)
  <2>1. CASE r = Star
    BY <2>1, StarIsNoText DEF Matches
  <2>2. CASE r # Star /\ r.form = "net"
    BY <2>2 DEF Matches
  <2>3. CASE r # Star /\ r.form = "plain"
    BY <2>3, <1>2 DEF Matches, IsStrictPrefix
  <2>4. CASE r # Star /\ r.form = "dotted"
    BY <2>4 DEF Matches
  <2> QED
    BY <1>3, <2>1, <2>2, <2>3, <2>4 DEF IsRule
<1> QED
  BY <1>1, <1>3 DEF Bypass, Direct

\* It holds before the first request.
LEMMA HttpInitially == HttpInit => HttpInductive
<1> SUFFICES ASSUME HttpInit PROVE HttpInductive
  OBVIOUS
<1>1. HttpTypeOK
  BY DEF HttpInit, HttpTypeOK
<1> QED
  BY <1>1 DEF HttpInit, HttpInductive

\* No step changes what is set.
LEMMA SetForGood ==
    ASSUME settings' = settings
    PROVE  /\ Configured' = Configured /\ Proxy("http")' = Proxy("http") /\ Proxy("https")' = Proxy("https")
           /\ Wrapper' = Wrapper /\ RightRequests' = RightRequests
<1>1. Configured' = Configured
  BY DEF Configured, WithLocal, SplitRules
<1>2. Proxy("http")' = Proxy("http") /\ Proxy("https")' = Proxy("https")
  BY DEF Proxy
<1>3. Wrapper' = Wrapper
  BY <1>1, <1>2 DEF Wrapper
<1>4. \A h : Direct(h)' = Direct(h)
  BY <1>1 DEF Direct
<1>5. \A s : Proxy(s)' = Proxy(s)
  BY DEF Proxy
<1> QED
  BY <1>1, <1>2, <1>3, <1>4, <1>5 DEF RightRequests

\* Every step of a request keeps it.
LEMMA HttpMoves ==
    ASSUME HttpInductive, [HttpNext]_httpVars
    PROVE  HttpInductive'
<1> USE DEF HttpInductive
<1>1. CASE UNCHANGED httpVars
  <2>1. settings' = settings
    BY <1>1 DEF httpVars
  <2> QED
    BY <1>1, <2>1, SetForGood DEF httpVars, HttpTypeOK
<1>2. ASSUME NEW t \in Threads, AskShared(t) PROVE HttpInductive'
  <2>1. settings' = settings /\ UNCHANGED <<no_proxy_env, wrappers, shared, no_proxy, mine, sent>>
    BY <1>2 DEF AskShared
  <2>2. http_pc' = [http_pc EXCEPT ![t] = http_pc'[t]] /\ http_pc'[t] \in {"return", "resolve"}
        /\ (http_pc'[t] = "return" => shared # 0)
    BY <1>2 DEF AskShared, IsShared, HttpTypeOK
  <2>3. HttpTypeOK'
    BY <2>1, <2>2 DEF HttpTypeOK
  <2> QED
    BY <2>1, <2>2, <2>3, SetForGood DEF HttpTypeOK
<1>3. ASSUME NEW t \in Threads, Resolve(t) PROVE HttpInductive'
  <2>1. /\ settings' = settings /\ UNCHANGED <<no_proxy_env, wrappers, shared, mine, sent>>
        /\ no_proxy' = [no_proxy EXCEPT ![t] = WithLocal(ChosenRules)]
        /\ http_pc' = [http_pc EXCEPT ![t] = "write"]
    BY <1>3 DEF Resolve
  <2>2. SplitRules(no_proxy'[t]) = Configured
    BY <2>1, SameRules
  <2>3. HttpTypeOK'
    BY <2>1 DEF HttpTypeOK
  <2>4. \A u \in Threads : /\ http_pc'[u] = "write" => SplitRules(no_proxy'[u]) = Configured
                           /\ http_pc'[u] = "return" => shared' # 0
    BY <2>1, <2>2 DEF HttpTypeOK
  <2>5. \A u \in Threads : (http_pc[u] = "write" => SplitRules(no_proxy[u]) = Configured)'
    BY <2>1, <2>4, SetForGood DEF SplitRules
  <2> QED
    BY <2>1, <2>3, <2>4, <2>5, SetForGood
<1>4. ASSUME NEW t \in Threads, Write(t) PROVE HttpInductive'
  <2>1. /\ settings' = settings /\ UNCHANGED <<shared, no_proxy, sent>>
        /\ http_pc[t] = "write"
        /\ http_pc' = [http_pc EXCEPT ![t] = "assign"]
        /\ mine' = [mine EXCEPT ![t] = Len(wrappers')]
        /\ no_proxy_env' = Configured
    BY <1>4 DEF Write
  <2>2. wrappers' = Append(wrappers, Wrapper)
    BY <1>4, <2>1 DEF Write, NewWrapper, Wrapper
  <2>3. wrappers' \in Seq({Wrapper}) /\ Len(wrappers') = Len(wrappers) + 1 /\ Len(wrappers) \in Nat
    BY <2>2
  <2>4. HttpTypeOK'
    BY <2>1, <2>3 DEF HttpTypeOK
  <2> QED
    BY <2>1, <2>3, <2>4, SetForGood DEF HttpTypeOK, SplitRules
<1>5. ASSUME NEW t \in Threads, Assign(t) PROVE HttpInductive'
  <2>1. /\ settings' = settings /\ UNCHANGED <<no_proxy_env, wrappers, no_proxy, mine, sent>>
        /\ http_pc[t] = "assign" /\ shared' = mine[t]
        /\ http_pc' = [http_pc EXCEPT ![t] = "return"]
    BY <1>5 DEF Assign
  <2>2. shared' \in 1 .. Len(wrappers)
    BY <2>1 DEF HttpTypeOK
  <2>3. HttpTypeOK'
    BY <2>1, <2>2 DEF HttpTypeOK
  <2> QED
    BY <2>1, <2>2, <2>3, SetForGood DEF HttpTypeOK, SplitRules
<1>6. ASSUME NEW t \in Threads, Return(t) PROVE HttpInductive'
  <2>1. /\ settings' = settings /\ UNCHANGED <<no_proxy_env, wrappers, shared, no_proxy, sent>>
        /\ http_pc[t] = "return" /\ mine' = [mine EXCEPT ![t] = shared]
        /\ http_pc' = [http_pc EXCEPT ![t] = "request"]
    BY <1>6 DEF Return
  <2>2. shared \in 1 .. Len(wrappers)
    BY <2>1 DEF HttpTypeOK
  <2>3. HttpTypeOK'
    BY <2>1, <2>2 DEF HttpTypeOK
  <2> QED
    BY <2>1, <2>3, SetForGood DEF HttpTypeOK, SplitRules
<1>7. ASSUME NEW t \in Threads, NEW host \in Hosts, NEW scheme \in {"http", "https"}, NEW p \in settings.payloads,
             Post(t, host, scheme, p)
      PROVE  HttpInductive'
  <2>1. /\ settings' = settings /\ UNCHANGED <<no_proxy_env, wrappers, shared, no_proxy, mine>>
        /\ http_pc[t] = "request" /\ http_pc' = [http_pc EXCEPT ![t] = "idle"]
    BY <1>7 DEF Post
  <2>2. wrappers[mine[t]] = Wrapper
    BY <2>1 DEF HttpTypeOK
  <2>3. PICK fails \in BOOLEAN :
          sent' = Append(sent, [host |-> host, scheme |-> scheme, payload |-> p,
                                proxy |-> IF Bypass(Wrapper.no_proxy, host) THEN None ELSE Wrapper[scheme],
                                encoding |-> Encoded(p, fails).encoding, body |-> Encoded(p, fails).body])
    BY <1>7, <2>2 DEF Post
  <2>4. Wrapper.no_proxy = Configured /\ Wrapper[scheme] = Proxy(scheme)
    BY DEF Wrapper
  <2>5. LET e == Encoded(p, fails)
        IN  /\ e.encoding \in {None, "zstd"} /\ e.body \in {"compressed", "plain", "as given"}
            /\ (e.encoding # None) = (e.body = "compressed")
    BY HttpAssumption DEF Encoded, Compressed
  <2>6. sent' \in Seq(RightRequests)
    <3> DEFINE r == [host |-> host, scheme |-> scheme, payload |-> p,
                     proxy |-> IF Bypass(Wrapper.no_proxy, host) THEN None ELSE Wrapper[scheme],
                     encoding |-> Encoded(p, fails).encoding, body |-> Encoded(p, fails).body]
    <3>1. r.proxy = IF Direct(r.host) THEN None ELSE Proxy(r.scheme)
      BY <2>4, BypassIsDirect
    <3>2. r \in RightRequests
      BY <2>4, <2>5, <3>1 DEF RightRequests
    <3> HIDE DEF r
    <3>3. Append(sent, r) \in Seq(RightRequests)
      BY <3>2
    <3> QED
      BY <2>3, <3>3 DEF r
  <2>7. HttpTypeOK'
    BY <2>1 DEF HttpTypeOK
  <2> QED
    BY <2>1, <2>6, <2>7, SetForGood DEF HttpTypeOK, SplitRules
<1> QED
  BY <1>1, <1>2, <1>3, <1>4, <1>5, <1>6, <1>7 DEF HttpNext

\* For any settings, environment and rules, and any threads whose requests take their steps
\* in any order: all threads have the same proxies and give what they make of the rules, a
\* request goes around the proxies exactly if a rule that was configured says so, and says
\* of its body what it is.
THEOREM HttpInvHolds == HttpSpec => []HttpInv
<1>1. HttpInductive => HttpInv
  <2> SUFFICES ASSUME HttpInductive PROVE HttpInv
    OBVIOUS
  <2>1. SameProxies
    BY DEF HttpInductive, SameProxies, Wrapper, Range
  <2>2. \A n \in DOMAIN sent : sent[n] \in RightRequests
    BY DEF HttpInductive
  <2>3. DirectAsConfigured
    <3>1. \A n \in DOMAIN sent : sent[n].proxy = IF Direct(sent[n].host) THEN None ELSE Proxy(sent[n].scheme)
      BY <2>2 DEF RightRequests
    <3>2. \A h : Direct(h) <=>
              \E rule \in Range(Configured) :
                  \/ rule = Star
                  \/ rule.form = "net" /\ h \in rule.hosts
                  \/ rule.form = "plain" /\ rule.name = h
                  \/ rule.form \in {"plain", "dotted"} /\ IsStrictPrefix(rule.name, h)
      BY DEF Direct, Range
    <3> QED
      BY <3>1, <3>2 DEF DirectAsConfigured
  <2>4. EncodingMatchesBody
    BY <2>2 DEF EncodingMatchesBody, RightRequests
  <2> QED
    BY <2>1, <2>3, <2>4 DEF HttpInductive, HttpInv
<1> QED
  BY <1>1, HttpInitially, HttpMoves, PTL DEF HttpSpec

-----------------------------------------------------------------------------
(***************************************************************************)
(* ConfigFiles.  What is collected.                                        *)
(***************************************************************************)
\* The files among fs that are in S.
LEMMA AmongThem ==
    ASSUME NEW T, NEW fs \in Seq(T), NEW S
    PROVE  /\ Among(fs, S) \in Seq(Range(fs) \cap S)
           /\ Range(Among(fs, S)) = Range(fs) \cap S
<1> DEFINE ss == [n \in DOMAIN fs |-> IF fs[n] \in S THEN <<fs[n]>> ELSE <<>>]
           both == Range(fs) \cap S
<1>1. /\ DOMAIN fs = 1 .. Len(fs) /\ Len(fs) \in Nat
      /\ \A x : x \in Range(fs) <=> \E n \in 1 .. Len(fs) : x = fs[n]
  BY DEF Range
<1>2. ASSUME NEW n \in 1 .. Len(fs)
      PROVE  /\ ss[n] \in Seq(both)
             /\ \A x : x \in Range(ss[n]) <=> x = fs[n] /\ fs[n] \in S
  <2>1. CASE fs[n] \in S
    <3>1. ss[n] = <<fs[n]>> /\ fs[n] \in both
      BY <1>1, <2>1
    <3>2. DOMAIN ss[n] = {1} /\ ss[n][1] = fs[n]
      BY <3>1
    <3>3. \A x : x \in Range(ss[n]) <=> x = fs[n]
      <4> HIDE DEF ss
      <4> QED
        BY <3>2 DEF Range
    <3>4. ss[n] \in Seq(both)
      <4> HIDE DEF ss, both
      <4> QED
        BY <3>1
    <3> HIDE DEF ss, both
    <3> QED
      BY <2>1, <3>3, <3>4
  <2>2. CASE fs[n] \notin S
    <3>1. ss[n] = <<>>
      BY <1>1, <2>2
    <3> QED
      BY <2>2, <3>1 DEF Range
  <2> QED
    BY <2>1, <2>2
<1>3. ss \in Seq(Seq(both)) /\ Len(ss) = Len(fs)
  <2>1. ss \in [1 .. Len(fs) -> Seq(both)]
    <3> HIDE DEF both
    <3> QED
      BY <1>1, <1>2
  <2> HIDE DEF ss, both
  <2> QED
    BY <1>1, <2>1
<1>4. /\ FlattenSeq(ss) \in Seq(both)
      /\ \A x : x \in Range(FlattenSeq(ss)) <=> \E n \in 1 .. Len(ss) : x \in Range(ss[n])
  <2> HIDE DEF ss, both
  <2> QED
    BY <1>3, FlattenRange
<1>5. ASSUME NEW x PROVE x \in Range(FlattenSeq(ss)) <=> x \in both
  <2>1. x \in Range(FlattenSeq(ss)) <=> \E n \in 1 .. Len(fs) : x = fs[n] /\ fs[n] \in S
    <3> HIDE DEF ss, both
    <3> QED
      BY <1>2, <1>3, <1>4
  <2> QED
    BY <1>1, <2>1
<1> QED
  BY <1>4, <1>5 DEF Among

\* A sequence with elements is not empty.
LEMMA NotEmpty == ASSUME NEW S, NEW s \in Seq(S) PROVE s # <<>> <=> Range(s) # {}
<1>1. /\ DOMAIN s = 1 .. Len(s) /\ Len(s) \in Nat /\ (s = <<>> <=> Len(s) = 0)
  OBVIOUS
<1>2. \A x : x \in Range(s) <=> \E n \in 1 .. Len(s) : x = s[n]
  BY <1>1 DEF Range
<1>3. CASE s = <<>>
  BY <1>1, <1>2, <1>3
<1>4. CASE s # <<>>
  <2>1. 1 \in 1 .. Len(s)
    BY <1>1, <1>4
  <2> QED
    BY <1>2, <1>4, <2>1
<1> QED
  BY <1>3, <1>4

\* os.walk gives every file.
LEMMA WalkHasAll ==
    ASSUME NEW walk \in Walks
    PROVE  walk \in Seq(Files) /\ Range(walk) = Files
<1> DEFINE n == Cardinality(Files)
           D == 1 .. n
<1>1. IsFiniteSet(Files) /\ n \in Nat
  BY FilesAssumption, FS_CardinalityType
<1>2. walk \in [D -> Files] /\ \A i, j \in D : i # j => walk[i] # walk[j]
  BY FilesAssumption DEF SetToSeqs
<1>3. walk \in Injection(D, Files)
  BY <1>2 DEF Injection, IsInjective
<1>4. Cardinality(D) = n
  BY <1>1, FS_Interval
<1>5. walk \in Surjection(D, Files)
  BY <1>1, <1>3, <1>4, FS_Injection
<1>6. walk \in Seq(Files) /\ DOMAIN walk = D
  BY <1>1, <1>2
<1> QED
  BY <1>5, <1>6 DEF Surjection, Range

\* The files of a check, and those whose instances it gets.
FilesOf(k, c) == {f \in Files : k[f] = "instances" /\ CheckOfFile[f] = c}

Used(k, c) == IF FilesOf(k, c) \ Defaults # {} THEN FilesOf(k, c) \ Defaults ELSE FilesOf(k, c) \cap Defaults

Wanted(k, is, c) == {x \in Files \X Nat \X (UNION {Range(is[f]) : f \in Files}) :
                        \E f \in Used(k, c) : \E n \in 1 .. Len(is[f]) : x = <<f, n, is[f][n]>>}

\* What a configuration may be.
AnyInstance == UNION {Range(is) : is \in Contents}
AnyConfig == Files \X Nat \X AnyInstance

DiskTypeOK ==
    /\ kind \in [Files -> Others \cup {"instances"}]
    /\ instances \in [Files -> Contents \cup {<<>>}]
    /\ \A f \in Files : MayBe(f, kind[f], instances[f])

\* What a file says is a list of instances, empty when it is no file with instances.
LEMMA FileSays ==
    ASSUME DiskTypeOK, NEW f \in Files
    PROVE  /\ instances[f] \in Seq(AnyInstance) /\ Len(instances[f]) \in Nat
           /\ \A n \in 1 .. Len(instances[f]) : instances[f][n] \in Range(instances[f]) /\ instances[f][n] \in AnyInstance
           /\ kind[f] # "instances" => instances[f] = <<>>
           /\ Flat(f) \in Seq(AnyConfig)
           /\ \A x : x \in Range(Flat(f)) <=> \E n \in 1 .. Len(instances[f]) : x = <<f, n, instances[f][n]>>
<1>1. instances[f] \in Seq(AnyInstance) /\ Range(instances[f]) \subseteq AnyInstance
  <2>1. CASE instances[f] = <<>>
    <3>1. <<>> \in Seq(AnyInstance) /\ Range(<<>>) = {}
      BY DEF Range
    <3> QED
      BY <2>1, <3>1
  <2>2. CASE instances[f] \in Contents
    <3>1. instances[f] \in Seq(Range(instances[f])) /\ Range(instances[f]) \subseteq AnyInstance
      BY <2>2, FilesAssumption DEF AnyInstance
    <3> QED
      BY <3>1
  <2> QED
    BY <2>1, <2>2 DEF DiskTypeOK
<1>2. /\ Len(instances[f]) \in Nat
      /\ \A n \in 1 .. Len(instances[f]) : instances[f][n] \in Range(instances[f])
  BY <1>1 DEF Range
<1>3. kind[f] # "instances" => instances[f] = <<>>
  BY DEF DiskTypeOK, MayBe
<1>4. \A n \in 1 .. Len(instances[f]) : <<f, n, instances[f][n]>> \in AnyConfig
  BY <1>1, <1>2 DEF AnyConfig
<1>5. Flat(f) \in Seq(AnyConfig)
  BY <1>2, <1>4 DEF Flat
<1>6. \A x : x \in Range(Flat(f)) <=> \E n \in 1 .. Len(instances[f]) : x = <<f, n, instances[f][n]>>
  BY <1>2 DEF Flat, Range
<1> QED
  BY <1>1, <1>2, <1>3, <1>5, <1>6

\* The configurations of some files are those of each.
LEMMA FlatOfAll ==
    ASSUME DiskTypeOK, NEW fs \in Seq(Files)
    PROVE  /\ FlatOf(fs) \in Seq(AnyConfig)
           /\ \A x : x \in Range(FlatOf(fs)) <=> \E f \in Range(fs) : \E n \in 1 .. Len(instances[f]) : x = <<f, n, instances[f][n]>>
<1> DEFINE ss == [i \in DOMAIN fs |-> Flat(fs[i])]
<1>1. /\ DOMAIN fs = 1 .. Len(fs) /\ Len(fs) \in Nat
      /\ \A x : x \in Range(fs) <=> \E i \in 1 .. Len(fs) : x = fs[i]
      /\ \A i \in 1 .. Len(fs) : fs[i] \in Files
  BY DEF Range
<1>2. \A i \in 1 .. Len(fs) : ss[i] = Flat(fs[i]) /\ ss[i] \in Seq(AnyConfig)
  BY <1>1, FileSays
<1>3. ss \in Seq(Seq(AnyConfig)) /\ Len(ss) = Len(fs)
  <2>1. ss \in [1 .. Len(fs) -> Seq(AnyConfig)]
    BY <1>1, <1>2
  <2> HIDE DEF ss
  <2> QED
    BY <1>1, <2>1
<1>4. /\ FlattenSeq(ss) \in Seq(AnyConfig)
      /\ \A x : x \in Range(FlattenSeq(ss)) <=> \E i \in 1 .. Len(ss) : x \in Range(ss[i])
  <2> HIDE DEF ss
  <2> QED
    BY <1>3, FlattenRange
<1>5. ASSUME NEW x
      PROVE  x \in Range(FlattenSeq(ss)) <=> \E f \in Range(fs) : \E n \in 1 .. Len(instances[f]) : x = <<f, n, instances[f][n]>>
  <2>1. x \in Range(FlattenSeq(ss)) <=> \E i \in 1 .. Len(fs) : x \in Range(Flat(fs[i]))
    <3> HIDE DEF ss
    <3> QED
      BY <1>2, <1>3, <1>4
  <2>2. \A i \in 1 .. Len(fs) :
            x \in Range(Flat(fs[i])) <=> \E n \in 1 .. Len(instances[fs[i]]) : x = <<fs[i], n, instances[fs[i]][n]>>
    BY <1>1, FileSays
  <2> QED
    BY <1>1, <2>1, <2>2
<1> QED
  BY <1>4, <1>5 DEF FlatOf

\* The files that are opened, and those that are valid for a check.
LEMMA OpenedFiles ==
    ASSUME NEW walk \in Walks, NEW c
    PROVE  /\ Opened(walk) \in Seq(Files)
           /\ Range(Opened(walk)) = {f \in Files : kind[f] # "gone" /\ CheckOfFile[f] # None}
           /\ Valid(walk, c) \in Seq(Files)
           /\ c # None => Range(Valid(walk, c)) = FilesOf(kind, c)
<1> DEFINE O == {f \in Files : kind[f] # "gone" /\ CheckOfFile[f] # None}
<1>1. walk \in Seq(Files) /\ Range(walk) = Files
  BY WalkHasAll
<1>2. Among(walk, O) \in Seq(Files \cap O) /\ Range(Among(walk, O)) = Files \cap O
  <2> HIDE DEF O
  <2> QED
    BY <1>1, AmongThem
<1>3. Opened(walk) \in Seq(Files) /\ Range(Opened(walk)) = O
  <2>1. Files \cap O = O
    OBVIOUS
  <2>2. Opened(walk) = Among(walk, O)
    BY DEF Opened
  <2> HIDE DEF O
  <2>3. Opened(walk) \in Seq(Files \cap O) /\ Range(Opened(walk)) = O
    BY <1>2, <2>1, <2>2
  <2> QED
    BY <2>3
<1>4. Valid(walk, c) = Among(Opened(walk), FilesOf(kind, c))
  BY DEF Valid, FilesOf
<1>5. /\ Valid(walk, c) \in Seq(O \cap FilesOf(kind, c))
      /\ Range(Valid(walk, c)) = O \cap FilesOf(kind, c)
  <2> HIDE DEF O
  <2> QED
    BY <1>3, <1>4, AmongThem
<1>6. Valid(walk, c) \in Seq(Files)
  <2>1. FilesOf(kind, c) \subseteq Files
    BY DEF FilesOf
  <2> HIDE DEF O
  <2> QED
    BY <1>5, <2>1
<1>7. c # None => O \cap FilesOf(kind, c) = FilesOf(kind, c)
  BY DEF FilesOf
<1> QED
  BY <1>3, <1>5, <1>6, <1>7

\* What is collected for a check, in any order of the files.
LEMMA CollectedIsWanted ==
    ASSUME DiskTypeOK, NEW walk \in Walks, NEW c \in CheckNames
    PROVE  /\ Collected(walk, c) \in Seq(AnyConfig)
           /\ Range(Collected(walk, c)) = Wanted(kind, instances, c)
<1> DEFINE valid == Valid(walk, c)
           user == Among(valid, Files \ Defaults)
           default == Among(valid, Defaults)
<1>1. c # None
  BY DEF CheckNames
<1>2. valid \in Seq(Files) /\ Range(valid) = FilesOf(kind, c) /\ FilesOf(kind, c) \subseteq Files
  BY <1>1, OpenedFiles DEF FilesOf
<1>3. /\ user \in Seq(Files) /\ Range(user) = FilesOf(kind, c) \ Defaults
      /\ default \in Seq(Files) /\ Range(default) = FilesOf(kind, c) \cap Defaults
  <2> HIDE DEF valid
  <2>1. /\ user \in Seq(Range(valid) \cap (Files \ Defaults)) /\ Range(user) = Range(valid) \cap (Files \ Defaults)
        /\ default \in Seq(Range(valid) \cap Defaults) /\ Range(default) = Range(valid) \cap Defaults
    BY <1>2, AmongThem
  <2>2. Range(valid) \cap (Files \ Defaults) = FilesOf(kind, c) \ Defaults
    BY <1>2
  <2> HIDE DEF user, default
  <2>3. Range(valid) \cap (Files \ Defaults) \subseteq Files /\ Range(valid) \cap Defaults \subseteq Files
    BY <1>2
  <2> QED
    BY <1>2, <2>1, <2>2, <2>3
<1> DEFINE used == UserFirst(user, default)
<1>4. used \in Seq(Files) /\ Range(used) = Used(kind, c)
  <2>1. user # <<>> <=> FilesOf(kind, c) \ Defaults # {}
    BY <1>3, NotEmpty
  <2> QED
    BY <1>3, <2>1 DEF UserFirst, Used
<1>5. Collected(walk, c) = FlatOf(used)
  BY DEF Collected
<1> HIDE DEF used
<1>6. /\ Collected(walk, c) \in Seq(AnyConfig)
      /\ \A x : x \in Range(Collected(walk, c))
                  <=> \E f \in Used(kind, c) : \E n \in 1 .. Len(instances[f]) : x = <<f, n, instances[f][n]>>
  BY <1>4, <1>5, FlatOfAll
<1>7. ASSUME NEW f \in Used(kind, c), NEW n \in 1 .. Len(instances[f])
      PROVE  <<f, n, instances[f][n]>> \in Files \X Nat \X (UNION {Range(instances[g]) : g \in Files})
  <2>1. f \in Files
    BY DEF Used, FilesOf
  <2> QED
    BY <2>1, FileSays
<1>8. ASSUME NEW x PROVE x \in Range(Collected(walk, c)) <=> x \in Wanted(kind, instances, c)
  BY <1>6, <1>7 DEF Wanted
<1> QED
  BY <1>6, <1>8

\* What is added: what is new, and nothing when nothing is.
LEMMA AddsWhatIsNew ==
    ASSUME NEW S, NEW current \in Seq(S), NEW new \in Seq(S)
    PROVE  /\ AddNew(current, new) \in Seq(S)
           /\ Range(AddNew(current, new)) = Range(current) \cup Range(new)
           /\ Range(new) \subseteq Range(current) => AddNew(current, new) = current
<1> DEFINE Before(n) == Range(current) \cup {new[m] : m \in 1 .. (n - 1)}
           ss == [n \in DOMAIN new |-> IF new[n] \in Before(n) THEN <<>> ELSE <<new[n]>>]
<1>1. /\ DOMAIN new = 1 .. Len(new) /\ Len(new) \in Nat
      /\ \A x : x \in Range(new) <=> \E n \in 1 .. Len(new) : x = new[n]
      /\ \A n \in 1 .. Len(new) : new[n] \in S
  BY DEF Range
<1>2. ASSUME NEW n \in 1 .. Len(new)
      PROVE  /\ ss[n] \in Seq(S)
             /\ \A x : x \in Range(ss[n]) <=> x = new[n] /\ new[n] \notin Before(n)
             /\ new[n] \in Before(n) => ss[n] = <<>>
  <2>1. CASE new[n] \in Before(n)
    <3>1. ss[n] = <<>>
      BY <1>1, <2>1
    <3> HIDE DEF ss, Before
    <3>2. Range(ss[n]) = {}
      BY <3>1 DEF Range
    <3> QED
      BY <2>1, <3>1, <3>2
  <2>2. CASE new[n] \notin Before(n)
    <3>1. ss[n] = <<new[n]>>
      BY <1>1, <2>2
    <3> HIDE DEF ss, Before
    <3>2. DOMAIN ss[n] = {1} /\ ss[n][1] = new[n]
      BY <3>1
    <3>3. \A x : x \in Range(ss[n]) <=> x = new[n]
      BY <3>2 DEF Range
    <3>4. ss[n] \in Seq(S)
      BY <1>1, <3>1
    <3> QED
      BY <2>2, <3>3, <3>4
  <2> QED
    BY <2>1, <2>2
<1>3. ss \in Seq(Seq(S)) /\ Len(ss) = Len(new)
  <2>1. ss \in [1 .. Len(new) -> Seq(S)]
    <3>1. \A n \in 1 .. Len(new) : (IF new[n] \in Before(n) THEN <<>> ELSE <<new[n]>>) \in Seq(S)
      <4> HIDE DEF Before
      <4> QED
        BY <1>1
    <3> HIDE DEF Before
    <3> QED
      BY <1>1, <3>1
  <2> HIDE DEF ss
  <2> QED
    BY <1>1, <2>1
<1> DEFINE added == FlattenSeq(ss)
<1>4. /\ added \in Seq(S)
      /\ \A x : x \in Range(added) <=> \E n \in 1 .. Len(new) : x = new[n] /\ new[n] \notin Before(n)
  <2>1. /\ FlattenSeq(ss) \in Seq(S)
        /\ \A x : x \in Range(FlattenSeq(ss)) <=> \E n \in 1 .. Len(ss) : x \in Range(ss[n])
    <3> HIDE DEF ss
    <3> QED
      BY <1>3, FlattenRange
  <2> HIDE DEF ss, Before
  <2> QED
    BY <1>2, <1>3, <2>1
<1>5. AddNew(current, new) = current \o added
  BY DEF AddNew
\* Of the places of a configuration the first is the one that counts.
<1>6. ASSUME NEW x \in Range(new), x \notin Range(current) PROVE x \in Range(added)
  <2> DEFINE P == {n \in 1 .. Len(new) : x = new[n]}
  <2>1. P \subseteq Nat /\ P # {}
    BY <1>1
  <2>2. PICK n \in P : \A m \in P : n <= m
    <3> HIDE DEF P
    <3> QED
      BY <2>1, Least
  <2>3. n \in 1 .. Len(new) /\ x = new[n] /\ \A m \in 1 .. (n - 1) : m \in 1 .. Len(new) /\ ~(n <= m)
    BY <1>1, <2>2
  <2>4. \A m \in 1 .. (n - 1) : x # new[m]
    BY <2>2, <2>3
  <2>5. new[n] \notin Before(n)
    BY <1>6, <2>3, <2>4
  <2> HIDE DEF added, Before, P
  <2> QED
    BY <1>4, <2>3, <2>5
<1>7. Range(added) \subseteq Range(new)
  <2> HIDE DEF added, Before
  <2> QED
    BY <1>1, <1>4
<1>8. current \o added \in Seq(S) /\ Range(current \o added) = Range(current) \cup Range(added)
  <2> HIDE DEF added
  <2> QED
    BY <1>4, RangeConcatenation
<1>9. ASSUME Range(new) \subseteq Range(current) PROVE current \o added = current
  <2>1. \A n \in 1 .. Len(new) : new[n] \in Before(n)
    BY <1>1, <1>9
  <2>2. Range(added) = {}
    <3> HIDE DEF added, Before
    <3> QED
      BY <1>4, <2>1
  <2>3. added = <<>>
    <3> HIDE DEF added
    <3> QED
      BY <1>4, <2>2, NotEmpty
  <2>4. current \o <<>> = current
    OBVIOUS
  <2> HIDE DEF added
  <2> QED
    BY <2>3, <2>4
<1> HIDE DEF added, ss, Before
<1> QED
  BY <1>5, <1>6, <1>7, <1>8, <1>9

-----------------------------------------------------------------------------
(***************************************************************************)
(* ConfigFiles.  The inductive invariant.                                  *)
(***************************************************************************)
\* What was read last was added, in whatever order it was.
FilesInductive ==
    /\ DiskTypeOK /\ edits \in Nat
    /\ check_configs \in [CheckNames -> Seq(AnyConfig)]
    /\ \A k, is : read = <<k, is>> => \A c \in CheckNames : Wanted(k, is, c) \subseteq Range(check_configs[c])
    /\ read = <<>> => \A c \in CheckNames : check_configs[c] = <<>>

\* It holds before the first call.
LEMMA FilesInitially == FilesInit => FilesInductive
<1> SUFFICES ASSUME FilesInit PROVE FilesInductive
  OBVIOUS
<1>1. DiskTypeOK /\ edits \in Nat /\ read = <<>>
  BY DEF FilesInit, DiskTypeOK
<1>2. \A c \in CheckNames : check_configs[c] = <<>>
  BY DEF FilesInit
<1>3. check_configs \in [CheckNames -> Seq(AnyConfig)]
  BY DEF FilesInit
<1>4. \A k, is : read # <<k, is>>
  BY <1>1
<1> QED
  BY <1>1, <1>2, <1>3, <1>4 DEF FilesInductive

\* A change of a file leaves what was collected.
LEMMA EditLeaves ==
    ASSUME FilesInductive, NEW f \in Files, NEW k \in Others \cup {"instances"}, NEW is \in Contents \cup {<<>>}, Edit(f, k, is)
    PROVE  FilesInductive' /\ edits' # edits /\ read' = read
<1>1. edits' = edits + 1 /\ UNCHANGED <<check_configs, config_errors, read>> /\ edits \in Nat
  BY DEF Edit, FilesInductive
<1>2. DiskTypeOK'
  BY DEF Edit, FilesInductive, DiskTypeOK, MayBe
<1> QED
  BY <1>1, <1>2 DEF FilesInductive

\* What a call adds.
LEMMA CollectAdds ==
    ASSUME FilesInductive, NEW walk \in Walks, Collect(walk), ~Raises(walk)
    PROVE  /\ FilesInductive' /\ read' = onDisk
           /\ \A c \in CheckNames :
                 /\ check_configs'[c] = AddNew(check_configs[c], Collected(walk, c))
                 /\ Range(check_configs'[c]) = Range(check_configs[c]) \cup Wanted(kind, instances, c)
                 /\ Wanted(kind, instances, c) \subseteq Range(check_configs[c]) => check_configs'[c] = check_configs[c]
<1>1. /\ read' = <<kind, instances>> /\ UNCHANGED <<kind, instances, edits>>
      /\ check_configs' = [c \in CheckNames |-> AddNew(check_configs[c], Collected(walk, c))]
  BY DEF Collect, onDisk
<1>2. DiskTypeOK /\ edits \in Nat /\ check_configs \in [CheckNames -> Seq(AnyConfig)]
  BY DEF FilesInductive
<1>3. ASSUME NEW c \in CheckNames
      PROVE  /\ check_configs'[c] = AddNew(check_configs[c], Collected(walk, c))
             /\ check_configs'[c] \in Seq(AnyConfig)
             /\ Range(check_configs'[c]) = Range(check_configs[c]) \cup Wanted(kind, instances, c)
             /\ Wanted(kind, instances, c) \subseteq Range(check_configs[c]) => check_configs'[c] = check_configs[c]
  <2>1. check_configs'[c] = AddNew(check_configs[c], Collected(walk, c)) /\ check_configs[c] \in Seq(AnyConfig)
    BY <1>1, <1>2
  <2>2. Collected(walk, c) \in Seq(AnyConfig) /\ Range(Collected(walk, c)) = Wanted(kind, instances, c)
    BY <1>2, CollectedIsWanted
  <2> QED
    BY <2>1, <2>2, AddsWhatIsNew
<1>4. check_configs' \in [CheckNames -> Seq(AnyConfig)]
  BY <1>1, <1>3
<1>5. DiskTypeOK' /\ edits' \in Nat
  BY <1>1, <1>2 DEF DiskTypeOK, MayBe
<1>6. ASSUME NEW k, NEW is, read' = <<k, is>> PROVE \A c \in CheckNames : Wanted(k, is, c) \subseteq Range(check_configs'[c])
  <2>1. k = kind /\ is = instances
    BY <1>1, <1>6
  <2> QED
    BY <1>3, <2>1
<1>7. read' # <<>>
  BY <1>1
<1> QED
  BY <1>1, <1>3, <1>4, <1>5, <1>6, <1>7 DEF FilesInductive, onDisk

\* Without an unreadable file all that were opened are looked at.
LEMMA ErrorsOfAll ==
    ASSUME DiskTypeOK, NEW walk \in Walks, ~Raises(walk)
    PROVE  Faulty(BeforeUnreadable(walk))
             = {f \in Files : CheckOfFile[f] # None /\ kind[f] \in {"no YAML", "no instances"}}
<1> DEFINE opened == Opened(walk)
           bad == {n \in 1 .. Len(opened) : kind[opened[n]] = "unreadable"}
<1>1. opened \in Seq(Files) /\ Range(opened) = {f \in Files : kind[f] # "gone" /\ CheckOfFile[f] # None}
  BY OpenedFiles
<1>2. \A n \in 1 .. Len(opened) : opened[n] \in Range(opened)
  BY <1>1 DEF Range
<1>3. bad = {}
  BY <1>2 DEF Raises
<1>4. BeforeUnreadable(walk) = SubSeq(opened, 1, Len(opened))
  <2>1. BeforeUnreadable(walk) = SubSeq(opened, 1, IF bad = {} THEN Len(opened) ELSE (CHOOSE n \in bad : \A m \in bad : n <= m) - 1)
    BY DEF BeforeUnreadable
  <2> HIDE DEF bad, opened
  <2> QED
    BY <1>3, <2>1
<1>5. BeforeUnreadable(walk) = opened
  <2> HIDE DEF opened
  <2> QED
    BY <1>1, <1>4, SubSeqFull
<1> HIDE DEF opened
<1> QED
  BY <1>1, <1>5 DEF Faulty

\* Every step keeps the invariant, and adds to what is there what the next theorem says.
LEMMA FilesMove ==
    ASSUME FilesInductive, [FilesNext]_filesVars
    PROVE  /\ FilesInductive'
           /\ edits' = edits /\ read = onDisk => check_configs' = check_configs
           /\ read = <<>> /\ read' # <<>> =>
                 \A c \in CheckNames : Range(check_configs'[c]) = Wanted(kind, instances, c)
           /\ read' # read =>
                 config_errors' = {f \in Files : CheckOfFile[f] # None /\ kind[f] \in {"no YAML", "no instances"}}
<1>1. CASE UNCHANGED filesVars
  <2>1. UNCHANGED <<kind, instances, check_configs, config_errors, read, edits>>
    BY <1>1 DEF filesVars
  <2>2. DiskTypeOK'
    BY <2>1 DEF FilesInductive, DiskTypeOK, MayBe
  <2> QED
    BY <2>1, <2>2 DEF FilesInductive
<1>2. ASSUME NEW f \in Files, NEW k \in Others \cup {"instances"}, NEW is \in Contents \cup {<<>>}, Edit(f, k, is)
      PROVE  FilesInductive' /\ edits' # edits /\ read' = read
  BY <1>2, EditLeaves
<1>3. ASSUME NEW walk \in Walks, Collect(walk), Raises(walk)
      PROVE  FilesInductive' /\ check_configs' = check_configs /\ read' = read
  <2>1. UNCHANGED <<kind, instances, check_configs, read, edits>>
    BY <1>3 DEF Collect, onDisk
  <2>2. DiskTypeOK'
    BY <2>1 DEF FilesInductive, DiskTypeOK, MayBe
  <2> QED
    BY <2>1, <2>2 DEF FilesInductive
<1>4. ASSUME NEW walk \in Walks, Collect(walk), ~Raises(walk)
      PROVE  /\ FilesInductive'
             /\ read = onDisk => check_configs' = check_configs
             /\ read = <<>> => \A c \in CheckNames : Range(check_configs'[c]) = Wanted(kind, instances, c)
             /\ config_errors' = {f \in Files : CheckOfFile[f] # None /\ kind[f] \in {"no YAML", "no instances"}}
  <2>1. /\ FilesInductive'
        /\ \A c \in CheckNames :
              /\ Range(check_configs'[c]) = Range(check_configs[c]) \cup Wanted(kind, instances, c)
              /\ Wanted(kind, instances, c) \subseteq Range(check_configs[c]) => check_configs'[c] = check_configs[c]
    BY <1>4, CollectAdds
  <2>2. ASSUME read = onDisk PROVE check_configs' = check_configs
    <3>1. \A c \in CheckNames : Wanted(kind, instances, c) \subseteq Range(check_configs[c])
      BY <2>2 DEF onDisk, FilesInductive
    <3>2. \A c \in CheckNames : check_configs'[c] = check_configs[c]
      BY <2>1, <3>1
    <3> QED
      BY <2>1, <3>2 DEF FilesInductive
  <2>3. ASSUME read = <<>> PROVE \A c \in CheckNames : Range(check_configs'[c]) = Wanted(kind, instances, c)
    <3>1. \A c \in CheckNames : check_configs[c] = <<>>
      BY <2>3 DEF FilesInductive
    <3>2. Range(<<>>) = {}
      BY DEF Range
    <3> QED
      BY <2>1, <3>1, <3>2
  <2>4. config_errors' = Faulty(BeforeUnreadable(walk))
    BY <1>4 DEF Collect
  <2>5. DiskTypeOK
    BY DEF FilesInductive
  <2> QED
    BY <1>4, <2>1, <2>2, <2>3, <2>4, <2>5, ErrorsOfAll
<1> QED
  BY <1>1, <1>2, <1>3, <1>4 DEF FilesNext

\* Of a default with an instance it is wanted if no file of the user's is.
LEMMA DefaultWanted ==
    ASSUME DiskTypeOK, NEW c \in CheckNames, NEW f \in Defaults, CheckOfFile[f] = c, instances[f] # <<>>
    PROVE  (\E config \in Wanted(kind, instances, c) : config[1] = f)
             <=> {g \in Files \ Defaults : CheckOfFile[g] = c /\ kind[g] = "instances"} = {}
<1> DEFINE user == {g \in Files \ Defaults : CheckOfFile[g] = c /\ kind[g] = "instances"}
<1>1. f \in Files /\ kind[f] = "instances" /\ f \in FilesOf(kind, c)
  <2>1. f \in Files
    BY FilesAssumption
  <2> QED
    BY <2>1, FileSays DEF FilesOf
<1>2. user = FilesOf(kind, c) \ Defaults
  BY DEF FilesOf
<1>3. \A config \in Wanted(kind, instances, c) : config[1] \in Used(kind, c)
  BY DEF Wanted
<1>4. ASSUME user = {} PROVE \E config \in Wanted(kind, instances, c) : config[1] = f
  <2>1. f \in Used(kind, c)
    BY <1>1, <1>2, <1>4 DEF Used
  <2>2. 1 \in 1 .. Len(instances[f]) /\ instances[f][1] \in Range(instances[f])
    BY <1>1, FileSays
  <2>3. <<f, 1, instances[f][1]>> \in Wanted(kind, instances, c)
    BY <1>1, <2>1, <2>2 DEF Wanted
  <2> QED
    BY <2>3
<1>5. ASSUME user # {} PROVE f \notin Used(kind, c)
  BY <1>2, <1>5 DEF Used
<1> HIDE DEF user
<1>6. (\E config \in Wanted(kind, instances, c) : config[1] = f) <=> user = {}
  BY <1>3, <1>4, <1>5
<1> QED
  BY <1>6 DEF user

\* For any files, contents and orders of os.walk: a second call with the same files, in any
\* order, adds nothing; a default counts unless the user has a valid file; and the errors
\* shown are those of the files of the last call.
THEOREM CollectsWhatIsNewHolds == FilesSpec => CollectsWhatIsNew
<1>1. ASSUME FilesInductive, [FilesNext]_filesVars
      PROVE  /\ FilesInductive'
             /\ edits' = edits /\ read = onDisk => check_configs' = check_configs
             /\ read' # read =>
                   config_errors' = {f \in Files : CheckOfFile[f] # None /\ kind[f] \in {"no YAML", "no instances"}}
  BY <1>1, FilesMove
<1>2. ASSUME FilesInductive, [FilesNext]_filesVars, read = <<>>, read' # <<>>
      PROVE  \A c \in CheckNames :
                LET user == {f \in Files \ Defaults : CheckOfFile[f] = c /\ kind[f] = "instances"}
                IN  \A f \in {f \in Defaults : CheckOfFile[f] = c /\ instances[f] # <<>>} :
                        (\E config \in Range(check_configs'[c]) : config[1] = f) = (user = {})
  <2>1. \A c \in CheckNames : Range(check_configs'[c]) = Wanted(kind, instances, c)
    BY <1>2, FilesMove
  <2>2. DiskTypeOK
    BY <1>2 DEF FilesInductive
  <2>3. ASSUME NEW c \in CheckNames, NEW f \in Defaults, CheckOfFile[f] = c, instances[f] # <<>>
        PROVE  (\E config \in Range(check_configs'[c]) : config[1] = f)
                 = ({g \in Files \ Defaults : CheckOfFile[g] = c /\ kind[g] = "instances"} = {})
    <3> DEFINE shown == \E config \in Range(check_configs'[c]) : config[1] = f
               none == {g \in Files \ Defaults : CheckOfFile[g] = c /\ kind[g] = "instances"} = {}
    <3>1. shown <=> none
      BY <2>1, <2>2, <2>3, DefaultWanted
    <3>2. shown \in BOOLEAN /\ none \in BOOLEAN
      OBVIOUS
    <3>3. shown = none
      <4> HIDE DEF shown, none
      <4> QED
        BY <3>1, <3>2
    <3> QED
      BY <3>3, Zenon
  <2> QED
    BY <2>3
<1> QED
  BY <1>1, <1>2, FilesInitially, PTL
     DEF FilesSpec, CollectsWhatIsNew, AgainNothingNew, MissingDefaultsOnly, ErrorsOfLastCall

-----------------------------------------------------------------------------
(***************************************************************************)
(* Dogstatsd.  Prefixes, and what is flattened of the first of a sequence  *)
(* of sequences.                                                           *)
(***************************************************************************)
LEMMA PrefixOf ==
    ASSUME NEW S, NEW s \in Seq(S), NEW t \in Seq(S)
    PROVE  IsPrefix(s, t) <=> Len(s) <= Len(t) /\ \A i \in 1 .. Len(s) : s[i] = t[i]
<1>1. Len(s) \in Nat /\ Len(t) \in Nat /\ SubSeq(s, 1, Len(s)) = s
  BY SubSeqFull
<1>2. CASE Len(s) <= Len(t)
  <2> DEFINE u == SubSeq(t, 1, Len(s))
  <2>1. u \in Seq(S) /\ Len(u) = Len(s) /\ \A i \in 1 .. Len(s) : u[i] = t[i]
    <3>1. \A i \in 1 .. Len(s) : t[i] \in S
      BY <1>1, <1>2
    <3> QED
      BY <1>1, <3>1, SubSeqProperties
  <2>2. s = u <=> \A i \in 1 .. Len(s) : s[i] = u[i]
    <3> HIDE DEF u
    <3> QED
      BY <2>1, SeqEqual
  <2> QED
    BY <1>1, <1>2, <2>1, <2>2 DEF IsPrefix
<1> QED
  BY <1>2 DEF IsPrefix

LEMMA PrefixOfConcat ==
    ASSUME NEW S, NEW s \in Seq(S), NEW t \in Seq(S), NEW u \in Seq(S)
    PROVE  /\ IsPrefix(s, s) /\ IsPrefix(<<>>, s)
           /\ IsPrefix(s \o t, u) => IsPrefix(s, u)
           /\ IsPrefix(u, s) => IsPrefix(u, s \o t)
           /\ IsPrefix(s \o t, u) /\ t # <<>> => u[Len(s) + 1] = Head(t)
<1>1. /\ s \o t \in Seq(S) /\ Len(s \o t) = Len(s) + Len(t)
      /\ \A i \in 1 .. Len(s) + Len(t) : (s \o t)[i] = IF i <= Len(s) THEN s[i] ELSE t[i - Len(s)]
  BY ConcatProperties
<1>2. Len(s) \in Nat /\ Len(t) \in Nat /\ Len(u) \in Nat
  OBVIOUS
<1> DEFINE v == s \o t
<1>3. v \in Seq(S) /\ Len(v) = Len(s) + Len(t) /\ \A i \in 1 .. Len(s) : v[i] = s[i]
  BY <1>1, <1>2
<1>4. t # <<>> => Len(t) > 0 /\ v[Len(s) + 1] = Head(t)
  <2> HAVE t # <<>>
  <2>1. Len(t) > 0 /\ Head(t) = t[1]
    BY EmptySeq
  <2> QED
    BY <1>1, <1>2, <2>1
<1> HIDE DEF v
<1>5. IsPrefix(s, s) /\ IsPrefix(<<>>, s)
  <2>1. <<>> \in Seq(S) /\ Len(<<>>) = 0
    OBVIOUS
  <2>2. IsPrefix(<<>>, s)
    <3>1. SubSeq(<<>>, 1, 0) = <<>> /\ SubSeq(s, 1, 0) = <<>>
      BY SubSeqEmpty
    <3> QED
      BY <1>2, <2>1, <3>1 DEF IsPrefix
  <2>3. IsPrefix(s, s) <=> Len(s) <= Len(s) /\ \A i \in 1 .. Len(s) : s[i] = s[i]
    BY PrefixOf
  <2> QED
    BY <1>2, <2>1, <2>2, <2>3
<1>6. IsPrefix(v, u) => IsPrefix(s, u)
  <2>1. IsPrefix(s, u) <=> Len(s) <= Len(u) /\ \A i \in 1 .. Len(s) : s[i] = u[i]
    BY PrefixOf
  <2>2. IsPrefix(v, u) <=> Len(v) <= Len(u) /\ \A i \in 1 .. Len(v) : v[i] = u[i]
    BY <1>3, PrefixOf
  <2> QED
    BY <1>2, <1>3, <2>1, <2>2
<1>7. IsPrefix(u, s) => IsPrefix(u, v)
  <2>1. IsPrefix(u, s) <=> Len(u) <= Len(s) /\ \A i \in 1 .. Len(u) : u[i] = s[i]
    BY PrefixOf
  <2>2. IsPrefix(u, v) <=> Len(u) <= Len(v) /\ \A i \in 1 .. Len(u) : u[i] = v[i]
    BY <1>3, PrefixOf
  <2> QED
    BY <1>2, <1>3, <2>1, <2>2
<1>8. IsPrefix(v, u) /\ t # <<>> => u[Len(s) + 1] = Head(t)
  BY <1>2, <1>3, <1>4, PrefixOf
<1> QED
  BY <1>5, <1>6, <1>7, <1>8 DEF v

\* The first k of a sequence of sequences, flattened.
Firsts(ss, k) == FlattenSeq(SubSeq(ss, 1, k))

LEMMA FirstsStep ==
    ASSUME NEW S, NEW ss \in Seq(Seq(S)), NEW k \in 1 .. Len(ss)
    PROVE  /\ Firsts(ss, k) = Firsts(ss, k - 1) \o ss[k]
           /\ Firsts(ss, k) \in Seq(S) /\ Firsts(ss, k - 1) \in Seq(S) /\ ss[k] \in Seq(S)
<1> DEFINE t == SubSeq(ss, 1, k)
           u == SubSeq(ss, 1, k - 1)
<1>1. Len(ss) \in Nat /\ k \in Nat /\ \A i \in 1 .. Len(ss) : ss[i] \in Seq(S)
  BY ElementOfSeq
<1>2. t \in Seq(Seq(S)) /\ Len(t) = k /\ \A i \in 1 .. k : t[i] = ss[i]
  BY <1>1, SubSeqProperties
<1>3. u \in Seq(Seq(S)) /\ Len(u) = k - 1 /\ \A i \in 1 .. k - 1 : u[i] = ss[i]
  BY <1>1, SubSeqProperties
<1> HIDE DEF t, u
<1>4. PICK f : /\ \A i \in 1 .. Len(t) : f[i] = IF i = 1 THEN t[i] ELSE f[i - 1] \o t[i]
               /\ FlattenSeq(t) = IF Len(t) = 0 THEN t ELSE f[Len(t)]
  BY <1>1, <1>2, FlattenPartial
<1>5. PICK g : /\ \A i \in 1 .. Len(u) : g[i] = IF i = 1 THEN u[i] ELSE g[i - 1] \o u[i]
               /\ FlattenSeq(u) = IF Len(u) = 0 THEN u ELSE g[Len(u)]
  <2>1. Len(u) \in Nat
    BY <1>1, <1>3
  <2> QED
    BY <2>1, FlattenPartial
<1> DEFINE G == {i \in 0 .. k - 1 : i # 0 => f[i] = g[i]}
<1>6. k - 1 \in Nat /\ 0 \in G
  BY <1>1
<1>7. ASSUME NEW i \in 1 .. k - 1, i - 1 \in G PROVE i \in G
  <2>1. i \in 1 .. k /\ i \in 1 .. Len(t) /\ i \in 1 .. Len(u) /\ t[i] = u[i]
    <3>1. i \in 1 .. k
      BY <1>1
    <3>2. t[i] = ss[i] /\ u[i] = ss[i] /\ i \in 1 .. Len(t) /\ i \in 1 .. Len(u)
      BY <1>2, <1>3, <3>1
    <3> QED
      BY <3>1, <3>2
  <2>2. i # 1 => f[i - 1] = g[i - 1]
    <3>1. i - 1 # 0 => f[i - 1] = g[i - 1]
      BY <1>7
    <3> QED
      BY <3>1
  <2> QED
    BY <1>4, <1>5, <2>1, <2>2
<1>8. \A i \in 0 .. k - 1 : i \in G
  <2> HIDE DEF G
  <2> QED
    BY <1>6, <1>7, Upwards
<1>9. FlattenSeq(t) \in Seq(S) /\ FlattenSeq(u) \in Seq(S)
  BY <1>2, <1>3, FlattenRange
<1>10. FlattenSeq(t) = FlattenSeq(u) \o ss[k]
  <2>1. CASE k = 1
    <3>1. FlattenSeq(t) = ss[1] /\ FlattenSeq(u) = <<>>
      BY <1>1, <1>2, <1>3, <1>4, <1>5, <2>1
    <3> QED
      BY <1>1, <2>1, <3>1, ConcatEmptySeq
  <2>2. CASE k # 1
    <3>1. f[k] = f[k - 1] \o ss[k]
      <4>1. k \in 1 .. Len(t) /\ t[k] = ss[k]
        <5>1. k \in 1 .. k
          BY <1>1
        <5> QED
          BY <1>2, <5>1
      <4> QED
        BY <1>4, <2>2, <4>1
    <3>3. f[k - 1] = g[k - 1]
      <4>1. k - 1 \in 0 .. k - 1 /\ k - 1 # 0
        BY <1>1, <2>2
      <4> QED
        BY <1>8, <4>1
    <3>2. FlattenSeq(t) = f[k] /\ FlattenSeq(u) = g[k - 1]
      BY <1>1, <1>2, <1>3, <1>4, <1>5, <2>2
    <3> QED
      BY <3>1, <3>2, <3>3
  <2> QED
    BY <2>1, <2>2
<1> QED
  BY <1>1, <1>9, <1>10 DEF Firsts, t, u

LEMMA FirstsEnds ==
    ASSUME NEW S, NEW ss \in Seq(Seq(S))
    PROVE  Firsts(ss, 0) = <<>> /\ Firsts(ss, Len(ss)) = FlattenSeq(ss)
<1>1. SubSeq(ss, 1, 0) = <<>> /\ SubSeq(ss, 1, Len(ss)) = ss
  BY SubSeqFull, SubSeqEmpty
<1>2. FlattenSeq(<<>>) = <<>>
  BY DEF FlattenSeq
<1> QED
  BY <1>1, <1>2 DEF Firsts

\* They begin all of it, and are all of it when the others are empty.
LEMMA FirstsBegin ==
    ASSUME NEW S, NEW ss \in Seq(Seq(S)), NEW k \in 0 .. Len(ss)
    PROVE  /\ FlattenSeq(ss) \in Seq(S) /\ Firsts(ss, k) \in Seq(S)
           /\ IsPrefix(Firsts(ss, k), FlattenSeq(ss))
           /\ (\A i \in k + 1 .. Len(ss) : ss[i] = <<>>) => FlattenSeq(ss) = Firsts(ss, k)
<1>1. FlattenSeq(ss) \in Seq(S)
  BY FlattenRange
<1>2. Firsts(ss, k) \in Seq(S)
  <2>1. CASE k = 0
    <3>1. Firsts(ss, 0) = <<>> /\ <<>> \in Seq(S)
      BY FirstsEnds
    <3> QED
      BY <2>1, <3>1
  <2>2. CASE k # 0
    <3>1. k \in 1 .. Len(ss)
      BY <2>2
    <3> QED
      BY <3>1, FirstsStep
  <2> QED
    BY <2>1, <2>2
<1> DEFINE G == {j \in 0 .. Len(ss) - k :
                    /\ Firsts(ss, k + j) \in Seq(S)
                    /\ IsPrefix(Firsts(ss, k), Firsts(ss, k + j))
                    /\ (\A i \in k + 1 .. Len(ss) : ss[i] = <<>>) => Firsts(ss, k + j) = Firsts(ss, k)}
<1>3. Len(ss) - k \in Nat /\ k \in Nat /\ Len(ss) \in Nat
  OBVIOUS
<1>4. 0 \in G
  BY <1>2, <1>3, PrefixOfConcat
<1>5. ASSUME NEW j \in 1 .. Len(ss) - k, j - 1 \in G PROVE j \in G
  <2>1. k + j \in 1 .. Len(ss) /\ k + j \in k + 1 .. Len(ss) /\ k + j - 1 = k + (j - 1)
    BY <1>3
  <2>2. /\ Firsts(ss, k + j) = Firsts(ss, k + (j - 1)) \o ss[k + j]
        /\ Firsts(ss, k + j) \in Seq(S) /\ Firsts(ss, k + (j - 1)) \in Seq(S) /\ ss[k + j] \in Seq(S)
    <3> DEFINE n == k + j
    <3>1. Firsts(ss, n) = Firsts(ss, n - 1) \o ss[n] /\ Firsts(ss, n) \in Seq(S) /\ Firsts(ss, n - 1) \in Seq(S) /\ ss[n] \in Seq(S)
      BY <2>1, FirstsStep
    <3>2. n - 1 = k + (j - 1)
      BY <2>1
    <3> QED
      BY <3>1, <3>2
  <2>3. IsPrefix(Firsts(ss, k), Firsts(ss, k + j))
    <3>1. IsPrefix(Firsts(ss, k), Firsts(ss, k + (j - 1)))
      BY <1>5
    <3> DEFINE a == Firsts(ss, k + (j - 1))
               b == ss[k + j]
               c == Firsts(ss, k)
    <3>2. a \in Seq(S) /\ b \in Seq(S) /\ c \in Seq(S) /\ IsPrefix(c, a)
      BY <1>2, <2>2, <3>1
    <3>3. IsPrefix(c, a \o b)
      <4> HIDE DEF a, b, c
      <4> QED
        BY <3>2, PrefixOfConcat
    <3> QED
      BY <2>2, <3>3
  <2>4. (\A i \in k + 1 .. Len(ss) : ss[i] = <<>>) => Firsts(ss, k + j) = Firsts(ss, k)
    <3> HAVE \A i \in k + 1 .. Len(ss) : ss[i] = <<>>
    <3>1. ss[k + j] = <<>>
      BY <2>1
    <3>2. Firsts(ss, k + (j - 1)) = Firsts(ss, k)
      BY <1>5
    <3> QED
      BY <2>2, <3>1, <3>2, ConcatEmptySeq
  <2> QED
    BY <2>2, <2>3, <2>4
<1>6. \A j \in 0 .. Len(ss) - k : j \in G
  <2> HIDE DEF G
  <2> QED
    BY <1>3, <1>4, <1>5, Upwards
<1>7. Len(ss) - k \in G
  <2>1. Len(ss) - k \in 0 .. Len(ss) - k
    BY <1>3
  <2> HIDE DEF G
  <2> QED
    BY <1>6, <2>1
<1>8. k + (Len(ss) - k) = Len(ss)
  BY <1>3
<1>9. Firsts(ss, Len(ss)) = FlattenSeq(ss)
  BY FirstsEnds
<1> QED
  BY <1>1, <1>2, <1>7, <1>8, <1>9

-----------------------------------------------------------------------------
(***************************************************************************)
(* What the parsers give.                                                  *)
(***************************************************************************)
\* The places of a separator cut a sequence into a number of parts.
LEMMA SplitParts ==
    ASSUME NEW S, NEW s \in Seq(S), NEW sep
    PROVE  \E n \in Nat : DOMAIN Split(s, sep) = 1 .. n /\ Len(Split(s, sep)) = n
<1> DEFINE ends == {0, Len(s) + 1} \cup {i \in DOMAIN s : s[i] = sep}
           n == Cardinality(ends) - 1
<1>1. IsFiniteSet(ends) /\ ends # {}
  <2>1. IsFiniteSet(DOMAIN s) /\ {i \in DOMAIN s : s[i] = sep} \subseteq DOMAIN s
    BY FS_Interval
  <2>2. IsFiniteSet({i \in DOMAIN s : s[i] = sep})
    BY <2>1, FS_Subset
  <2>3. \A e : IsFiniteSet({0, e})
    <3> TAKE e
    <3>1. IsFiniteSet({0}) /\ {0, e} = {0} \cup {e}
      BY FS_Singleton
    <3> QED
      BY <3>1, FS_AddElement
  <2>4. IsFiniteSet({0, Len(s) + 1})
    BY <2>3
  <2> QED
    BY <2>2, <2>4, FS_Union
<1>2. n \in Nat
  <2> HIDE DEF ends
  <2>1. Cardinality(ends) \in Nat /\ Cardinality(ends) # 0
    BY <1>1, FS_CardinalityType, FS_EmptySet
  <2> QED
    BY <2>1
<1>3. Split(s, sep) = [k \in 1 .. n |-> SubSeq(s, Kth(ends, k) + 1, Kth(ends, k + 1) - 1)]
  BY DEF Split
<1> HIDE DEF n
<1> QED
  BY <1>2, <1>3

\* So do the tokens that begin a datum.
LEMMA DataParts ==
    ASSUME NEW tokens, NEW m \in Nat, DOMAIN tokens = 1 .. m, Len(tokens) = m
    PROVE  \E n \in Nat : DOMAIN Data(tokens) = 1 .. n
<1> DEFINE begins == {1, Len(tokens) + 1} \cup {i \in DOMAIN tokens : "|" \in ToSet(tokens[i])}
           n == Cardinality(begins) - 1
<1>1. IsFiniteSet(begins) /\ begins # {}
  <2>1. IsFiniteSet(DOMAIN tokens) /\ {i \in DOMAIN tokens : "|" \in ToSet(tokens[i])} \subseteq DOMAIN tokens
    BY FS_Interval
  <2>2. IsFiniteSet({i \in DOMAIN tokens : "|" \in ToSet(tokens[i])})
    BY <2>1, FS_Subset
  <2>3. \A e : IsFiniteSet({1, e})
    <3> TAKE e
    <3>1. IsFiniteSet({1}) /\ {1, e} = {1} \cup {e}
      BY FS_Singleton
    <3> QED
      BY <3>1, FS_AddElement
  <2>4. IsFiniteSet({1, Len(tokens) + 1})
    BY <2>3
  <2> QED
    BY <2>2, <2>4, FS_Union
<1>2. n \in Nat
  <2> HIDE DEF begins
  <2>1. Cardinality(begins) \in Nat /\ Cardinality(begins) # 0
    BY <1>1, FS_CardinalityType, FS_EmptySet
  <2> QED
    BY <2>1
<1>3. Data(tokens) = [k \in 1 .. n |-> Joined(SubSeq(tokens, Kth(begins, k), Kth(begins, k + 1) - 1), ":")]
  BY DEF Data
<1> HIDE DEF n
<1> QED
  BY <1>2, <1>3

LEMMA SampleIsMetric == ASSUME NEW name, NEW datum PROVE Sample(name, datum).call = "metric"
  BY DEF Sample

\* What a line is parsed to: samples, or one event or service check.
LEMMA MetricsParsed ==
    ASSUME NEW packet, packet \in Seq(Range(packet)), parse_metric_packet(packet) # None
    PROVE  /\ parse_metric_packet(packet) \in Seq(Range(parse_metric_packet(packet)))
           /\ \A x \in Range(parse_metric_packet(packet)) : x.call = "metric"
<1> DEFINE at == SelectInSeq(packet, LAMBDA x : x = ":")
           values == Data(Split(After(packet, at), ":"))
           datums == [i \in DOMAIN values |-> Split(values[i], "|")]
           name == SubSeq(packet, 1, at - 1)
           ss == [i \in DOMAIN datums |-> IF Ignored(datums[i]) THEN <<>> ELSE <<Sample(name, datums[i])>>]
           M == {Sample(name, datums[i]) : i \in DOMAIN datums}
<1>1. parse_metric_packet(packet) = FlattenSeq(ss)
  BY DEF parse_metric_packet
<1>2. at \in Nat
  <2> DEFINE I == {i \in 1 .. Len(packet) : packet[i] = ":"}
  <2>1. at = IF I # {} THEN Min(I) ELSE 0
    BY DEF SelectInSeq
  <2>2. I # {} => Min(I) \in I
    <3>1. I \subseteq Nat
      OBVIOUS
    <3> HIDE DEF I
    <3> QED
      BY <3>1, Least DEF Min
  <2> QED
    BY <2>1, <2>2
<1>3. After(packet, at) \in Seq(Range(packet))
  <2> HIDE DEF at
  <2>1. Len(packet) \in Nat /\ \A i \in at + 1 .. Len(packet) : packet[i] \in Range(packet)
    BY <1>2, ElementOfSeq
  <2> QED
    BY <1>2, <2>1, SubSeqProperties DEF After
<1>4. PICK n \in Nat : DOMAIN values = 1 .. n
  <2> DEFINE t == Split(After(packet, at), ":")
  <2>1. PICK m \in Nat : DOMAIN t = 1 .. m /\ Len(t) = m
    <3> HIDE DEF at
    <3> QED
      BY <1>3, SplitParts
  <2> HIDE DEF t
  <2> QED
    BY <2>1, DataParts DEF t
<1> HIDE DEF values, name
<1>5. DOMAIN datums = 1 .. n
  BY <1>4
<1> HIDE DEF datums
<1>6. ss \in Seq(Seq(M))
  <2>1. ASSUME NEW i \in 1 .. n PROVE ss[i] \in Seq(M)
    <3>1. Sample(name, datums[i]) \in M
      BY <1>5
    <3>2. ss[i] = IF Ignored(datums[i]) THEN <<>> ELSE <<Sample(name, datums[i])>>
      BY <1>5
    <3> HIDE DEF ss, M
    <3> QED
      BY <3>1, <3>2
  <2>2. ss \in [1 .. n -> Seq(M)]
    BY <1>5, <2>1
  <2> HIDE DEF ss, M
  <2> QED
    BY <2>2
<1>7. FlattenSeq(ss) \in Seq(M)
  <2> HIDE DEF ss, M
  <2> QED
    BY <1>6, FlattenRange
<1>8. \A x \in M : x.call = "metric"
  BY SampleIsMetric
<1> HIDE DEF ss, M
<1>9. FlattenSeq(ss) \in Seq(Range(FlattenSeq(ss))) /\ Range(FlattenSeq(ss)) \subseteq M
  BY <1>7, SeqOfRange, RangeOfSeq
<1> QED
  BY <1>1, <1>8, <1>9

LEMMA OneParsed ==
    ASSUME NEW packet
    PROVE  /\ parse_event_packet(packet) # None => \E x : x.call = "event" /\ parse_event_packet(packet) = <<x>>
           /\ parse_sc_packet(packet) # None => \E x : x.call = "sc" /\ parse_sc_packet(packet) = <<x>>
<1>1. parse_event_packet(packet) # None => \E x : x.call = "event" /\ parse_event_packet(packet) = <<x>>
  BY DEF parse_event_packet
<1>2. parse_sc_packet(packet) # None => \E x : x.call = "sc" /\ parse_sc_packet(packet) = <<x>>
  BY DEF parse_sc_packet
<1> QED
  BY <1>1, <1>2

LEMMA ParsedShape ==
    ASSUME NEW packet, packet \in Seq(Range(packet)), Parsed(packet) # None
    PROVE  /\ Parsed(packet) \in Seq(Range(Parsed(packet)))
           /\ \A x \in Range(Parsed(packet)) : x.call = Kind(packet)
           /\ Kind(packet) # "metric" => Len(Parsed(packet)) = 1
           /\ Kind(packet) \in {"metric", "event", "sc"}
<1>1. Kind(packet) \in {"metric", "event", "sc"}
  BY DEF Kind
<1>2. CASE Kind(packet) = "metric"
  <2>1. Parsed(packet) = parse_metric_packet(packet)
    BY <1>2 DEF Parsed
  <2> QED
    BY <1>2, <2>1, MetricsParsed
<1>3. CASE Kind(packet) # "metric"
  <2>1. PICK x : x.call = Kind(packet) /\ Parsed(packet) = <<x>>
    <3>1. Kind(packet) = "event" => Parsed(packet) = parse_event_packet(packet)
      BY DEF Parsed
    <3>2. Kind(packet) = "sc" => Parsed(packet) = parse_sc_packet(packet)
      BY DEF Parsed
    <3> QED
      BY <1>1, <1>3, <3>1, <3>2, OneParsed
  <2>2. Range(<<x>>) = {x} /\ <<x>> \in Seq({x}) /\ Len(<<x>>) = 1
    BY DEF Range
  <2> QED
    BY <1>1, <1>3, <2>1, <2>2
<1> QED
  BY <1>2, <1>3

-----------------------------------------------------------------------------
(***************************************************************************)
(* The inductive invariant: of the last datagram some lines were taken,    *)
(* what they gave is submitted or about to be; of every other one nothing  *)
(* is left to do.  The class of a context, in whatever bucket, is that of  *)
(* a sample that some datagram gave.                                       *)
(***************************************************************************)
\* What clients send, and all that it can give.
Datagrams == UNION {Traffic[n].datagrams : n \in DOMAIN Traffic}
Submissions == UNION {UNION {Range(Given(d)[i]) : i \in DOMAIN d} : d \in Datagrams}

LEMMA GivenShape ==
    ASSUME NEW d \in Datagrams
    PROVE  /\ d \in Seq(Range(d)) /\ Len(d) \in Nat /\ DOMAIN d = 1 .. Len(d)
           /\ \A i \in DOMAIN d : TextOf(d[i]) \in Seq(Range(TextOf(d[i])))
           /\ Given(d) \in Seq(Seq(Submissions)) /\ Len(Given(d)) = Len(d)
<1>1. d \in Seq(Range(d)) /\ \A i \in DOMAIN d : TextOf(d[i]) \in Seq(Range(TextOf(d[i])))
  BY TextAssumption DEF Datagrams
<1>2. Len(d) \in Nat /\ DOMAIN d = 1 .. Len(d)
  BY <1>1
<1>3. ASSUME NEW i \in DOMAIN d PROVE Given(d)[i] \in Seq(Submissions)
  <2> DEFINE g == Given(d)[i]
  <2>1. g = IF TextOf(d[i]) = <<>> \/ \E j \in 1 .. i : TextOf(d[j]) # <<>> /\ Parsed(TextOf(d[j])) = None
            THEN <<>> ELSE Parsed(TextOf(d[i]))
    BY DEF Given
  <2>2. Range(g) \subseteq Submissions
    BY DEF Submissions
  <2>3. g \in Seq(Range(g))
    <3>1. CASE g = <<>>
      BY <3>1
    <3>2. CASE g # <<>>
      <4>1. i \in 1 .. i
        BY <1>2
      <4>2. Parsed(TextOf(d[i])) # None /\ g = Parsed(TextOf(d[i]))
        BY <2>1, <3>2, <4>1
      <4> HIDE DEF g
      <4> QED
        BY <1>1, <4>2, ParsedShape
    <3> QED
      BY <3>1, <3>2
  <2> HIDE DEF g
  <2>4. g \in Seq(Submissions)
    BY <2>2, <2>3, SeqMonotonic
  <2> QED
    BY <2>4 DEF g
<1>4. Given(d) = [i \in 1 .. Len(d) |-> Given(d)[i]]
  BY <1>2 DEF Given
<1>5. Given(d) \in [1 .. Len(d) -> Seq(Submissions)]
  <2> DEFINE g == Given(d)
  <2>1. g = [i \in 1 .. Len(d) |-> g[i]] /\ \A i \in 1 .. Len(d) : g[i] \in Seq(Submissions)
    BY <1>2, <1>3, <1>4
  <2> HIDE DEF g
  <2>2. g \in [1 .. Len(d) -> Seq(Submissions)]
    BY <2>1
  <2> QED
    BY <2>2 DEF g
<1>6. Given(d) \in Seq(Seq(Submissions)) /\ Len(Given(d)) = Len(d)
  <2> DEFINE g == Given(d)
             n == Len(d)
  <2>1. n \in Nat /\ g \in [1 .. n -> Seq(Submissions)]
    BY <1>2, <1>5
  <2> HIDE DEF g, n
  <2>2. g \in Seq(Seq(Submissions)) /\ Len(g) = n
    BY <2>1
  <2> QED
    BY <2>2 DEF g, n
<1> QED
  BY <1>1, <1>2, <1>6

Classes == Range(BucketMetricResolver)

DogstatsdShapes ==
    /\ traffic \in DOMAIN Traffic
    /\ loop \in {"select", "lines", "send", "ended"}
    /\ loop # "lines" => packets = <<>> /\ parsed_packets = <<>>
    /\ received \in Seq(Traffic[traffic].datagrams)
    /\ calls \in Seq(Seq(Submissions)) /\ Len(calls) = Len(received)
    /\ forwarded \in Seq(Traffic[traffic].datagrams) /\ Len(forwarded) <= Len(received)
    /\ loop \in {"lines", "send"} => Len(forwarded) < Len(received)
    /\ \A c \in DOMAIN contexts : contexts[c] \in [class : Classes, text : BOOLEAN]
    /\ counts \in [{"packet", "metric", "event", "sc"} -> Nat]

\* Of the last datagram the first k lines were parsed, and what they gave is submitted, or
\* about to be.
Halfway ==
    loop = "lines" =>
        \E k \in 0 .. Len(Last(received)) :
            /\ packets = [i \in 1 .. Len(Last(received)) - k |-> TextOf(Last(received)[i + k])]
            /\ \A j \in 1 .. k : TextOf(Last(received)[j]) # <<>> => Parsed(TextOf(Last(received)[j])) # None
            /\ parsed_packets \in Seq(Submissions)
            /\ \A x \in Range(parsed_packets) : x.call = "metric"
            /\ Last(calls) \o parsed_packets = Firsts(Given(Last(received)), k)

\* The lines of a datagram are looked at when it is decoded as it should be; those of one
\* that is not decoded give nothing.
ReadsOnly ==
    loop = "lines" =>
        /\ Traffic[traffic].utf8 => Decodes(Last(received))
        /\ ~Traffic[traffic].utf8 => Last(calls) = <<>> /\ parsed_packets = <<>>

\* A sample of the first n datagrams made a metric of this class.
Made(n, c, class) ==
    \E i \in 1 .. n : \E e \in ToSet(Due(received[i])) :
        e.call = "metric" /\ ContextOf(e) = c /\ Resolves(e.mtype) /\ class = ClassOf(e)

Sources == \A c \in DOMAIN contexts : Made(Len(received), c, contexts[c].class)

\* The calls of a datagram that is done with end early before what cannot be submitted only.
Ends(n, all, due) == IsPrefix(all, due) /\ (all = due \/ Unsubmittable(n, due[Len(all) + 1]))
Done(n) == Ends(n, calls[n], Due(received[n]))

AllDone == \A n \in DOMAIN received : (n = Len(received) /\ loop = "lines") \/ Done(n)

DogstatsdInductive == DogstatsdShapes /\ Halfway /\ ReadsOnly /\ Sources /\ AllDone

LEMMA DogstatsdInitially == DogstatsdInit => DogstatsdInductive
<1> SUFFICES ASSUME DogstatsdInit PROVE DogstatsdInductive
  OBVIOUS
<1>1. DogstatsdShapes
  BY DEF DogstatsdInit, DogstatsdShapes
<1>2. Halfway /\ ReadsOnly /\ Sources /\ AllDone
  BY DEF DogstatsdInit, Halfway, ReadsOnly, Sources, AllDone
<1> QED
  BY <1>1, <1>2 DEF DogstatsdInductive

\* The last datagram, while there is one.
LEMMA LastDatagram ==
    ASSUME DogstatsdShapes, loop \in {"lines", "send"}
    PROVE  /\ Len(received) \in Nat \ {0} /\ Len(received) \in DOMAIN received
           /\ Len(calls) = Len(received) /\ Len(calls) \in DOMAIN calls
           /\ Last(received) = received[Len(received)] /\ Last(received) \in Datagrams
           /\ Last(calls) = calls[Len(received)] /\ Last(calls) \in Seq(Submissions)
<1>1. received \in Seq(Traffic[traffic].datagrams) /\ calls \in Seq(Seq(Submissions)) /\ Len(calls) = Len(received)
  BY DEF DogstatsdShapes
<1>2. Len(received) # 0
  <2>1. Len(forwarded) \in Nat /\ Len(forwarded) < Len(received)
    BY DEF DogstatsdShapes
  <2> QED
    BY <2>1
<1>3. Len(received) \in Nat \ {0} /\ Len(received) \in DOMAIN received /\ Len(calls) \in DOMAIN calls
  BY <1>1, <1>2
<1>4. received[Len(received)] \in Traffic[traffic].datagrams /\ calls[Len(calls)] \in Seq(Submissions)
  BY <1>1, <1>3
<1>5. traffic \in DOMAIN Traffic
  BY DEF DogstatsdShapes
<1> QED
  BY <1>1, <1>3, <1>4, <1>5 DEF Last, Datagrams

\* What a datagram should give stays, so what could not be submitted then could not.
DueStays == UNCHANGED traffic /\ \A i \in DOMAIN received : received'[i] = received[i]

LEMMA StillUnsubmittable ==
    ASSUME received \in Seq(Datagrams), DueStays, NEW n \in DOMAIN received, NEW x, Unsubmittable(n, x)
    PROVE  Unsubmittable(n, x)'
<1>1. ASSUME NEW i \in 1 .. n PROVE Due(received[i])' = Due(received[i])
  <2>1. i \in DOMAIN received
    OBVIOUS
  <2>2. received'[i] = received[i] /\ traffic' = traffic
    BY <2>1 DEF DueStays
  <2> QED
    BY <2>2 DEF Due, Readable
<1> QED
  BY <1>1 DEF Unsubmittable

LEMMA DoneForGood ==
    ASSUME received \in Seq(Datagrams), DueStays, NEW n \in DOMAIN received, Done(n), calls'[n] = calls[n]
    PROVE  Done(n)'
<1>1. PICK a, g : a = calls[n] /\ g = Due(received[n])
  OBVIOUS
<1>2. IsPrefix(a, g) /\ (a = g \/ Unsubmittable(n, g[Len(a) + 1]))
  BY <1>1 DEF Done, Ends
<1>3. IsPrefix(a, g) /\ (a = g \/ Unsubmittable(n, g[Len(a) + 1])')
  BY <1>2, StillUnsubmittable
<1>4. a = calls'[n] /\ g = Due(received[n])'
  BY <1>1 DEF DueStays, Due, Readable
<1> QED
  BY <1>3, <1>4 DEF Done, Ends

\* The histories are of what clients send.
LEMMA ReceivedShape ==
    ASSUME DogstatsdShapes
    PROVE  /\ received \in Seq(Datagrams) /\ Len(received) \in Nat /\ DOMAIN received = 1 .. Len(received)
           /\ calls \in Seq(Seq(Submissions)) /\ Len(calls) = Len(received) /\ DOMAIN calls = DOMAIN received
<1>1. /\ received \in Seq(Traffic[traffic].datagrams) /\ Traffic[traffic].datagrams \subseteq Datagrams
      /\ calls \in Seq(Seq(Submissions)) /\ Len(calls) = Len(received)
  BY DEF DogstatsdShapes, Datagrams
<1>2. received \in Seq(Datagrams)
  BY <1>1, SeqMonotonic
<1> QED
  BY <1>1, <1>2

\* While nothing is received, what made a metric still did.
LEMMA SourcesStay ==
    ASSUME DogstatsdInductive, UNCHANGED <<traffic, received>>, UNCHANGED contexts \/ contexts' = <<>>
    PROVE  Sources'
<1>1. CASE contexts' = <<>>
  BY <1>1 DEF Sources
<1>2. CASE UNCHANGED contexts
  <2>1. UNCHANGED <<traffic, received, contexts>> /\ Sources
    BY <1>2 DEF DogstatsdInductive
  <2> QED
    BY <2>1 DEF Sources, Made, Due, Readable
<1> QED
  BY <1>1, <1>2

-----------------------------------------------------------------------------
(***************************************************************************)
(* The steps.                                                              *)
(***************************************************************************)
\* What the next line gives, when none before it was bad.
LEMMA GivenNext ==
    ASSUME NEW d \in Datagrams, NEW k \in 0 .. Len(d) - 1,
           \A j \in 1 .. k : TextOf(d[j]) # <<>> => Parsed(TextOf(d[j])) # None
    PROVE  /\ k + 1 \in 1 .. Len(Given(d)) /\ k + 1 \in DOMAIN d
           /\ TextOf(d[k + 1]) = <<>> => Given(d)[k + 1] = <<>>
           /\ TextOf(d[k + 1]) # <<>> /\ Parsed(TextOf(d[k + 1])) # None => Given(d)[k + 1] = Parsed(TextOf(d[k + 1]))
           /\ TextOf(d[k + 1]) # <<>> /\ Parsed(TextOf(d[k + 1])) = None =>
                \A j \in k + 1 .. Len(Given(d)) : Given(d)[j] = <<>>
<1>1. Len(d) \in Nat /\ DOMAIN d = 1 .. Len(d) /\ Len(Given(d)) = Len(d) /\ k + 1 \in 1 .. Len(d)
  BY GivenShape
<1>2. \A i \in 1 .. Len(d) :
        Given(d)[i] = IF TextOf(d[i]) = <<>> \/ \E j \in 1 .. i : TextOf(d[j]) # <<>> /\ Parsed(TextOf(d[j])) = None
                      THEN <<>> ELSE Parsed(TextOf(d[i]))
  BY <1>1 DEF Given
<1>3. \A j \in 1 .. k + 1 : j \in 1 .. k \/ j = k + 1
  BY <1>1
<1>4. TextOf(d[k + 1]) = <<>> => Given(d)[k + 1] = <<>>
  BY <1>1, <1>2
<1>5. TextOf(d[k + 1]) # <<>> /\ Parsed(TextOf(d[k + 1])) # None => Given(d)[k + 1] = Parsed(TextOf(d[k + 1]))
  BY <1>1, <1>2, <1>3
<1>6. TextOf(d[k + 1]) # <<>> /\ Parsed(TextOf(d[k + 1])) = None =>
        \A j \in k + 1 .. Len(Given(d)) : Given(d)[j] = <<>>
  <2> SUFFICES ASSUME TextOf(d[k + 1]) # <<>>, Parsed(TextOf(d[k + 1])) = None, NEW j \in k + 1 .. Len(Given(d))
               PROVE  Given(d)[j] = <<>>
    OBVIOUS
  <2>1. j \in 1 .. Len(d) /\ k + 1 \in 1 .. j
    BY <1>1
  <2> QED
    BY <1>2, <2>1
<1> QED
  BY <1>1, <1>4, <1>5, <1>6

LEMMA RecvKeeps ==
    ASSUME DogstatsdInductive, UNCHANGED traffic, NEW d \in Traffic[traffic].datagrams, Recv(d)
    PROVE  DogstatsdInductive'
<1> USE DEF DogstatsdInductive
<1>1. /\ loop = "select" /\ loop' \in {"lines", "select"}
      /\ received' = Append(received, d) /\ calls' = Append(calls, <<>>)
      /\ loop' = "lines" => packets' = [i \in DOMAIN d |-> TextOf(d[i])] /\ (Traffic[traffic].utf8 => Decodes(d))
      /\ loop' = "select" => packets' = <<>> /\ ~Readable(d)
      /\ parsed_packets' = <<>> /\ UNCHANGED <<traffic, contexts, counts, forwarded>>
  <2>1. parsed_packets = <<>> /\ loop = "select"
    BY DEF DogstatsdShapes, Recv
  <2> QED
    BY <2>1 DEF Recv, Raised, Readable
<1>2. received \in Seq(Traffic[traffic].datagrams) /\ calls \in Seq(Seq(Submissions)) /\ Len(calls) = Len(received)
  BY DEF DogstatsdShapes
<1>3. d \in Datagrams /\ traffic \in DOMAIN Traffic
  BY DEF DogstatsdShapes, Datagrams
<1>4. /\ received' \in Seq(Traffic[traffic].datagrams) /\ Len(received') = Len(received) + 1
      /\ calls' \in Seq(Seq(Submissions)) /\ Len(calls') = Len(received')
      /\ received'[Len(received) + 1] = d /\ calls'[Len(received) + 1] = <<>>
      /\ \A n \in 1 .. Len(received) : received'[n] = received[n] /\ calls'[n] = calls[n]
  <2>1. <<>> \in Seq(Submissions)
    OBVIOUS
  <2> QED
    BY <1>1, <1>2, <2>1, AppendProperties
<1>5. Len(received) \in Nat /\ DOMAIN received = 1 .. Len(received) /\ DOMAIN received' = 1 .. Len(received) + 1
  BY <1>2, <1>4
<1>6. DogstatsdShapes'
  <2>1. Len(forwarded) \in Nat /\ Len(forwarded) <= Len(received)
    BY DEF DogstatsdShapes
  <2> QED
    BY <1>1, <1>4, <1>5, <2>1 DEF DogstatsdShapes
<1>7. Last(received') = d /\ Last(calls') = <<>>
  BY <1>4, <1>5 DEF Last
<1>8. Halfway'
  <2> SUFFICES ASSUME loop' = "lines" PROVE Halfway'
    BY DEF Halfway
  <2>1. Len(d) \in Nat /\ DOMAIN d = 1 .. Len(d) /\ Given(d) \in Seq(Seq(Submissions))
    BY <1>3, GivenShape
  <2>2. packets' = [i \in 1 .. Len(d) - 0 |-> TextOf(d[i + 0])]
    BY <1>1, <2>1
  <2>3. <<>> \o <<>> = Firsts(Given(d), 0) /\ Range(<<>>) = {} /\ <<>> \in Seq(Submissions)
    BY <2>1, FirstsEnds DEF Range
  <2>4. /\ packets' = [i \in 1 .. Len(Last(received')) - 0 |-> TextOf(Last(received')[i + 0])]
        /\ parsed_packets' \in Seq(Submissions) /\ \A x \in Range(parsed_packets') : x.call = "metric"
        /\ Last(calls') \o parsed_packets' = Firsts(Given(Last(received')), 0)
    BY <1>1, <1>7, <2>2, <2>3
  <2>5. 0 \in 0 .. Len(Last(received')) /\ 1 .. 0 = {}
    BY <1>7, <2>1
  <2> QED
    BY <2>4, <2>5 DEF Halfway
<1>9. ReadsOnly'
  BY <1>1, <1>7 DEF ReadsOnly, Decodes
<1>10. DueStays /\ received \in Seq(Datagrams)
  <2>1. received \in Seq(Datagrams)
    BY ReceivedShape
  <2> QED
    BY <1>1, <1>4, <1>5, <2>1 DEF DueStays
<1>11. Sources'
  <2>1. ASSUME NEW c \in DOMAIN contexts' PROVE Made(Len(received), c, contexts[c].class)'
    <3>1. PICK k : k = contexts[c].class /\ k = contexts'[c].class
      BY <1>1
    <3>2. Made(Len(received), c, k)
      BY <1>1, <2>1, <3>1 DEF Sources
    <3>3. PICK i \in 1 .. Len(received) : \E e \in ToSet(Due(received[i])) :
            e.call = "metric" /\ ContextOf(e) = c /\ Resolves(e.mtype) /\ k = ClassOf(e)
      BY <3>2 DEF Made
    <3>4. Due(received[i])' = Due(received[i]) /\ i \in 1 .. Len(received')
      <4>1. received'[i] = received[i] /\ i \in 1 .. Len(received')
        BY <1>4, <1>5
      <4> QED
        BY <1>1, <4>1 DEF Due, Readable
    <3> QED
      BY <3>1, <3>3, <3>4 DEF Made
  <2> QED
    BY <2>1 DEF Sources
<1>12. AllDone'
  <2>1. ASSUME NEW n \in 1 .. Len(received) PROVE Done(n)'
    <3>1. Done(n) /\ n \in DOMAIN received /\ calls'[n] = calls[n]
      BY <1>1, <1>4, <1>5 DEF AllDone
    <3> QED
      BY <1>10, <3>1, DoneForGood
  <2>2. ASSUME NEW n, n = Len(received'), loop' = "select" PROVE Done(n)'
    <3>1. ~Readable(d) /\ received'[n] = d /\ calls'[n] = <<>>
      BY <1>1, <1>4, <2>2
    <3>2. Due(received[n])' = <<>>
      BY <1>1, <3>1 DEF Due, Readable
    <3>3. IsPrefix(<<>>, <<>>)
      <4>1. <<>> \in Seq(Submissions)
        OBVIOUS
      <4> QED
        BY <4>1, PrefixOfConcat
    <3> QED
      BY <3>1, <3>2, <3>3 DEF Done, Ends
  <2>3. ASSUME NEW n \in DOMAIN received', ~(n = Len(received') /\ loop' = "lines") PROVE Done(n)'
    <3>1. CASE n \in 1 .. Len(received)
      BY <2>1, <3>1
    <3>2. CASE n \notin 1 .. Len(received)
      <4>1. n = Len(received') /\ loop' = "select"
        BY <1>1, <1>4, <1>5, <2>3, <3>2
      <4> QED
        BY <2>2, <4>1
    <3> QED
      BY <3>1, <3>2
  <2> QED
    BY <2>3 DEF AllDone
<1> QED
  BY <1>6, <1>8, <1>9, <1>11, <1>12

\* The last datagram is given up, or the server goes on with it; the others stay.
LEMMA LastIsDone ==
    ASSUME DogstatsdInductive, loop = "lines", UNCHANGED <<traffic, received>>,
           Len(calls') = Len(calls), \A n \in DOMAIN calls : n # Len(calls) => calls'[n] = calls[n],
           loop' = "lines" \/ Done(Len(received))'
    PROVE  AllDone'
<1>1. /\ received \in Seq(Datagrams) /\ calls \in Seq(Seq(Submissions)) /\ Len(calls) = Len(received)
      /\ DOMAIN calls = DOMAIN received /\ DueStays
  BY ReceivedShape DEF DogstatsdInductive, DueStays
<1>2. ASSUME NEW n \in DOMAIN received, n # Len(received) PROVE Done(n)'
  <2>1. Done(n)
    BY <1>2 DEF DogstatsdInductive, AllDone
  <2>2. n \in DOMAIN calls /\ n # Len(calls)
    BY <1>1, <1>2
  <2> QED
    BY <1>1, <2>1, <2>2, DoneForGood
<1> QED
  BY <1>2 DEF AllDone

\* Where the server is in a datagram, and the packet it takes up next.
LEMMA AtLine ==
    ASSUME DogstatsdInductive, loop = "lines"
    PROVE  \E k \in 0 .. Len(Last(received)) :
             LET d == Last(received)
             IN  /\ d \in Datagrams /\ Len(d) \in Nat
                 /\ packets = [i \in 1 .. Len(d) - k |-> TextOf(d[i + k])]
                 /\ \A j \in 1 .. k : TextOf(d[j]) # <<>> => Parsed(TextOf(d[j])) # None
                 /\ parsed_packets \in Seq(Submissions) /\ \A x \in Range(parsed_packets) : x.call = "metric"
                 /\ Last(calls) \in Seq(Submissions)
                 /\ Last(calls) \o parsed_packets = Firsts(Given(d), k)
                 /\ Given(d) \in Seq(Seq(Submissions)) /\ Len(Given(d)) = Len(d)
                 /\ IsPrefix(Firsts(Given(d), k), FlattenSeq(Given(d))) /\ FlattenSeq(Given(d)) \in Seq(Submissions)
                 /\ packets = <<>> <=> k = Len(d)
                 /\ k < Len(d) =>
                        /\ Head(packets) = TextOf(d[k + 1])
                        /\ Tail(packets) = [i \in 1 .. Len(d) - (k + 1) |-> TextOf(d[i + (k + 1)])]
<1> DEFINE d == Last(received)
<1>1. PICK k \in 0 .. Len(d) :
        /\ packets = [i \in 1 .. Len(d) - k |-> TextOf(d[i + k])]
        /\ \A j \in 1 .. k : TextOf(d[j]) # <<>> => Parsed(TextOf(d[j])) # None
        /\ parsed_packets \in Seq(Submissions) /\ \A x \in Range(parsed_packets) : x.call = "metric"
        /\ Last(calls) \o parsed_packets = Firsts(Given(d), k)
  BY DEF DogstatsdInductive, Halfway
<1>2. d \in Datagrams /\ Last(calls) \in Seq(Submissions)
  BY LastDatagram DEF DogstatsdInductive
<1> HIDE DEF d
<1>3. Len(d) \in Nat /\ Given(d) \in Seq(Seq(Submissions)) /\ Len(Given(d)) = Len(d)
  BY <1>2, GivenShape
<1>4. IsPrefix(Firsts(Given(d), k), FlattenSeq(Given(d))) /\ FlattenSeq(Given(d)) \in Seq(Submissions)
  <2> DEFINE g == Given(d)
  <2>1. g \in Seq(Seq(Submissions)) /\ k \in 0 .. Len(g)
    BY <1>3
  <2> HIDE DEF g
  <2>2. IsPrefix(Firsts(g, k), FlattenSeq(g)) /\ FlattenSeq(g) \in Seq(Submissions)
    BY <2>1, FirstsBegin
  <2> QED
    BY <2>2 DEF g
<1>5. packets = <<>> <=> k = Len(d)
  <2>1. Len(packets) = Len(d) - k
    BY <1>1, <1>3
  <2>2. k = Len(d) => packets = <<>>
    BY <1>1, <1>3
  <2> QED
    BY <1>3, <2>1, <2>2
<1>6. ASSUME k < Len(d)
      PROVE  /\ Head(packets) = TextOf(d[k + 1])
             /\ Tail(packets) = [i \in 1 .. Len(d) - (k + 1) |-> TextOf(d[i + (k + 1)])]
  <2> DEFINE m == Len(d) - k
             P == {TextOf(d[i + k]) : i \in 1 .. m}
  <2>1. m \in Nat \ {0} /\ k \in Nat /\ packets \in Seq(P) /\ Len(packets) = m
        /\ \A i \in 1 .. m : packets[i] = TextOf(d[i + k])
    <3>1. m \in Nat \ {0} /\ k \in Nat
      BY <1>3, <1>6
    <3>2. packets = [i \in 1 .. m |-> packets[i]] /\ \A i \in 1 .. m : packets[i] = TextOf(d[i + k])
      BY <1>1
    <3>3. \A i \in 1 .. m : packets[i] \in P
      BY <3>2
    <3> HIDE DEF m, P
    <3>4. packets \in [1 .. m -> P]
      BY <3>2, <3>3
    <3> QED
      BY <3>1, <3>2, <3>4
  <2>2. packets # <<>>
    BY <1>5, <1>6, <1>3
  <2>3. Head(packets) = packets[1]
    BY <2>1, <2>2
  <2>4. Head(packets) = TextOf(d[k + 1])
    BY <2>1, <2>3
  <2>5. Tail(packets) \in Seq(P) /\ Len(Tail(packets)) = m - 1 /\ \A i \in 1 .. m - 1 : Tail(packets)[i] = packets[i + 1]
    <3> HIDE DEF m, P
    <3> QED
      BY <2>1, <2>2, HeadTailProperties
  <2> DEFINE t == Tail(packets)
             n == Len(d) - (k + 1)
  <2>6. n = m - 1 /\ \A i \in 1 .. n : t[i] = TextOf(d[i + (k + 1)])
    <3>1. n = m - 1
      BY <1>3, <1>6
    <3>2. ASSUME NEW i \in 1 .. n PROVE t[i] = TextOf(d[i + (k + 1)])
      <4>1. i \in 1 .. m - 1 /\ i + 1 \in 1 .. m /\ (i + 1) + k = i + (k + 1)
        BY <1>3, <1>6, <2>1
      <4>2. t[i] = TextOf(d[(i + 1) + k])
        BY <2>1, <2>5, <4>1
      <4> QED
        BY <4>1, <4>2
    <3> QED
      BY <3>1, <3>2
  <2>7. t = [i \in 1 .. n |-> t[i]]
    <3>1. t \in Seq(P) /\ Len(t) = n
      BY <2>5, <2>6
    <3> HIDE DEF t, n, P, m
    <3> QED
      BY <3>1
  <2>8. t = [i \in 1 .. n |-> TextOf(d[i + (k + 1)])]
    <3> HIDE DEF t, n
    <3> QED
      BY <2>6, <2>7
  <2> QED
    BY <2>4, <2>8
<1> QED
  BY <1>1, <1>2, <1>3, <1>4, <1>5, <1>6 DEF d

\* After one more line the server is halfway still.
LEMMA NextLine ==
    ASSUME NEW d \in Datagrams, NEW k \in 0 .. Len(d) - 1, d = Last(received'),
           packets' = [i \in 1 .. Len(d) - (k + 1) |-> TextOf(d[i + (k + 1)])],
           \A j \in 1 .. k : TextOf(d[j]) # <<>> => Parsed(TextOf(d[j])) # None,
           TextOf(d[k + 1]) # <<>> => Parsed(TextOf(d[k + 1])) # None,
           parsed_packets' \in Seq(Submissions), \A x \in Range(parsed_packets') : x.call = "metric",
           Last(calls') \o parsed_packets' = Firsts(Given(d), k + 1)
    PROVE  Halfway'
<1>1. Len(d) \in Nat
  BY GivenShape
<1>2. k + 1 \in 0 .. Len(d) /\ \A j \in 1 .. k + 1 : j \in 1 .. k \/ j = k + 1
  BY <1>1
<1>3. \A j \in 1 .. k + 1 : TextOf(d[j]) # <<>> => Parsed(TextOf(d[j])) # None
  BY <1>2
<1> DEFINE n == k + 1
<1>4. /\ n \in 0 .. Len(d)
      /\ packets' = [i \in 1 .. Len(d) - n |-> TextOf(d[i + n])]
      /\ \A j \in 1 .. n : TextOf(d[j]) # <<>> => Parsed(TextOf(d[j])) # None
      /\ Last(calls') \o parsed_packets' = Firsts(Given(d), n)
  BY <1>2, <1>3
<1> HIDE DEF n
<1> QED
  BY <1>4 DEF Halfway

\* submit_packets adds a call to the last datagram's.
LEMMA CallAdded ==
    ASSUME DogstatsdShapes, loop = "lines", NEW call \in Submissions, Submitted(call)
    PROVE  /\ calls' \in Seq(Seq(Submissions)) /\ Len(calls') = Len(calls)
           /\ \A n \in DOMAIN calls : n # Len(calls) => calls'[n] = calls[n]
           /\ calls'[Len(calls)] = Append(Last(calls), call)
           /\ Last(calls') = Last(calls) \o <<call>>
<1>1. /\ calls \in Seq(Seq(Submissions)) /\ Len(calls) \in DOMAIN calls
      /\ Last(calls) = calls[Len(calls)] /\ Last(calls) \in Seq(Submissions)
  BY LastDatagram DEF DogstatsdShapes
<1> DEFINE e == Append(Last(calls), call)
<1>2. e \in Seq(Submissions) /\ e = Last(calls) \o <<call>>
  BY <1>1, AppendProperties, AppendIsConcat
<1>3. calls' = [calls EXCEPT ![Len(calls)] = e]
  BY <1>1 DEF Submitted
<1> HIDE DEF e
<1>4. /\ calls' \in Seq(Seq(Submissions)) /\ Len(calls') = Len(calls)
      /\ \A n \in 1 .. Len(calls) : calls'[n] = IF n = Len(calls) THEN e ELSE calls[n]
  <2>1. Len(calls) \in 1 .. Len(calls) /\ DOMAIN calls = 1 .. Len(calls)
    BY <1>1
  <2> QED
    BY <1>1, <1>2, <1>3, <2>1, ExceptSeq
<1>5. Last(calls') = e
  <2>1. Len(calls) \in 1 .. Len(calls)
    BY <1>1
  <2> QED
    BY <1>4, <2>1 DEF Last
<1>6. DOMAIN calls = 1 .. Len(calls) /\ Len(calls) \in 1 .. Len(calls)
  BY <1>1
<1> QED
  BY <1>2, <1>4, <1>5, <1>6 DEF e

LEMMA CountedShape ==
    ASSUME DogstatsdShapes, NEW packet
    PROVE  /\ Counted(packet) \in [{"packet", "metric", "event", "sc"} -> Nat]
           /\ Counted(packet)["packet"] = counts["packet"] + 1
           /\ Counted(packet)["metric"] = counts["metric"]
           /\ \A c \in {"event", "sc"} : Counted(packet)[c] =
                IF Kind(packet) = c /\ Parses(packet) THEN counts[c] + 1 ELSE counts[c]
<1>1. counts \in [{"packet", "metric", "event", "sc"} -> Nat] /\ Kind(packet) \in {"metric", "event", "sc"}
  BY DEF DogstatsdShapes, Kind
<1>2. Parses(packet) \in BOOLEAN
  BY DEF Parses
<1> QED
  BY <1>1, <1>2 DEF Counted

LEMMA LineKeeps ==
    ASSUME DogstatsdInductive, UNCHANGED traffic, Line
    PROVE  DogstatsdInductive'
<1>1. /\ loop = "lines" /\ packets # <<>> /\ parsed_packets = <<>>
      /\ UNCHANGED <<traffic, contexts, received, forwarded>> /\ DogstatsdShapes
  BY DEF Line, DogstatsdInductive
<1> DEFINE d == Last(received)
<1>2. PICK k \in 0 .. Len(d) :
        /\ d \in Datagrams /\ Len(d) \in Nat
        /\ packets = [i \in 1 .. Len(d) - k |-> TextOf(d[i + k])]
        /\ \A j \in 1 .. k : TextOf(d[j]) # <<>> => Parsed(TextOf(d[j])) # None
        /\ parsed_packets \in Seq(Submissions) /\ \A x \in Range(parsed_packets) : x.call = "metric"
        /\ Last(calls) \in Seq(Submissions)
        /\ Last(calls) \o parsed_packets = Firsts(Given(d), k)
        /\ Given(d) \in Seq(Seq(Submissions)) /\ Len(Given(d)) = Len(d)
        /\ IsPrefix(Firsts(Given(d), k), FlattenSeq(Given(d))) /\ FlattenSeq(Given(d)) \in Seq(Submissions)
        /\ packets = <<>> <=> k = Len(d)
        /\ k < Len(d) =>
               /\ Head(packets) = TextOf(d[k + 1])
               /\ Tail(packets) = [i \in 1 .. Len(d) - (k + 1) |-> TextOf(d[i + (k + 1)])]
  BY <1>1, AtLine
<1>3. d = Last(received')
  BY <1>1
<1> HIDE DEF d
<1> DEFINE packet == Head(packets)
<1>4. k \in 0 .. Len(d) - 1 /\ packet = TextOf(d[k + 1])
  BY <1>1, <1>2
<1>5. Last(calls) = Firsts(Given(d), k)
  BY <1>1, <1>2, ConcatEmptySeq
<1>6. /\ k + 1 \in 1 .. Len(Given(d)) /\ k + 1 \in DOMAIN d
      /\ packet = <<>> => Given(d)[k + 1] = <<>>
      /\ packet # <<>> /\ Parsed(packet) # None => Given(d)[k + 1] = Parsed(packet)
      /\ packet # <<>> /\ Parsed(packet) = None => \A j \in k + 1 .. Len(Given(d)) : Given(d)[j] = <<>>
  BY <1>2, <1>4, GivenNext
<1>7. Firsts(Given(d), k + 1) = Last(calls) \o Given(d)[k + 1] /\ Given(d)[k + 1] \in Seq(Submissions)
  <2> DEFINE g == Given(d)
             n == k + 1
  <2>1. g \in Seq(Seq(Submissions)) /\ n \in 1 .. Len(g) /\ n - 1 = k
    BY <1>2, <1>6
  <2>2. Firsts(g, n) = Firsts(g, n - 1) \o g[n] /\ g[n] \in Seq(Submissions)
    <3> HIDE DEF g, n
    <3> QED
      BY <2>1, FirstsStep
  <2> QED
    BY <1>5, <2>1, <2>2
<1>8. packet \in Seq(Range(packet))
  <2>1. TextOf(d[k + 1]) \in Seq(Range(TextOf(d[k + 1])))
    BY <1>2, <1>6, GivenShape
  <2> QED
    BY <1>4, <2>1
<1>9. Sources' /\ (Traffic[traffic].utf8 => Decodes(Last(received)))
      /\ (~Traffic[traffic].utf8 => Last(calls) = <<>>)
  <2>1. Sources'
    BY <1>1, SourcesStay
  <2> QED
    BY <1>1, <2>1 DEF DogstatsdInductive, ReadsOnly
<1>10. \A x \in Range(<<>>) : x.call = "metric"
  BY DEF Range
<1>11. Len(received) \in Nat \ {0} /\ Last(calls) = calls[Len(received)] /\ d = received[Len(received)]
  BY <1>1, LastDatagram DEF d
<1>12. Tail(packets) = [i \in 1 .. Len(d) - (k + 1) |-> TextOf(d[i + (k + 1)])]
  <2>1. k < Len(d)
    BY <1>2, <1>4
  <2> QED
    BY <1>2, <2>1
<1>13. /\ d \in Datagrams /\ k \in 0 .. Len(d) - 1 /\ d = Last(received')
       /\ \A j \in 1 .. k : TextOf(d[j]) # <<>> => Parsed(TextOf(d[j])) # None
  BY <1>2, <1>3, <1>4
<1>14. CASE packet = <<>>
  <2>1. packets' = Tail(packets) /\ UNCHANGED <<loop, parsed_packets, counts, calls>>
    BY <1>14 DEF Line
  <2>2. DogstatsdShapes'
    BY <1>1, <2>1 DEF DogstatsdShapes
  <2>3. Last(calls') \o parsed_packets' = Firsts(Given(d), k + 1)
    <3>1. Firsts(Given(d), k + 1) = Last(calls)
      BY <1>2, <1>6, <1>7, <1>14, ConcatEmptySeq
    <3> QED
      BY <1>1, <1>2, <2>1, <3>1, ConcatEmptySeq
  <2>4. Halfway'
    <3>1. packets' = [i \in 1 .. Len(d) - (k + 1) |-> TextOf(d[i + (k + 1)])]
      BY <1>12, <2>1
    <3>2. parsed_packets' \in Seq(Submissions) /\ \A x \in Range(parsed_packets') : x.call = "metric"
      BY <1>1, <1>2, <2>1
    <3>3. TextOf(d[k + 1]) # <<>> => Parsed(TextOf(d[k + 1])) # None
      BY <1>4, <1>14
    <3> QED
      BY <1>13, <2>3, <3>1, <3>2, <3>3, NextLine
  <2>5. AllDone'
    BY <1>1, <2>1, LastIsDone
  <2>6. ReadsOnly'
    BY <1>1, <1>9, <2>1 DEF ReadsOnly, Decodes
  <2> QED
    BY <1>9, <2>2, <2>4, <2>5, <2>6 DEF DogstatsdInductive
<1>15. CASE packet # <<>> /\ ~Parses(packet)
  <2>1. /\ loop' = "select" /\ packets' = <<>> /\ parsed_packets' = <<>>
        /\ counts' = Counted(packet) /\ UNCHANGED calls
    BY <1>15 DEF Line, Unparseable, Raised
  <2>2. DogstatsdShapes'
    BY <1>1, <2>1, CountedShape DEF DogstatsdShapes
  <2>3. Halfway' /\ ReadsOnly'
    BY <2>1 DEF Halfway, ReadsOnly
  <2>4. Done(Len(received))'
    <3> DEFINE g == Given(d)
    <3>1. Traffic[traffic].utf8 => FlattenSeq(g) = Last(calls)
      <4> HAVE Traffic[traffic].utf8
      <4>1. g \in Seq(Seq(Submissions)) /\ k \in 0 .. Len(g) /\ \A j \in k + 1 .. Len(g) : g[j] = <<>>
        BY <1>2, <1>6, <1>15 DEF Parses
      <4>2. FlattenSeq(g) = Firsts(g, k)
        <5> HIDE DEF g
        <5> QED
          BY <4>1, FirstsBegin
      <4> QED
        BY <1>5, <4>2
    <3>2. Due(d) = Last(calls)
      BY <1>9, <3>1 DEF Due, Readable, d
    <3>3. IsPrefix(Last(calls), Last(calls))
      BY <1>2, PrefixOfConcat
    <3>4. calls'[Len(received')] = Last(calls) /\ Due(received[Len(received)])' = Last(calls)
      BY <1>1, <1>11, <2>1, <3>2 DEF Due, Readable
    <3> QED
      BY <3>3, <3>4 DEF Done, Ends
  <2>5. AllDone'
    BY <1>1, <2>1, <2>4, LastIsDone
  <2> QED
    BY <1>9, <2>2, <2>3, <2>5 DEF DogstatsdInductive
<1>16. CASE packet # <<>> /\ Parses(packet)
  <2>1. /\ counts' = Counted(packet) /\ packets' = Tail(packets) /\ UNCHANGED loop
        /\ Traffic[traffic].utf8 /\ Parsed(packet) # None
    BY <1>16 DEF Line, Parses
  <2>2. /\ Parsed(packet) \in Seq(Submissions) /\ \A x \in Range(Parsed(packet)) : x.call = Kind(packet)
        /\ Kind(packet) # "metric" => Len(Parsed(packet)) = 1
    BY <1>6, <1>7, <1>8, <1>16, <2>1, ParsedShape
  <2>3. /\ calls' \in Seq(Seq(Submissions)) /\ Len(calls') = Len(calls)
        /\ \A n \in DOMAIN calls : n # Len(calls) => calls'[n] = calls[n]
        /\ parsed_packets' \in Seq(Submissions) /\ \A x \in Range(parsed_packets') : x.call = "metric"
        /\ Last(calls') \o parsed_packets' = Last(calls) \o Parsed(packet)
    <3>1. CASE Kind(packet) = "metric"
      <4>1. parsed_packets' = Parsed(packet) /\ UNCHANGED calls
        BY <1>16, <3>1 DEF Line
      <4> QED
        BY <1>1, <2>2, <3>1, <4>1 DEF DogstatsdShapes
    <3>2. CASE Kind(packet) # "metric"
      <4> DEFINE x == Parsed(packet)[1]
      <4>1. Submitted(x) /\ UNCHANGED parsed_packets
        BY <1>16, <3>2 DEF Line
      <4>2. x \in Submissions /\ Parsed(packet) = <<x>>
        <5> DEFINE s == Parsed(packet)
        <5>1. s \in Seq(Submissions) /\ Len(s) = 1
          BY <2>2, <3>2
        <5> HIDE DEF s
        <5>2. s[1] \in Submissions /\ s = <<s[1]>>
          BY <5>1
        <5> QED
          BY <5>2 DEF s
      <4> HIDE DEF x
      <4>3. /\ calls' \in Seq(Seq(Submissions)) /\ Len(calls') = Len(calls)
            /\ \A n \in DOMAIN calls : n # Len(calls) => calls'[n] = calls[n]
            /\ Last(calls') = Last(calls) \o <<x>>
        BY <1>1, <4>1, <4>2, CallAdded
      <4>4. (Last(calls) \o <<x>>) \o <<>> = Last(calls) \o <<x>>
        <5>1. Last(calls) \o <<x>> \in Seq(Submissions)
          BY <1>2, <4>2, ConcatProperties
        <5> QED
          BY <5>1, ConcatEmptySeq
      <4> QED
        BY <1>1, <1>2, <4>1, <4>2, <4>3, <4>4
    <3> QED
      BY <3>1, <3>2
  <2>4. DogstatsdShapes'
    BY <1>1, <2>1, <2>3, CountedShape DEF DogstatsdShapes
  <2>5. Halfway'
    <3>1. Last(calls') \o parsed_packets' = Firsts(Given(d), k + 1)
      BY <1>6, <1>7, <1>16, <2>1, <2>3
    <3>2. packets' = [i \in 1 .. Len(d) - (k + 1) |-> TextOf(d[i + (k + 1)])]
      BY <1>12, <2>1
    <3>3. parsed_packets' \in Seq(Submissions) /\ \A x \in Range(parsed_packets') : x.call = "metric"
      BY <2>3
    <3>4. TextOf(d[k + 1]) # <<>> => Parsed(TextOf(d[k + 1])) # None
      BY <1>4, <2>1
    <3> QED
      BY <1>13, <3>1, <3>2, <3>3, <3>4, NextLine
  <2>6. AllDone'
    BY <1>1, <2>1, <2>3, LastIsDone
  <2>7. ReadsOnly'
    BY <1>1, <1>9, <2>1 DEF ReadsOnly, Decodes
  <2> QED
    BY <1>9, <2>4, <2>5, <2>6, <2>7 DEF DogstatsdInductive
<1> QED
  BY <1>14, <1>15, <1>16

ContextShapes(cs) == \A c \in DOMAIN cs : cs[c] \in [class : Classes, text : BOOLEAN]

\* The contexts with that of a sample of a known type, or of one that has a context.
LEMMA WithContextShape ==
    ASSUME NEW sample, ContextShapes(contexts), NEW c, c = ContextOf(sample),
           c \in DOMAIN contexts \/ Resolves(sample.mtype)
    PROVE  /\ ContextShapes(WithContext(sample))
           /\ DOMAIN WithContext(sample) = DOMAIN contexts \cup {c}
           /\ \A e \in DOMAIN contexts : WithContext(sample)[e] = contexts[e]
           /\ c \notin DOMAIN contexts => WithContext(sample)[c].class = ClassOf(sample)
<1> DEFINE w == WithContext(sample)
           new == [class |-> ClassOf(sample), text |-> FALSE]
<1>1. w = [e \in DOMAIN contexts \cup {c} |-> IF e \in DOMAIN contexts THEN contexts[e] ELSE new]
  BY DEF WithContext
<1>2. Resolves(sample.mtype) => new \in [class : Classes, text : BOOLEAN]
  <2> HAVE Resolves(sample.mtype)
  <2>1. sample.mtype[1] \in DOMAIN BucketMetricResolver
    BY DEF Resolves
  <2>2. BucketMetricResolver[sample.mtype[1]] \in Classes
    BY <2>1 DEF Classes, Range
  <2> QED
    BY <2>2 DEF ClassOf
<1>3. new.class = ClassOf(sample)
  OBVIOUS
<1> HIDE DEF w, new
<1>4. ASSUME NEW e \in DOMAIN w PROVE w[e] \in [class : Classes, text : BOOLEAN]
  <2>1. e \in DOMAIN contexts => w[e] = contexts[e] /\ contexts[e] \in [class : Classes, text : BOOLEAN]
    BY <1>1 DEF ContextShapes
  <2>2. e \notin DOMAIN contexts => w[e] = new /\ Resolves(sample.mtype)
    BY <1>1, <1>4
  <2> QED
    BY <1>2, <2>1, <2>2
<1>5. /\ DOMAIN w = DOMAIN contexts \cup {c} /\ \A e \in DOMAIN contexts : w[e] = contexts[e]
      /\ c \notin DOMAIN contexts => w[c].class = ClassOf(sample)
  BY <1>1, <1>3
<1> QED
  BY <1>4, <1>5 DEF w, ContextShapes

LEMMA SubmitKeeps ==
    ASSUME DogstatsdInductive, UNCHANGED traffic, submit_metric
    PROVE  DogstatsdInductive'
<1>1. parsed_packets # <<>> /\ UNCHANGED <<traffic, received, forwarded>> /\ DogstatsdShapes
  BY DEF submit_metric, DogstatsdInductive
<1>2. loop = "lines"
  BY <1>1 DEF DogstatsdShapes
<1> DEFINE d == Last(received)
<1>3. PICK k \in 0 .. Len(d) :
        /\ packets = [i \in 1 .. Len(d) - k |-> TextOf(d[i + k])]
        /\ \A j \in 1 .. k : TextOf(d[j]) # <<>> => Parsed(TextOf(d[j])) # None
        /\ parsed_packets \in Seq(Submissions) /\ \A x \in Range(parsed_packets) : x.call = "metric"
        /\ Last(calls) \in Seq(Submissions)
        /\ Last(calls) \o parsed_packets = Firsts(Given(d), k)
        /\ IsPrefix(Firsts(Given(d), k), FlattenSeq(Given(d))) /\ FlattenSeq(Given(d)) \in Seq(Submissions)
  BY <1>2, AtLine
<1>4. d = Last(received')
  BY <1>1
<1>5. Len(received) \in Nat \ {0} /\ Last(calls) = calls[Len(received)] /\ d = received[Len(received)]
  BY <1>1, <1>2, LastDatagram
<1> DEFINE due == FlattenSeq(Given(d))
<1>6. Traffic[traffic].utf8 /\ Due(d) = due /\ Due(received[Len(received)])' = due
  <2>1. Traffic[traffic].utf8 /\ Decodes(d)
    BY <1>1, <1>2 DEF DogstatsdInductive, ReadsOnly
  <2> QED
    BY <1>1, <1>5, <2>1 DEF Due, Readable
<1> HIDE DEF d
<1>7. PICK sample : sample = Head(parsed_packets)
  OBVIOUS
<1> DEFINE c == ContextOf(sample)
           with == WithContext(sample)
<1>8. /\ sample \in Submissions /\ sample.call = "metric" /\ Tail(parsed_packets) \in Seq(Submissions)
      /\ \A x \in Range(Tail(parsed_packets)) : x.call = "metric"
      /\ Append(Last(calls), sample) \o Tail(parsed_packets) = Last(calls) \o parsed_packets
  <2> DEFINE s == parsed_packets
             t == Tail(s)
  <2>1. s \in Seq(Submissions) /\ s # <<>>
    BY <1>1, <1>3
  <2>2. /\ sample = s[1] /\ 1 \in 1 .. Len(s) /\ sample \in Submissions /\ t \in Seq(Submissions)
        /\ Len(t) = Len(s) - 1 /\ \A i \in 1 .. Len(t) : t[i] = s[i + 1]
    BY <1>7, <2>1, HeadTailProperties, EmptySeq
  <2>3. sample \in Range(s) /\ Range(t) \subseteq Range(s)
    <3>1. \A i \in 1 .. Len(s) : s[i] \in Range(s)
      BY <2>1, RangeEquality
    <3>2. \A i \in 1 .. Len(t) : i + 1 \in 1 .. Len(s)
      BY <2>1, <2>2
    <3>3. Range(t) = {t[i] : i \in 1 .. Len(t)}
      BY <2>2, RangeEquality
    <3> HIDE DEF t
    <3> QED
      BY <2>2, <3>1, <3>2, <3>3
  <2>4. s = <<sample>> \o t
    <3> DEFINE a == sample
    <3>1. <<a>> \in Seq(Submissions) /\ Len(<<a>>) = 1 /\ <<a>>[1] = a
      BY <2>2
    <3>2. Len(<<a>> \o t) = Len(s) /\ <<a>> \o t \in Seq(Submissions)
          /\ \A i \in 1 .. Len(s) : (<<a>> \o t)[i] = IF i <= 1 THEN <<a>>[i] ELSE t[i - 1]
      <4> HIDE DEF a, t
      <4>1. /\ <<a>> \o t \in Seq(Submissions) /\ Len(<<a>> \o t) = Len(<<a>>) + Len(t)
            /\ \A i \in 1 .. Len(<<a>>) + Len(t) : (<<a>> \o t)[i] = IF i <= Len(<<a>>) THEN <<a>>[i] ELSE t[i - Len(<<a>>)]
        BY <2>2, <3>1, ConcatProperties
      <4> QED
        BY <2>1, <2>2, <3>1, <4>1
    <3>3. \A i \in 1 .. Len(s) : (<<a>> \o t)[i] = s[i]
      <4> TAKE i \in 1 .. Len(s)
      <4>1. CASE i = 1
        BY <2>2, <3>1, <3>2, <4>1
      <4>2. CASE i # 1
        <5>1. i - 1 \in 1 .. Len(t) /\ ~(i <= 1) /\ (i - 1) + 1 = i
          BY <2>1, <2>2, <4>2
        <5> HIDE DEF a, t
        <5> QED
          BY <2>2, <3>2, <5>1
      <4> QED
        BY <4>1, <4>2
    <3> HIDE DEF a, t
    <3>4. <<a>> \o t = s
      BY <2>1, <3>2, <3>3, SeqEqual
    <3> QED
      BY <3>4 DEF a
  <2>5. Append(Last(calls), sample) \o t = Last(calls) \o (<<sample>> \o t)
    <3> DEFINE a == sample
               l == Last(calls)
    <3>1. a \in Submissions /\ <<a>> \in Seq(Submissions) /\ l \in Seq(Submissions) /\ t \in Seq(Submissions)
      BY <1>3, <2>2
    <3> HIDE DEF a, t, l
    <3>2. Append(l, a) = l \o <<a>>
      BY <3>1, AppendIsConcat
    <3>3. (l \o <<a>>) \o t = l \o (<<a>> \o t)
      BY <3>1, ConcatAssociative
    <3> QED
      BY <3>2, <3>3 DEF a, l
  <2> QED
    BY <1>3, <2>2, <2>3, <2>4, <2>5
<1>9. ContextShapes(contexts)
  BY <1>1 DEF DogstatsdShapes, ContextShapes
<1>10. c \in DOMAIN contexts \/ Resolves(sample.mtype) =>
        /\ ContextShapes(with) /\ DOMAIN with = DOMAIN contexts \cup {c}
        /\ \A e \in DOMAIN contexts : with[e] = contexts[e]
        /\ c \notin DOMAIN contexts => with[c].class = ClassOf(sample)
  BY <1>9, WithContextShape
\* The sample is what the datagram should give next.
<1>11. IsPrefix(Last(calls), due) /\ due[Len(Last(calls)) + 1] = sample /\ sample \in ToSet(due)
  <2> DEFINE l == Last(calls)
  <2>1. l \in Seq(Submissions) /\ due \in Seq(Submissions) /\ IsPrefix(l \o parsed_packets, due)
    BY <1>3
  <2> HIDE DEF l, due
  <2>2. IsPrefix(l, due) /\ due[Len(l) + 1] = sample
    BY <1>1, <1>3, <1>7, <2>1, PrefixOfConcat
  <2>3. sample \in ToSet(due)
    <3>1. Len(l \o parsed_packets) <= Len(due)
      BY <2>1 DEF IsPrefix
    <3>2. Len(l \o parsed_packets) = Len(l) + Len(parsed_packets) /\ Len(l) \in Nat /\ Len(parsed_packets) \in Nat \ {0}
      <4>1. Len(parsed_packets) # 0
        BY <1>1, <1>3, EmptySeq
      <4> QED
        BY <1>3, <2>1, <4>1, ConcatProperties
    <3>3. Len(l) + 1 \in 1 .. Len(due) /\ DOMAIN due = 1 .. Len(due)
      BY <2>1, <3>1, <3>2
    <3> QED
      BY <2>2, <3>3 DEF ToSet
  <2> QED
    BY <2>2, <2>3 DEF l
<1> HIDE DEF due
\* The metrics of the contexts were made by this sample or one before it.
<1>12. ASSUME c \in DOMAIN contexts \/ Resolves(sample.mtype), NEW e \in DOMAIN with,
              NEW class, class = with[e].class
       PROVE  Made(Len(received), e, class)'
  <2>1. PICK n : n = Len(received) /\ n = Len(received') /\ n \in 1 .. n
    BY <1>1, <1>5
  <2>2. Made(n, e, class)'
    <3>1. CASE e \in DOMAIN contexts
      <4>1. Made(n, e, class)
        BY <1>10, <1>12, <2>1, <3>1 DEF DogstatsdInductive, Sources
      <4> QED
        BY <1>1, <4>1 DEF Made, Due, Readable
    <3>2. CASE e \notin DOMAIN contexts
      <4>1. e = c /\ class = ClassOf(sample) /\ Resolves(sample.mtype)
        BY <1>10, <1>12, <3>2
      <4>2. sample \in ToSet(Due(received[n])')
        BY <1>6, <1>11, <2>1
      <4> QED
        BY <1>8, <2>1, <4>1, <4>2 DEF Made
    <3> QED
      BY <3>1, <3>2
  <2> QED
    BY <2>1, <2>2 DEF Made
\* The sample is refused.
<1>13. ASSUME Raised, UNCHANGED <<counts, calls>>, ContextShapes(contexts'), Sources',
              Unsubmittable(Len(received), sample)'
      PROVE  DogstatsdInductive'
  <2>1. loop' = "select" /\ packets' = <<>> /\ parsed_packets' = <<>>
    BY <1>13 DEF Raised
  <2>2. DogstatsdShapes'
    BY <1>1, <1>13, <2>1 DEF DogstatsdShapes, ContextShapes
  <2>3. Halfway' /\ ReadsOnly'
    BY <2>1 DEF Halfway, ReadsOnly
  <2>4. Done(Len(received))'
    <3>1. PICK n, a, b : n = Len(received) /\ a = Last(calls) /\ b = due
      OBVIOUS
    <3>2. Unsubmittable(n, sample)'
      BY <1>1, <1>13, <3>1 DEF Unsubmittable
    <3>3. IsPrefix(a, b) /\ b[Len(a) + 1] = sample
      BY <1>11, <3>1
    <3>4. a = calls'[n] /\ b = Due(received[n])' /\ n = Len(received')
      BY <1>1, <1>5, <1>13, <1>6, <3>1
    <3> QED
      BY <3>2, <3>3, <3>4 DEF Done, Ends
  <2>5. AllDone'
    BY <1>1, <1>2, <1>13, <2>4, LastIsDone
  <2> QED
    BY <1>13, <2>2, <2>3, <2>5 DEF DogstatsdInductive
<1>14. CASE c \notin DOMAIN contexts /\ ~Resolves(sample.mtype)
  <2>1. Raised /\ UNCHANGED <<contexts, counts, calls>>
    BY <1>14, <1>7 DEF submit_metric
  <2>2. Sources' /\ ContextShapes(contexts')
    BY <1>1, <1>9, <2>1, SourcesStay
  <2>3. Unsubmittable(Len(received), sample)'
    BY <1>8, <1>14, <2>1 DEF Unsubmittable, Resolves
  <2> QED
    BY <1>13, <2>1, <2>2, <2>3
<1>15. CASE (c \in DOMAIN contexts \/ Resolves(sample.mtype)) /\ SampleRaises(with[c].class, sample)
  <2>1. Raised /\ contexts' = with /\ UNCHANGED <<counts, calls>>
    BY <1>15, <1>7 DEF submit_metric
  <2>2. Sources' /\ ContextShapes(contexts')
    <3>1. ASSUME NEW e \in DOMAIN contexts' PROVE Made(Len(received), e, contexts[e].class)'
      <4>1. PICK class : class = with[e].class /\ class = contexts'[e].class
        BY <2>1
      <4>2. Made(Len(received), e, class)'
        BY <1>12, <1>15, <2>1, <4>1
      <4> QED
        BY <4>1, <4>2 DEF Made
    <3> QED
      BY <1>10, <1>15, <2>1, <3>1 DEF Sources
  <2>3. Unsubmittable(Len(received), sample)'
    <3>1. PICK class : class = with[c].class /\ SampleRaises(class, sample)
      BY <1>15
    <3>2. Made(Len(received), c, class)'
      BY <1>10, <1>12, <1>15, <3>1
    <3>3. PICK e : e = c
      OBVIOUS
    <3>4. Made(Len(received), e, class)'
      BY <3>2, <3>3
    <3> QED
      BY <1>8, <3>1, <3>3, <3>4 DEF Unsubmittable, Made
  <2> QED
    BY <1>13, <2>1, <2>2, <2>3
<1>16. CASE (c \in DOMAIN contexts \/ Resolves(sample.mtype)) /\ ~SampleRaises(with[c].class, sample)
  <2>1. /\ contexts' = [with EXCEPT ![c].text = @ \/ (IsText(sample) /\ with[c].class # "Set")]
        /\ counts' = [counts EXCEPT !.metric = @ + 1]
        /\ Submitted(sample)
        /\ parsed_packets' = Tail(parsed_packets)
        /\ UNCHANGED <<loop, packets>>
    BY <1>16, <1>7 DEF submit_metric
  <2>2. Sources' /\ ContextShapes(contexts')
    <3> DEFINE w == with
               e == c
    <3>1. /\ ContextShapes(w) /\ DOMAIN w = DOMAIN contexts \cup {e} /\ e \in DOMAIN w
          /\ \A f \in DOMAIN contexts : w[f] = contexts[f]
      BY <1>10, <1>16
    <3>2. PICK b : contexts' = [w EXCEPT ![e] = [w[e] EXCEPT !.text = w[e].text \/ b]] /\ b \in BOOLEAN
      <4>1. (IsText(sample) /\ with[c].class # "Set") \in BOOLEAN
        BY DEF IsText
      <4> QED
        BY <2>1, <4>1
    <3> HIDE DEF w, e
    <3>3. w[e] \in [class : Classes, text : BOOLEAN]
      BY <3>1 DEF ContextShapes
    <3>4. [w[e] EXCEPT !.text = w[e].text \/ b] \in [class : Classes, text : BOOLEAN]
          /\ [w[e] EXCEPT !.text = w[e].text \/ b].class = w[e].class
      BY <3>2, <3>3
    <3>5. \A f \in DOMAIN w : contexts'[f] = IF f = e THEN [w[e] EXCEPT !.text = w[e].text \/ b] ELSE w[f]
      BY <3>2
    <3>6. DOMAIN contexts' = DOMAIN w
      BY <3>2
    <3>7. ContextShapes(contexts')
      BY <3>1, <3>4, <3>5, <3>6 DEF ContextShapes
    <3>8. \A f \in DOMAIN w : f \in DOMAIN contexts' /\ contexts'[f].class = w[f].class
      BY <3>4, <3>5, <3>6
    <3>9. Sources'
      <4>1. ASSUME NEW f \in DOMAIN contexts' PROVE Made(Len(received), f, contexts[f].class)'
        <5>1. PICK class : f \in DOMAIN w /\ class = w[f].class /\ class = contexts'[f].class
          BY <3>6, <3>8
        <5>2. Made(Len(received), f, class)'
          BY <1>12, <1>16, <5>1 DEF w
        <5> QED
          BY <5>1, <5>2 DEF Made
      <4> QED
        BY <4>1 DEF Sources
    <3> QED
      BY <3>7, <3>9
  <2>3. /\ calls' \in Seq(Seq(Submissions)) /\ Len(calls') = Len(calls)
        /\ \A n \in DOMAIN calls : n # Len(calls) => calls'[n] = calls[n]
        /\ Last(calls') = Append(Last(calls), sample)
    <3>1. /\ calls' \in Seq(Seq(Submissions)) /\ Len(calls') = Len(calls)
          /\ \A n \in DOMAIN calls : n # Len(calls) => calls'[n] = calls[n]
          /\ calls'[Len(calls)] = Append(Last(calls), sample)
      BY <1>1, <1>2, <1>8, <2>1, CallAdded
    <3> QED
      BY <3>1 DEF Last
  <2>4. counts' \in [{"packet", "metric", "event", "sc"} -> Nat]
    <3>1. counts \in [{"packet", "metric", "event", "sc"} -> Nat] /\ counts' = [counts EXCEPT !["metric"] = counts["metric"] + 1]
      BY <1>1, <2>1 DEF DogstatsdShapes
    <3> QED
      BY <3>1
  <2>5. DogstatsdShapes'
    BY <1>1, <1>2, <2>1, <2>2, <2>3, <2>4 DEF DogstatsdShapes, ContextShapes
  <2>6. Halfway'
    <3>1. Last(calls') \o parsed_packets' = Firsts(Given(d), k)
      BY <1>3, <1>8, <2>1, <2>3
    <3>2. packets' = [i \in 1 .. Len(d) - k |-> TextOf(d[i + k])]
      BY <1>3, <2>1
    <3>3. \A j \in 1 .. k : TextOf(d[j]) # <<>> => Parsed(TextOf(d[j])) # None
      BY <1>3
    <3>4. parsed_packets' \in Seq(Submissions) /\ \A x \in Range(parsed_packets') : x.call = "metric"
      BY <1>8, <2>1
    <3> QED
      BY <1>4, <3>1, <3>2, <3>3, <3>4 DEF Halfway
  <2>7. AllDone'
    BY <1>1, <1>2, <2>1, <2>3, LastIsDone
  <2>8. ReadsOnly'
    BY <1>1, <1>2, <1>6 DEF DogstatsdInductive, ReadsOnly, Decodes
  <2> QED
    BY <2>2, <2>5, <2>6, <2>7, <2>8 DEF DogstatsdInductive
<1> QED
  BY <1>14, <1>15, <1>16

\* Where nothing is received or submitted, and the server is at no line.
LEMMA AllStayDone ==
    ASSUME DogstatsdShapes, AllDone, loop # "lines", UNCHANGED <<traffic, received, calls>>
    PROVE  AllDone'
<1>1. received \in Seq(Datagrams) /\ DueStays
  BY ReceivedShape DEF DueStays
<1>2. ASSUME NEW n \in DOMAIN received PROVE Done(n)'
  <2>1. Done(n)
    BY DEF AllDone
  <2> QED
    BY <1>1, <2>1, DoneForGood
<1> QED
  BY <1>2 DEF AllDone

\* End, and the forwarding of the datagram.
LEMMA EndKeeps ==
    ASSUME DogstatsdInductive, UNCHANGED traffic, End \/ Send
    PROVE  DogstatsdInductive'
<1>1. DogstatsdShapes /\ UNCHANGED <<traffic, packets, parsed_packets, contexts, counts, received, calls>>
  BY DEF DogstatsdInductive, End, Send
<1>2. Sources'
  BY <1>1, SourcesStay
<1>3. CASE End
  <2>1. loop = "lines" /\ packets = <<>> /\ parsed_packets = <<>> /\ loop' \in {"send", "select"} /\ UNCHANGED forwarded
    BY <1>3 DEF End
  <2>2. DogstatsdShapes'
    BY <1>1, <2>1 DEF DogstatsdShapes
  <2>3. Halfway' /\ ReadsOnly'
    BY <2>1 DEF Halfway, ReadsOnly
  <2> DEFINE d == Last(received)
             l == Last(calls)
             g == Given(d)
  <2>4. PICK k \in 0 .. Len(d) :
          /\ l \in Seq(Submissions) /\ l \o parsed_packets = Firsts(g, k)
          /\ g \in Seq(Seq(Submissions)) /\ Len(g) = Len(d)
          /\ packets = <<>> <=> k = Len(d)
    BY <2>1, AtLine
  <2>5. calls[Len(received)] = l /\ received[Len(received)] = d
    BY <1>1, <2>1, LastDatagram
  <2>6. l = FlattenSeq(g) /\ IsPrefix(l, l)
    <3>1. l \o <<>> = l /\ IsPrefix(l, l)
      <4> HIDE DEF l
      <4> QED
        BY <2>4, ConcatEmptySeq, PrefixOfConcat
    <3>2. Firsts(g, Len(g)) = FlattenSeq(g)
      <4> HIDE DEF g
      <4> QED
        BY <2>4, FirstsEnds
    <3> QED
      BY <2>1, <2>4, <3>1, <3>2
  <2>7. Done(Len(received))'
    <3>1. (Traffic[traffic].utf8 => Decodes(d)) /\ (~Traffic[traffic].utf8 => l = <<>>)
      BY <2>1 DEF DogstatsdInductive, ReadsOnly
    <3>2. Due(received[Len(received)])' = l
      BY <1>1, <2>5, <2>6, <3>1 DEF Due, Readable
    <3>3. calls'[Len(received')] = l
      BY <1>1, <2>5
    <3> QED
      BY <2>6, <3>2, <3>3 DEF Done, Ends
  <2>8. AllDone'
    BY <1>1, <2>1, <2>7, LastIsDone
  <2> QED
    BY <1>2, <2>2, <2>3, <2>8 DEF DogstatsdInductive
<1>4. CASE Send
  <2>1. loop = "send" /\ loop' \in {"select", "ended"} /\ (forwarded' = forwarded \/ forwarded' = Append(forwarded, Last(received)))
    BY <1>4 DEF Send
  <2>2. DogstatsdShapes'
    <3>1. Last(received) \in Traffic[traffic].datagrams
      <4>1. Len(received) \in DOMAIN received /\ Last(received) = received[Len(received)]
        BY <1>1, <2>1, LastDatagram
      <4> QED
        BY <1>1, <4>1 DEF DogstatsdShapes
    <3>2. /\ forwarded \in Seq(Traffic[traffic].datagrams) /\ Len(forwarded) < Len(received)
          /\ Len(received) \in Nat
      BY <1>1, <2>1 DEF DogstatsdShapes
    <3>3. forwarded' \in Seq(Traffic[traffic].datagrams) /\ Len(forwarded') <= Len(received)
      <4> DEFINE S == Traffic[traffic].datagrams
                 e == Last(received)
      <4>1. Append(forwarded, e) \in Seq(S) /\ Len(Append(forwarded, e)) = Len(forwarded) + 1
        <5>1. e \in S /\ forwarded \in Seq(S)
          BY <3>1, <3>2
        <5> HIDE DEF S, e
        <5> QED
          BY <5>1, AppendProperties
      <4>2. Len(forwarded) \in Nat /\ Len(forwarded) + 1 <= Len(received)
        BY <3>2
      <4>3. CASE forwarded' = forwarded
        BY <3>2, <4>3
      <4>4. CASE forwarded' = Append(forwarded, e)
        <5> HIDE DEF S, e
        <5>1. forwarded' \in Seq(S) /\ Len(forwarded') <= Len(received)
          BY <4>1, <4>2, <4>4
        <5> QED
          BY <5>1 DEF S
      <4> QED
        BY <2>1, <4>3, <4>4
    <3> QED
      BY <1>1, <2>1, <3>3 DEF DogstatsdShapes
  <2>3. Halfway' /\ ReadsOnly'
    BY <2>1 DEF Halfway, ReadsOnly
  <2>4. AllDone'
    BY <1>1, <2>1, AllStayDone DEF DogstatsdInductive
  <2> QED
    BY <1>2, <2>2, <2>3, <2>4 DEF DogstatsdInductive
<1> QED
  BY <1>3, <1>4

LEMMA NewBucketKeeps ==
    ASSUME DogstatsdInductive, UNCHANGED traffic, NewBucket
    PROVE  DogstatsdInductive'
<1>1. /\ UNCHANGED <<traffic, loop, packets, parsed_packets, counts, received, calls, forwarded>>
      /\ contexts' = <<>> /\ DogstatsdShapes
  BY DEF NewBucket, DogstatsdInductive
<1>2. DogstatsdShapes'
  BY <1>1 DEF DogstatsdShapes
<1>3. Halfway' /\ ReadsOnly'
  BY <1>1 DEF DogstatsdInductive, Halfway, ReadsOnly, Decodes
<1>4. AllDone'
  BY <1>1 DEF DogstatsdInductive, AllDone, Done, Ends, Unsubmittable, Due, Readable
<1>5. Sources'
  BY <1>1, SourcesStay
<1> QED
  BY <1>2, <1>3, <1>5, <1>4 DEF DogstatsdInductive

LEMMA ReceiveRaisesKeeps ==
    ASSUME DogstatsdInductive, UNCHANGED traffic, ReceiveRaises
    PROVE  DogstatsdInductive'
<1>1. /\ UNCHANGED <<traffic, packets, parsed_packets, contexts, counts, received, calls, forwarded>>
      /\ loop = "select" /\ loop' = "ended" /\ DogstatsdShapes
  BY DEF ReceiveRaises, DogstatsdInductive
<1>2. DogstatsdShapes' /\ Halfway' /\ ReadsOnly'
  BY <1>1 DEF DogstatsdShapes, Halfway, ReadsOnly
<1>3. Sources' /\ AllDone'
  BY <1>1, SourcesStay, AllStayDone DEF DogstatsdInductive
<1> QED
  BY <1>2, <1>3 DEF DogstatsdInductive

LEMMA DogstatsdMoves == DogstatsdInductive /\ [DogstatsdNext]_dogstatsdVars => DogstatsdInductive'
<1> SUFFICES ASSUME DogstatsdInductive, [DogstatsdNext]_dogstatsdVars PROVE DogstatsdInductive'
  OBVIOUS
<1>1. CASE UNCHANGED dogstatsdVars
  <2>1. UNCHANGED <<traffic, loop, packets, parsed_packets, contexts, counts, received, calls, forwarded>>
    BY <1>1 DEF dogstatsdVars
  <2>2. DogstatsdShapes' /\ Halfway' /\ ReadsOnly'
    BY <2>1 DEF DogstatsdInductive, DogstatsdShapes, Halfway, ReadsOnly, Decodes
  <2>3. AllDone'
    BY <2>1 DEF DogstatsdInductive, AllDone, Done, Ends, Unsubmittable, Due, Readable
  <2> QED
    BY <2>1, <2>2, <2>3, SourcesStay DEF DogstatsdInductive
<1>2. CASE DogstatsdNext
  BY <1>2, RecvKeeps, LineKeeps, NewBucketKeeps, SubmitKeeps, EndKeeps, ReceiveRaisesKeeps DEF DogstatsdNext
<1> QED
  BY <1>1, <1>2

-----------------------------------------------------------------------------
(***************************************************************************)
(* The counts.                                                             *)
(***************************************************************************)
\* The places of the calls of a kind.
CallPlaces(cs, c) == {p \in UNION {{n} \X DOMAIN cs[n] : n \in DOMAIN cs} : cs[p[1]][p[2]].call = c}

LEMMA CallsAreAtPlaces == \A c : CallsOf(c) = CallPlaces(calls, c)
  BY DEF CallsOf, CallPlaces

AddsCall(cs, ds, x, c) ==
    /\ x.call # c => CallPlaces(ds, c) = CallPlaces(cs, c)
    /\ x.call = c => \E p : p \notin CallPlaces(cs, c) /\ CallPlaces(ds, c) = CallPlaces(cs, c) \cup {p}

LastHas(cs, ds, x) ==
    /\ Len(ds) = Len(cs) /\ ds[Len(cs)] = Append(cs[Len(cs)], x)
    /\ \A n \in DOMAIN cs : n # Len(cs) => ds[n] = cs[n]

\* A call more is a place more for its kind.
LEMMA PlaceAdded ==
    ASSUME NEW cs \in Seq(Seq(Submissions)), Len(cs) # 0, NEW x \in Submissions, NEW c,
           NEW ds \in Seq(Seq(Submissions)), LastHas(cs, ds, x)
    PROVE  AddsCall(cs, ds, x, c)
<1>1. /\ Len(ds) = Len(cs) /\ ds[Len(cs)] = Append(cs[Len(cs)], x)
       /\ \A n \in DOMAIN cs : n # Len(cs) => ds[n] = cs[n]
  BY DEF LastHas
<1> DEFINE N == Len(cs)
           m == Len(cs[N])
           p == <<N, m + 1>>
<1>2. N \in DOMAIN cs /\ DOMAIN ds = DOMAIN cs /\ cs[N] \in Seq(Submissions)
  BY <1>1, LenProperties
<1>3. /\ m \in Nat /\ DOMAIN cs[N] = 1 .. m /\ DOMAIN ds[N] = 1 .. m + 1
      /\ ds[N][m + 1] = x /\ \A i \in 1 .. m : ds[N][i] = cs[N][i]
  <2> DEFINE s == cs[N]
  <2>1. s \in Seq(Submissions) /\ ds[N] = Append(s, x)
    BY <1>2, <1>1
  <2> HIDE DEF s
  <2>2. /\ Len(s) \in Nat /\ DOMAIN s = 1 .. Len(s) /\ Append(s, x) \in Seq(Submissions)
        /\ Len(Append(s, x)) = Len(s) + 1 /\ \A i \in 1 .. Len(s) : Append(s, x)[i] = s[i]
        /\ Append(s, x)[Len(s) + 1] = x
    BY <2>1, AppendProperties
  <2> QED
    BY <2>1, <2>2 DEF s
<1>4. \A q, e : q \in CallPlaces(cs, e) <=>
        \E n \in DOMAIN cs : \E i \in DOMAIN cs[n] : q = <<n, i>> /\ cs[n][i].call = e
  BY DEF CallPlaces
<1>5. \A q, e : q \in CallPlaces(ds, e) <=>
        \E n \in DOMAIN ds : \E i \in DOMAIN ds[n] : q = <<n, i>> /\ ds[n][i].call = e
  BY DEF CallPlaces
<1> HIDE DEF N, m
<1>6. p \notin CallPlaces(cs, c)
  <2>1. m + 1 \notin 1 .. m
    BY <1>3
  <2> QED
    BY <1>3, <1>4, <2>1
<1>7. \A q \in CallPlaces(cs, c) : q \in CallPlaces(ds, c)
  <2> SUFFICES ASSUME NEW n \in DOMAIN cs, NEW i \in DOMAIN cs[n], cs[n][i].call = c
               PROVE  <<n, i>> \in CallPlaces(ds, c)
    BY <1>4
  <2>1. i \in DOMAIN ds[n] /\ ds[n][i] = cs[n][i]
    <3>1. CASE n = N
      <4>1. i \in 1 .. m /\ i \in 1 .. m + 1
        BY <1>3, <3>1
      <4> QED
        BY <1>3, <3>1, <4>1
    <3>2. CASE n # N
      BY <1>1, <3>2 DEF N
    <3> QED
      BY <3>1, <3>2
  <2> QED
    BY <1>2, <1>5, <2>1
<1>8. \A q \in CallPlaces(ds, c) : q \in CallPlaces(cs, c) \/ (q = p /\ x.call = c)
  <2> SUFFICES ASSUME NEW n \in DOMAIN ds, NEW i \in DOMAIN ds[n], ds[n][i].call = c
               PROVE  <<n, i>> \in CallPlaces(cs, c) \/ (<<n, i>> = p /\ x.call = c)
    BY <1>5
  <2>1. CASE n = N /\ i = m + 1
    BY <1>3, <2>1
  <2>2. CASE n = N /\ i # m + 1
    <3>1. i \in 1 .. m
      BY <1>3, <2>2
    <3> QED
      BY <1>2, <1>3, <1>4, <2>2, <3>1
  <2>3. CASE n # N
    BY <1>2, <1>4, <1>1, <2>3 DEF N
  <2> QED
    BY <2>1, <2>2, <2>3
<1>9. x.call = c => p \in CallPlaces(ds, c)
  <2>1. m + 1 \in 1 .. m + 1
    BY <1>3
  <2> QED
    BY <1>2, <1>3, <1>5, <2>1
<1> HIDE DEF p
<1>10. x.call = c => CallPlaces(ds, c) = CallPlaces(cs, c) \cup {p}
  BY <1>7, <1>8, <1>9
<1>11. x.call # c => CallPlaces(ds, c) = CallPlaces(cs, c)
  BY <1>7, <1>8
<1> QED
  BY <1>6, <1>10, <1>11 DEF AddsCall

\* A datagram more is none.
LEMMA NoPlaceAdded ==
    ASSUME NEW cs \in Seq(Seq(Submissions)), NEW c
    PROVE  CallPlaces(Append(cs, <<>>), c) = CallPlaces(cs, c)
<1> DEFINE ds == Append(cs, <<>>)
<1>1. /\ Len(cs) \in Nat /\ DOMAIN cs = 1 .. Len(cs) /\ DOMAIN ds = 1 .. Len(cs) + 1
      /\ ds[Len(cs) + 1] = <<>> /\ \A n \in 1 .. Len(cs) : ds[n] = cs[n]
  <2>1. <<>> \in Seq(Submissions)
    OBVIOUS
  <2> QED
    BY <2>1, AppendProperties, LenProperties
<1> HIDE DEF ds
<1>2. DOMAIN ds[Len(cs) + 1] = {}
  BY <1>1
<1>3. \A q, e : q \in CallPlaces(cs, e) <=>
        \E n \in DOMAIN cs : \E i \in DOMAIN cs[n] : q = <<n, i>> /\ cs[n][i].call = e
  BY DEF CallPlaces
<1>4. \A q, e : q \in CallPlaces(ds, e) <=>
        \E n \in DOMAIN ds : \E i \in DOMAIN ds[n] : q = <<n, i>> /\ ds[n][i].call = e
  BY DEF CallPlaces
<1>5. \A n \in DOMAIN ds : (n \in DOMAIN cs /\ ds[n] = cs[n]) \/ n = Len(cs) + 1
  BY <1>1
<1>6. \A n \in DOMAIN cs : n \in DOMAIN ds
  BY <1>1
<1>7. \A q : q \in CallPlaces(ds, c) <=> q \in CallPlaces(cs, c)
  BY <1>1, <1>2, <1>3, <1>4, <1>5, <1>6
<1> QED
  BY <1>7 DEF ds

Counting ==
    /\ \A c \in {"metric", "event", "sc"} : IsFiniteSet(CallsOf(c)) /\ counts[c] = Cardinality(CallsOf(c))
    /\ counts["event"] + counts["sc"] <= counts["packet"]

\* A call is submitted and counted.
LEMMA CallCounted ==
    ASSUME DogstatsdShapes, Counting, loop = "lines", NEW x \in Submissions, Submitted(x),
           \A c \in {"metric", "event", "sc"} : counts'[c] = IF x.call = c THEN counts[c] + 1 ELSE counts[c]
    PROVE  \A c \in {"metric", "event", "sc"} : IsFiniteSet(CallsOf(c))' /\ counts'[c] = Cardinality(CallsOf(c))'
<1> TAKE c \in {"metric", "event", "sc"}
<1>1. /\ calls \in Seq(Seq(Submissions)) /\ Len(calls) # 0 /\ Last(calls) = calls[Len(calls)]
      /\ calls' \in Seq(Seq(Submissions)) /\ Len(calls') = Len(calls)
      /\ \A n \in DOMAIN calls : n # Len(calls) => calls'[n] = calls[n]
      /\ calls'[Len(calls)] = Append(Last(calls), x)
  BY LastDatagram, CallAdded DEF DogstatsdShapes
<1>2. AddsCall(calls, calls', x, c)
  <2> DEFINE ds == calls'
  <2>1. ds \in Seq(Seq(Submissions)) /\ LastHas(calls, ds, x)
    BY <1>1 DEF LastHas
  <2> HIDE DEF ds
  <2>2. AddsCall(calls, ds, x, c)
    BY <1>1, <2>1, PlaceAdded
  <2> QED
    BY <2>2 DEF ds
<1>3. IsFiniteSet(CallPlaces(calls, c)) /\ counts[c] = Cardinality(CallPlaces(calls, c))
  BY CallsAreAtPlaces DEF Counting
<1>4. IsFiniteSet(CallPlaces(calls', c)) /\ counts'[c] = Cardinality(CallPlaces(calls', c))
  BY <1>2, <1>3, FS_AddElement DEF AddsCall
<1>5. CallsOf(c)' = CallPlaces(calls', c)
  BY DEF CallsOf, CallPlaces
<1> QED
  BY <1>4, <1>5

\* The call of a line that is no metric.
LEMMA LineSubmits ==
    ASSUME DogstatsdInductive, Line, Head(packets) # <<>>, Parses(Head(packets)), Kind(Head(packets)) # "metric"
    PROVE  \E x \in Submissions : x.call = Kind(Head(packets)) /\ Submitted(x)
<1> DEFINE d == Last(received)
<1>1. loop = "lines" /\ packets # <<>>
  BY DEF Line
<1>2. PICK k \in 0 .. Len(d) :
        /\ d \in Datagrams /\ Len(d) \in Nat
        /\ \A j \in 1 .. k : TextOf(d[j]) # <<>> => Parsed(TextOf(d[j])) # None
        /\ Given(d) \in Seq(Seq(Submissions)) /\ Len(Given(d)) = Len(d)
        /\ packets = <<>> <=> k = Len(d)
        /\ k < Len(d) => Head(packets) = TextOf(d[k + 1])
  BY <1>1, AtLine
<1> HIDE DEF d
<1>3. PICK packet : packet = Head(packets)
  OBVIOUS
<1>4. k \in 0 .. Len(d) - 1 /\ packet = TextOf(d[k + 1])
  BY <1>1, <1>2, <1>3
<1>5. Given(d)[k + 1] = Parsed(packet) /\ k + 1 \in DOMAIN d /\ k + 1 \in 1 .. Len(Given(d))
  <2>1. TextOf(d[k + 1]) # <<>> /\ Parsed(TextOf(d[k + 1])) # None
    BY <1>3, <1>4 DEF Parses
  <2> QED
    BY <1>2, <1>4, <2>1, GivenNext
<1>6. packet \in Seq(Range(packet))
  BY <1>2, <1>4, <1>5, GivenShape
<1>7. Given(d)[k + 1] \in Seq(Submissions)
  <2> DEFINE g == Given(d)
             n == k + 1
  <2>1. g \in Seq(Seq(Submissions)) /\ n \in 1 .. Len(g)
    BY <1>2, <1>5
  <2> HIDE DEF g, n
  <2>2. g[n] \in Seq(Submissions)
    BY <2>1
  <2> QED
    BY <2>2 DEF g, n
<1> DEFINE s == Parsed(packet)
<1>8. s \in Seq(Submissions) /\ Len(s) = 1 /\ \A x \in Range(s) : x.call = Kind(packet)
  BY <1>3, <1>5, <1>6, <1>7, ParsedShape DEF Parses
<1>9. Submitted(s[1])
  BY <1>3 DEF Line
<1> HIDE DEF s
<1>10. s[1] \in Submissions /\ s[1] \in Range(s)
  BY <1>8, RangeEquality
<1> QED
  BY <1>3, <1>8, <1>9, <1>10

LEMMA CountingMoves == DogstatsdInductive /\ Counting /\ [DogstatsdNext]_dogstatsdVars => Counting'
<1> SUFFICES ASSUME DogstatsdInductive, Counting, [DogstatsdNext]_dogstatsdVars PROVE Counting'
  OBVIOUS
<1>1. /\ DogstatsdShapes /\ counts \in [{"packet", "metric", "event", "sc"} -> Nat]
      /\ calls \in Seq(Seq(Submissions))
  BY DEF DogstatsdInductive, DogstatsdShapes
<1> DEFINE Kinds == {"metric", "event", "sc"}
           Right(c) == IsFiniteSet(CallsOf(c))' /\ counts'[c] = Cardinality(CallsOf(c))'
<1>2. \A c \in Kinds : IsFiniteSet(CallsOf(c)) /\ counts[c] = Cardinality(CallsOf(c))
  BY DEF Counting
<1>3. counts["event"] + counts["sc"] <= counts["packet"]
  BY DEF Counting
<1>4. ASSUME UNCHANGED calls, \A c \in Kinds : counts'[c] = counts[c] PROVE \A c \in Kinds : Right(c)
  <2> TAKE c \in Kinds
  <2>1. CallsOf(c)' = CallPlaces(calls', c) /\ CallsOf(c) = CallPlaces(calls, c)
    BY DEF CallsOf, CallPlaces
  <2> QED
    BY <1>2, <1>4, <2>1
<1>5. CASE UNCHANGED <<counts, calls>>
  BY <1>3, <1>4, <1>5 DEF Counting
<1>6. ASSUME NEW d \in Traffic[traffic].datagrams, Recv(d) PROVE Counting'
  <2>1. calls' = Append(calls, <<>>) /\ UNCHANGED counts
    BY <1>6 DEF Recv
  <2>2. ASSUME NEW c \in Kinds PROVE Right(c)
    <3>1. CallPlaces(calls', c) = CallsOf(c)
      BY <1>1, <2>1, NoPlaceAdded, CallsAreAtPlaces
    <3>2. CallsOf(c)' = CallPlaces(calls', c)
      BY DEF CallsOf, CallPlaces
    <3> QED
      BY <1>2, <2>1, <3>1, <3>2
  <2> QED
    BY <1>3, <2>1, <2>2 DEF Counting
<1>7. CASE Line
  <2>1. loop = "lines"
    BY <1>7 DEF Line
  <2>2. PICK packet : packet = Head(packets)
    OBVIOUS
  <2>3. CASE packet = <<>>
    <3>1. UNCHANGED <<counts, calls>>
      BY <1>7, <2>2, <2>3 DEF Line
    <3> QED
      BY <1>5, <3>1
  <2>4. CASE packet # <<>>
    <3>1. counts' = Counted(packet)
      BY <1>7, <2>2, <2>4 DEF Line
    <3>2. /\ counts'["packet"] = counts["packet"] + 1 /\ counts'["metric"] = counts["metric"]
          /\ \A c \in {"event", "sc"} : counts'[c] =
                IF Kind(packet) = c /\ Parses(packet) THEN counts[c] + 1 ELSE counts[c]
      BY <1>1, <3>1, CountedShape
    <3>3. counts'["event"] + counts'["sc"] <= counts'["packet"]
      <4>1. counts["event"] \in Nat /\ counts["sc"] \in Nat /\ counts["packet"] \in Nat
        BY <1>1
      <4>2. ~(Kind(packet) = "event" /\ Kind(packet) = "sc")
        OBVIOUS
      <4> QED
        BY <1>3, <3>2, <4>1, <4>2
    <3>4. \A c \in Kinds : Right(c)
      <4>1. CASE ~Parses(packet) \/ Kind(packet) = "metric"
        <5>1. UNCHANGED calls
          BY <1>7, <2>2, <2>4, <4>1 DEF Line
        <5>2. \A c \in Kinds : counts'[c] = counts[c]
          BY <3>2, <4>1
        <5> QED
          BY <1>4, <5>1, <5>2
      <4>2. CASE Parses(packet) /\ Kind(packet) # "metric"
        <5>1. PICK x \in Submissions : x.call = Kind(packet) /\ Submitted(x)
          BY <1>7, <2>2, <2>4, <4>2, LineSubmits
        <5>2. \A c \in Kinds : counts'[c] = IF x.call = c THEN counts[c] + 1 ELSE counts[c]
          BY <3>2, <4>2, <5>1
        <5> QED
          BY <1>1, <2>1, <5>1, <5>2, CallCounted
      <4> QED
        BY <4>1, <4>2
    <3> QED
      BY <3>3, <3>4 DEF Counting
  <2> QED
    BY <2>3, <2>4
<1>8. CASE submit_metric
  <2>1. CASE UNCHANGED <<counts, calls>>
    BY <1>5, <2>1
  <2>2. CASE ~UNCHANGED <<counts, calls>>
    <3>1. /\ parsed_packets # <<>> /\ counts' = [counts EXCEPT !.metric = @ + 1]
          /\ Submitted(Head(parsed_packets))
      BY <1>8, <2>2 DEF submit_metric
    <3>2. loop = "lines"
      BY <1>1, <3>1 DEF DogstatsdShapes
    <3>3. PICK x : x = Head(parsed_packets)
      OBVIOUS
    <3>4. x \in Submissions /\ x.call = "metric"
      <4>1. parsed_packets \in Seq(Submissions) /\ \A y \in Range(parsed_packets) : y.call = "metric"
        BY <3>2, AtLine
      <4>2. Head(parsed_packets) \in Submissions /\ Head(parsed_packets) \in Range(parsed_packets)
        <5>1. 1 \in 1 .. Len(parsed_packets) /\ Head(parsed_packets) = parsed_packets[1]
          BY <3>1, <4>1, EmptySeq
        <5> QED
          BY <4>1, <5>1, RangeEquality
      <4> QED
        BY <3>3, <4>1, <4>2
    <3>5. /\ \A c \in Kinds : counts'[c] = IF x.call = c THEN counts[c] + 1 ELSE counts[c]
          /\ \A c \in {"event", "sc", "packet"} : counts'[c] = counts[c]
      BY <1>1, <3>1, <3>4
    <3>6. \A c \in Kinds : Right(c)
      BY <1>1, <3>1, <3>2, <3>3, <3>4, <3>5, CallCounted
    <3> QED
      BY <1>3, <3>5, <3>6 DEF Counting
  <2> QED
    BY <2>1, <2>2
<1>9. CASE End \/ Send \/ ReceiveRaises \/ NewBucket \/ UNCHANGED dogstatsdVars
  <2>1. UNCHANGED <<counts, calls>>
    BY <1>9 DEF End, Send, ReceiveRaises, NewBucket, dogstatsdVars
  <2> QED
    BY <1>5, <2>1
<1> QED
  BY <1>6, <1>7, <1>8, <1>9 DEF DogstatsdNext

LEMMA CountingInitially == DogstatsdInit => Counting
<1> SUFFICES ASSUME DogstatsdInit PROVE Counting
  OBVIOUS
<1>1. \A c : CallsOf(c) = {}
  BY DEF CallsOf, DogstatsdInit
<1>2. IsFiniteSet({}) /\ Cardinality({}) = 0
  BY FS_EmptySet
<1>3. counts["packet"] = 0 /\ \A c \in {"metric", "event", "sc"} : counts[c] = 0
  BY DEF DogstatsdInit
<1>4. \A c \in {"metric", "event", "sc"} : IsFiniteSet(CallsOf(c)) /\ counts[c] = Cardinality(CallsOf(c))
  BY <1>1, <1>2, <1>3
<1>5. counts["event"] + counts["sc"] <= counts["packet"]
  BY <1>3
<1> QED
  BY <1>4, <1>5 DEF Counting

LEMMA OrderKept == DogstatsdInductive => InOrder
<1> SUFFICES ASSUME DogstatsdInductive, NEW n \in DOMAIN received
             PROVE  LET due == Due(received[n])
                    IN  /\ IsPrefix(calls[n], due)
                        /\ \/ calls[n] = due
                           \/ n = Len(received) /\ loop = "lines"
                           \/ Unsubmittable(n, due[Len(calls[n]) + 1])
  BY DEF InOrder
<1>1. CASE Done(n)
  BY <1>1 DEF Done, Ends
<1>2. CASE n = Len(received) /\ loop = "lines"
  <2> DEFINE d == Last(received)
             l == Last(calls)
             g == FlattenSeq(Given(d))
  <2>1. calls[n] = l /\ received[n] = d
    BY <1>2, LastDatagram DEF DogstatsdInductive
  <2>2. PICK k \in 0 .. Len(d) :
          /\ l \in Seq(Submissions) /\ parsed_packets \in Seq(Submissions) /\ g \in Seq(Submissions)
          /\ l \o parsed_packets = Firsts(Given(d), k) /\ IsPrefix(Firsts(Given(d), k), g)
    BY <1>2, AtLine
  <2>3. IsPrefix(l \o parsed_packets, g)
    BY <2>2
  <2>4. IsPrefix(l, g) /\ IsPrefix(<<>>, <<>>)
    <3>1. <<>> \in Seq(Submissions)
      OBVIOUS
    <3> HIDE DEF l, g
    <3> QED
      BY <2>2, <2>3, <3>1, PrefixOfConcat
  <2>5. Due(d) = g \/ (l = <<>> /\ Due(d) = <<>>)
    BY <1>2 DEF DogstatsdInductive, ReadsOnly, Due, Readable
  <2> QED
    BY <1>2, <2>1, <2>4, <2>5
<1> QED
  BY <1>1, <1>2 DEF DogstatsdInductive, AllDone

\* The counts are those of what was submitted, and that is what the lines of the datagrams
\* in UTF-8 give, in order, up to a line or a sample that cannot be taken, and nothing of any
\* other datagram, whatever clients send and whatever buckets their samples come to.
THEOREM DogstatsdInvHolds == DogstatsdSpec => []DogstatsdInv
<1>1. DogstatsdInductive /\ Counting => DogstatsdInv
  <2> SUFFICES ASSUME DogstatsdInductive, Counting PROVE DogstatsdInv
    OBVIOUS
  <2>1. DogstatsdTypeOK
    <3>1. \A c \in DOMAIN contexts : contexts[c].class \in Classes /\ contexts[c].text \in BOOLEAN
      BY DEF DogstatsdInductive, DogstatsdShapes
    <3> QED
      BY <3>1 DEF DogstatsdInductive, DogstatsdShapes, DogstatsdTypeOK, Classes
  <2>2. CountsOfCalls
    BY DEF CountsOfCalls, Counting
  <2> QED
    BY <2>1, <2>2, OrderKept DEF DogstatsdInv
<1>2. DogstatsdInit => DogstatsdInductive /\ Counting
  BY DogstatsdInitially, CountingInitially
<1>3. (DogstatsdInductive /\ Counting) /\ [DogstatsdNext]_dogstatsdVars => (DogstatsdInductive /\ Counting)'
  BY DogstatsdMoves, CountingMoves
<1> QED
  BY <1>1, <1>2, <1>3, PTL DEF DogstatsdSpec
=============================================================================
