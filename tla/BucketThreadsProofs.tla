------------------------ MODULE BucketThreadsProofs ------------------------
(***************************************************************************)
(* Proofs about BucketThreads, for any number of buckets, samples and      *)
(* flushes.                                                                *)
(***************************************************************************)
EXTENDS BucketThreads, FiniteSetTheorems, SequenceTheorems, TLAPS

\* A set of numbers has a least one: the intervals 0 .. b of its elements are finite
\* sets, of which one is smallest.
LEMMA Least ==
    ASSUME NEW S, S \subseteq Nat, S # {}
    PROVE  \E b \in S : \A d \in S : b <= d
<1>1. PICK m \in S : TRUE
  OBVIOUS
<1> DEFINE R == StrictSubsetOrdering(0 .. m)
           F == FiniteSubsetsOf(0 .. m)
           T == {0 .. b : b \in {d \in S : d <= m}}
<1>2. IsWellFoundedOn(R, F)
  <2>1. IsFiniteSet(0 .. m)
    BY FS_Interval
  <2> QED
    BY FS_StrictSubsetOrderingWellFounded, <2>1
<1>3. T \subseteq F /\ T # {}
  <2>1. ASSUME NEW b \in S, b <= m PROVE 0 .. b \in F
    BY <2>1, FS_Interval DEF FiniteSubsetsOf
  <2> QED
    BY <2>1, <1>1
<1>4. PICK x \in T : \A y \in T : <<y, x>> \notin R
  <2> HIDE DEF R, F, T
  <2> QED
    BY <1>2, <1>3, WFMin
<1>5. PICK b \in S : b <= m /\ x = 0 .. b
  OBVIOUS
<1>6. ASSUME NEW d \in S, d < b PROVE FALSE
  <2>1. 0 .. d \in T /\ 0 .. d \subseteq 0 .. m /\ 0 .. b \subseteq 0 .. m
    BY <1>5, <1>6
  <2>2. 0 .. d \subseteq 0 .. b /\ 0 .. d # 0 .. b
    <3>1. b \in 0 .. b /\ b \notin 0 .. d
      BY <1>6
    <3> QED
      BY <3>1, <1>6
  <2>3. <<0 .. d, 0 .. b>> \in R
    BY <2>1, <2>2 DEF StrictSubsetOrdering
  <2> QED
    BY <2>1, <2>3, <1>4, <1>5
<1> QED
  BY <1>6

-----------------------------------------------------------------------------
(***************************************************************************)
(* The inductive invariant.                                                *)
(***************************************************************************)
\* Dictionary d of the heap h has sample s of the server.
At(h, d, s) == d \in DOMAIN h /\ "server" \in DOMAIN h[d] /\ s \in h[d]["server"]

\* What the metric of a context is made of: the packet count is one number.
Held(c) == IF c = "server" THEN Samples ELSE {0}

Dictionaries ==
    {f \in UNION {[D -> SUBSET (Samples \cup {0})] : D \in SUBSET Contexts} :
        \A c \in DOMAIN f : f[c] \subseteq Held(c)}

Labels == {"idle", "compare", "cached", "lookup", "get",
           "set_bucket", "set_mbc", "insert", "read", "write"}

\* The types.
Shapes ==
    /\ now \in Times
    /\ submitted \in 0 .. MaxSamples
    /\ heap \in Seq(Dictionaries)
    /\ metric_by_bucket \in [DOMAIN metric_by_bucket -> DOMAIN heap]
    /\ DOMAIN metric_by_bucket \subseteq Times
    /\ current_bucket \in Times \cup {None}
    /\ current_mbc \in DOMAIN heap
    /\ pc \in [Threads -> Labels]
    /\ bucket \in [Threads -> Times]
    /\ mbc \in [Threads -> DOMAIN heap]
    /\ value \subseteq Samples
    /\ fpc \in {"wait", "count", "buckets", "delete", "reset"}
    /\ todo \subseteq DOMAIN metric_by_bucket
    /\ home \in [Samples -> Times]
    /\ fate \in [Samples -> {"none", "begun", "stored", "reported", "error"}]
    /\ reported_for \in [Samples -> Seq(Times)]
    /\ overlap \in BOOLEAN

\* Where the threads are: the Reporter submits before it flushes, so the bucket it has
\* looked up is still there when it gets it; and a metric is there before it is written.
Positions ==
    /\ pc["reporter"] # "idle" => fpc = "count"
    /\ pc["reporter"] # "read"
    /\ pc["reporter"] = "get" => bucket["reporter"] \in DOMAIN metric_by_bucket
    /\ \A t \in Threads : pc[t] \in {"read", "write"} => t \in DOMAIN heap[mbc[t]]
    /\ fpc = "delete" => todo # {}
    /\ raised = FALSE

\* The sample under way is the last one, on its way to the bucket of its time.
Begun ==
    InSubmit("server") => /\ submitted \in Samples
                          /\ fate[submitted] = "begun"
                          /\ home[submitted] = bucket["server"]

\* A sample that is under way, or not begun, is nowhere yet.
Fresh ==
    \A s \in Samples : s > submitted \/ (s = submitted /\ InSubmit("server")) =>
        /\ reported_for[s] = <<>>
        /\ fate[s] \in {"none", "begun"}
        /\ s \notin value
        /\ \A d \in DOMAIN heap : ~At(heap, d, s)

\* A sample is in one dictionary at most; Counter.sample has read it in the dictionary
\* that it will write.
OnePlace ==
    /\ value # {} => pc["server"] = "write"
    /\ \A s \in Samples : \A d, e \in DOMAIN heap :
          At(heap, d, s) /\ At(heap, e, s) => d = e
    /\ \A s \in value : \A d \in DOMAIN heap : At(heap, d, s) => d = mbc["server"]

\* The buckets that a later flush can report; the one that was just flushed is none.
Ahead == IF fpc = "delete" THEN DOMAIN metric_by_bucket \ {Earliest}
                           ELSE DOMAIN metric_by_bucket

\* A sample that was reported, once, is not where a flush could report it again, nor will
\* Counter.sample put it there.
Once ==
    \A s \in Samples :
        /\ Len(reported_for[s]) <= 1
        /\ reported_for[s] # <<>> =>
              \A b \in Ahead : /\ ~At(heap, metric_by_bucket[b], s)
                               /\ s \in value => metric_by_bucket[b] # mbc["server"]

\* Alone, a thread finds the cache as it was left: for a bucket, with its dictionary.
Alone ==
    ~overlap =>
        /\ InSubmit("server") => ~InSubmit("reporter") /\ ~Flushing
        /\ fpc = "reset" => current_bucket = None
        /\ /\ fpc \in {"wait", "count"}
           /\ \A t \in Threads : pc[t] # "set_mbc"
           /\ current_bucket # None
           => /\ current_bucket \in DOMAIN metric_by_bucket
              /\ current_mbc = metric_by_bucket[current_bucket]
        /\ \A t \in Threads :
              /\ pc[t] \in {"cached", "set_mbc"} => bucket[t] = current_bucket
              /\ pc[t] \in {"get", "set_bucket", "set_mbc", "insert", "read", "write"}
                    => bucket[t] \in DOMAIN metric_by_bucket
              /\ pc[t] \in {"set_bucket", "set_mbc", "insert", "read", "write"}
                    => mbc[t] = metric_by_bucket[bucket[t]]
        /\ pc["server"] = "write" => value = heap[mbc["server"]]["server"]

\* Alone, a stored sample is in the dictionary of its bucket until that is reported, and
\* the dictionary of a bucket has samples of that bucket only.
Kept ==
    ~overlap =>
        \A s \in Samples :
            /\ fate[s] # "error"
            /\ \A j \in 1 .. Len(reported_for[s]) : reported_for[s][j] = home[s]
            /\ fate[s] = "stored" => /\ home[s] \in Ahead
                                     /\ At(heap, metric_by_bucket[home[s]], s)
            /\ \A b \in DOMAIN metric_by_bucket :
                  At(heap, metric_by_bucket[b], s) => home[s] = b

Inductive ==
    /\ Shapes /\ OwnDictionary /\ Positions /\ Begun
    /\ Fresh /\ OnePlace /\ Once /\ Alone /\ Kept

\* The dictionaries of the heap.
LEMMA HeapFacts ==
    ASSUME Shapes
    PROVE  /\ Len(heap) \in Nat /\ DOMAIN heap = 1 .. Len(heap)
           /\ \A d \in DOMAIN heap : heap[d] \in Dictionaries
<1>1. heap \in Seq(Dictionaries)
  BY DEF Shapes
<1> HIDE DEF Dictionaries
<1> QED
  BY <1>1, LenProperties, ElementOfSeq

\* What a dictionary is.
LEMMA DictionaryFacts ==
    ASSUME NEW f \in Dictionaries
    PROVE  /\ f = [c \in DOMAIN f |-> f[c]]
           /\ DOMAIN f \subseteq Contexts
           /\ \A c \in DOMAIN f : f[c] \subseteq Held(c)
BY DEF Dictionaries

\* How one is made.
LEMMA DictionaryMade ==
    ASSUME NEW D \in SUBSET Contexts, NEW f, f = [c \in D |-> f[c]],
           \A c \in D : f[c] \subseteq Held(c)
    PROVE  f \in Dictionaries /\ DOMAIN f = D
<1>1. \A c \in D : f[c] \in SUBSET (Samples \cup {0})
  BY DEF Held
<1>2. f \in [D -> SUBSET (Samples \cup {0})] /\ DOMAIN f = D
  BY <1>1
<1> QED
  BY <1>2 DEF Dictionaries

\* The empty dictionary.
LEMMA EmptyDictionary == <<>> \in Dictionaries /\ DOMAIN <<>> = {}
<1>1. <<>> \in [1 .. 0 -> {}] /\ DOMAIN <<>> = 1 .. 0
  BY EmptySeq, LenProperties
<1>2. DOMAIN <<>> = {}
  BY <1>1
<1>3. <<>> = [c \in {} |-> <<>>[c]]
  BY <1>1, <1>2
<1> QED
  BY <1>2, <1>3, DictionaryMade

\* A new dictionary is added to the heap, empty.
LEMMA HeapGrows ==
    ASSUME Shapes, heap' = NewDict
    PROVE  /\ heap' \in Seq(Dictionaries)
           /\ DOMAIN heap \subseteq DOMAIN heap'
           /\ Len(heap') \in DOMAIN heap' /\ Len(heap') \notin DOMAIN heap
           /\ \A d \in DOMAIN heap : heap'[d] = heap[d]
           /\ \A d, s : At(heap', d, s) <=> At(heap, d, s)
<1>1. heap \in Seq(Dictionaries)
  BY DEF Shapes
<1>2. /\ heap' \in Seq(Dictionaries)
      /\ Len(heap') = Len(heap) + 1
      /\ \A d \in 1 .. Len(heap) : heap'[d] = heap[d]
      /\ heap'[Len(heap) + 1] = <<>>
  <2> HIDE DEF Dictionaries
  <2> QED
    BY <1>1, EmptyDictionary, AppendProperties DEF NewDict
<1>3. /\ Len(heap) \in Nat /\ DOMAIN heap = 1 .. Len(heap)
      /\ DOMAIN heap' = 1 .. Len(heap')
  BY <1>1, <1>2, LenProperties
<1>4. ASSUME NEW d, NEW s PROVE At(heap', d, s) <=> At(heap, d, s)
  <2>1. CASE d \in DOMAIN heap
    BY <2>1, <1>2, <1>3 DEF At
  <2>2. CASE d \notin DOMAIN heap
    <3>1. d \in DOMAIN heap' => heap'[d] = <<>>
      BY <2>2, <1>2, <1>3
    <3> QED
      BY <2>2, <3>1, EmptyDictionary DEF At
  <2> QED
    BY <2>1, <2>2
<1> QED
  BY <1>2, <1>3, <1>4

\* One dictionary of the heap changes.
LEMMA HeapChanges ==
    ASSUME Shapes, NEW d \in DOMAIN heap, NEW f \in Dictionaries,
           heap' = [heap EXCEPT ![d] = f]
    PROVE  /\ heap' \in Seq(Dictionaries)
           /\ DOMAIN heap' = DOMAIN heap
           /\ \A e \in DOMAIN heap : heap'[e] = IF e = d THEN f ELSE heap[e]
<1>1. heap \in Seq(Dictionaries)
  BY DEF Shapes
<1>2. d \in 1 .. Len(heap)
  BY HeapFacts
<1> HIDE DEF Dictionaries
<1>3. heap' \in Seq(Dictionaries)
  BY <1>1, <1>2, ExceptSeq
<1> QED
  BY <1>3, <1>1, LenProperties

\* The earliest bucket of a flush is one of them.
LEMMA EarliestFacts ==
    ASSUME Shapes, todo # {}
    PROVE  Earliest \in todo /\ Earliest \in DOMAIN metric_by_bucket
<1>1. todo \subseteq Nat
  BY ThreadsAssumption DEF Shapes, Times
<1>2. \E b \in todo : \A d \in todo : b <= d
  BY <1>1, Least
<1> QED
  BY <1>2 DEF Earliest, Shapes

-----------------------------------------------------------------------------
(***************************************************************************)
(* The steps.                                                              *)
(***************************************************************************)
\* Initially all is empty.
LEMMA InitiallyInductive == Init => Inductive
<1> SUFFICES ASSUME Init PROVE Inductive
  OBVIOUS
<1>1. heap \in Seq(Dictionaries) /\ DOMAIN heap = {1} /\ heap[1] = <<>>
  BY EmptyDictionary DEF Init
<1>2. DOMAIN metric_by_bucket = {} /\ metric_by_bucket = [b \in {} |-> b]
  BY EmptyDictionary DEF Init
<1>3. \A d, s : ~At(heap, d, s)
  BY <1>1, EmptyDictionary DEF At
<1>4. Shapes
  <2>1. overlap \in BOOLEAN /\ reported_for \in [Samples -> Seq(Times)]
    BY EmptySeq DEF Init
  <2>2. fate \in [Samples -> {"none", "begun", "stored", "reported", "error"}]
    BY DEF Init
  <2>3. /\ now \in Times /\ submitted \in 0 .. MaxSamples /\ home \in [Samples -> Times]
        /\ pc \in [Threads -> Labels] /\ bucket \in [Threads -> Times]
    BY ThreadsAssumption DEF Init, Times, Labels
  <2>4. /\ metric_by_bucket \in [DOMAIN metric_by_bucket -> DOMAIN heap]
        /\ mbc \in [Threads -> DOMAIN heap] /\ current_mbc \in DOMAIN heap
    BY <1>1, <1>2 DEF Init
  <2> QED
    BY <1>1, <1>2, <2>1, <2>2, <2>3, <2>4 DEF Init, Shapes
<1>5. OwnDictionary /\ Positions /\ Begun
  BY <1>2 DEF Init, OwnDictionary, Positions, Begun, InSubmit, Threads
<1>6. Fresh /\ OnePlace
  BY <1>3 DEF Init, Fresh, OnePlace
<1>7. Once /\ Alone /\ Kept
  BY <1>2, <1>3 DEF Init, Once, Alone, Kept, Ahead, InSubmit, Flushing, Threads
<1> QED
  BY <1>4, <1>5, <1>6, <1>7 DEF Inductive

\* The clock moves.
LEMMA TickStep ==
    ASSUME Inductive, Tick
    PROVE  Inductive'
<1> USE DEF Inductive
<1>1. Shapes'
  BY ThreadsAssumption DEF Tick, Shapes, Times, cache, flushVars, history
<1>2. (OwnDictionary /\ Positions /\ Begun)'
  BY DEF Tick, OwnDictionary, Positions, Begun, InSubmit, cache, flushVars, history
<1>3. (Fresh /\ OnePlace)'
  BY DEF Tick, Fresh, OnePlace, InSubmit, cache, flushVars, history
<1>4. Ahead' = Ahead
  BY DEF Tick, Ahead, Earliest, flushVars
<1>5. (Once /\ Alone /\ Kept)'
  BY <1>4 DEF Tick, Once, Alone, Kept, InSubmit, Flushing, cache, flushVars, history
<1> QED
  BY <1>1, <1>2, <1>3, <1>5

\* A sample arrives: it is nowhere, and goes to the bucket of the present time.
LEMMA ReceiveStep ==
    ASSUME Inductive, Receive
    PROVE  Inductive'
<1> USE DEF Inductive
<1>1. submitted + 1 \in Samples /\ submitted' = submitted + 1 /\ submitted \in Nat
  BY ThreadsAssumption DEF Receive, Shapes, Samples
<1>2. Shapes'
  BY <1>1 DEF Receive, Shapes, Samples, Threads, Goto, NoteOverlap, Labels,
              cache, flushVars, history
<1>3. OwnDictionary' /\ Positions'
  BY DEF Receive, Shapes, OwnDictionary, Positions, Goto, Threads, flushVars
<1>4. Begun'
  BY <1>1 DEF Receive, Shapes, Begun, InSubmit, Goto, Threads, Samples
<1>5. Fresh'
  <2>1. ASSUME NEW s \in Samples, s >= submitted'
        PROVE  s > submitted /\ fate'[s] \in {"none", "begun"}
    BY <2>1, <1>1 DEF Receive, Shapes, Fresh, Samples
  <2> QED
    BY <2>1, <1>1 DEF Receive, Fresh, Samples
<1>6. OnePlace'
  BY DEF Receive, Shapes, OnePlace, Goto, Threads
<1>7. Ahead' = Ahead
  BY DEF Receive, Ahead, Earliest, flushVars
<1>8. Once'
  BY <1>7 DEF Receive, Once
<1>9. Alone'
  <2>1. ~overlap' => ~overlap /\ ~InSubmit("reporter") /\ ~Flushing
    BY DEF Receive, NoteOverlap, Shapes
  <2> QED
    BY <2>1 DEF Receive, Shapes, Alone, InSubmit, Flushing, Goto, Threads, cache, flushVars
<1>10. Kept'
  <2>1. \A s \in Samples : s # submitted + 1 => home'[s] = home[s] /\ fate'[s] = fate[s]
    BY DEF Receive, Shapes
  <2>2. /\ reported_for[submitted + 1] = <<>> /\ fate'[submitted + 1] = "begun"
        /\ \A d : ~At(heap, d, submitted + 1)
    BY <1>1 DEF Receive, Shapes, Fresh, Samples, At
  <2>3. ~overlap' => ~overlap
    BY DEF Receive, NoteOverlap, Shapes
  <2>4. heap' = heap /\ metric_by_bucket' = metric_by_bucket /\ reported_for' = reported_for
    BY DEF Receive
  <2>5. Len(<<>>) = 0
    BY EmptySeq
  <2> QED
    BY <2>1, <2>2, <2>3, <2>4, <2>5, <1>1, <1>7 DEF Kept
<1> QED
  BY <1>2, <1>3, <1>4, <1>5, <1>6, <1>8, <1>9, <1>10

\* The Reporter begins to submit the packet count.
LEMMA SendPacketCountStep ==
    ASSUME Inductive, SendPacketCount
    PROVE  Inductive'
<1> USE DEF Inductive
<1>1. /\ heap' = heap /\ metric_by_bucket' = metric_by_bucket /\ value' = value
      /\ mbc' = mbc /\ cache' = cache /\ history' = history
      /\ fpc = "wait" /\ fpc' = "count"
      /\ pc' = [pc EXCEPT !["reporter"] = "compare"]
      /\ bucket' = [bucket EXCEPT !["reporter"] = now]
  BY DEF SendPacketCount, Goto
<1>2. ~overlap' => ~overlap /\ ~InSubmit("server")
  BY DEF SendPacketCount, NoteOverlap, Shapes
<1>3. Shapes'
  BY DEF SendPacketCount, Shapes, Threads, Goto, NoteOverlap, Labels, cache, history
<1>4. (OwnDictionary /\ Positions /\ Begun)'
  BY <1>1 DEF SendPacketCount, Shapes, OwnDictionary, Positions, Begun, InSubmit, Threads, history
<1>5. (Fresh /\ OnePlace)'
  BY <1>1 DEF Shapes, Fresh, OnePlace, InSubmit, Threads, history
<1>6. Ahead' = Ahead
  BY <1>1 DEF Ahead
<1>7. Once' /\ Kept'
  BY <1>1, <1>2, <1>6 DEF Once, Kept, history
<1>8. Alone'
  BY <1>1, <1>2 DEF Shapes, Positions, Alone, InSubmit, Flushing, Threads, cache
<1> QED
  BY <1>3, <1>4, <1>5, <1>7, <1>8

\* The steps of submit_metric that only take a thread further, or fill its own variables
\* and the cache, leave the samples where they are.
LEMMA SamplesStay ==
    ASSUME Inductive,
           UNCHANGED <<heap, metric_by_bucket, value, fpc, todo, history>>,
           InSubmit("server")' => InSubmit("server"),
           value = {} \/ mbc'["server"] = mbc["server"],
           value = {} \/ pc'["server"] = "write",
           ~overlap' => ~overlap
    PROVE  (OwnDictionary /\ Fresh /\ OnePlace /\ Once /\ Kept)'
<1> USE DEF Inductive
<1>1. Ahead' = Ahead
  BY DEF Ahead, Earliest
<1>2. OwnDictionary' /\ Fresh'
  BY DEF OwnDictionary, Fresh, history
<1>3. OnePlace'
  BY DEF OnePlace
<1>4. Once' /\ Kept'
  BY <1>1 DEF Once, Kept, history
<1> QED
  BY <1>2, <1>3, <1>4

\* The comparison with current_bucket.
LEMMA CompareStep ==
    ASSUME Inductive, NEW t \in Threads, Compare(t)
    PROVE  Inductive'
<1> USE DEF Inductive
<1>1. /\ pc[t] = "compare"
      /\ pc' = [pc EXCEPT ![t] = IF bucket[t] = current_bucket THEN "cached" ELSE "lookup"]
      /\ UNCHANGED <<heap, metric_by_bucket, value, fpc, todo, history>>
      /\ UNCHANGED <<now, cache, bucket, mbc, overlap, raised>>
  BY DEF Compare, Goto, flushVars
<1>2. (OwnDictionary /\ Fresh /\ OnePlace /\ Once /\ Kept)'
  <2>1. value = {} \/ pc'["server"] = "write"
    BY <1>1 DEF Shapes, OnePlace, Threads
  <2>2. InSubmit("server")' => InSubmit("server")
    BY <1>1 DEF Shapes, InSubmit, Threads
  <2> QED
    BY <1>1, <2>1, <2>2, SamplesStay
<1>3. Shapes'
  BY <1>1 DEF Shapes, Threads, Labels, cache, history
<1>4. (Positions /\ Begun)'
  BY <1>1 DEF Shapes, Positions, Begun, InSubmit, Threads, history
<1>5. Alone'
  BY <1>1, ThreadsAssumption DEF Shapes, Alone, InSubmit, Flushing, Threads, Times, cache
<1> QED
  BY <1>2, <1>3, <1>4, <1>5

\* The cache is used.
LEMMA CachedStep ==
    ASSUME Inductive, NEW t \in Threads, Cached(t)
    PROVE  Inductive'
<1> USE DEF Inductive
<1>1. /\ pc[t] = "cached"
      /\ pc' = [pc EXCEPT ![t] = "insert"]
      /\ mbc' = [mbc EXCEPT ![t] = current_mbc]
      /\ UNCHANGED <<heap, metric_by_bucket, value, fpc, todo, history>>
      /\ UNCHANGED <<now, cache, bucket, overlap, raised>>
  BY DEF Cached, Goto, flushVars
<1>2. (OwnDictionary /\ Fresh /\ OnePlace /\ Once /\ Kept)'
  <2>1. value = {} \/ (pc'["server"] = "write" /\ mbc'["server"] = mbc["server"])
    BY <1>1 DEF Shapes, OnePlace, Threads
  <2>2. InSubmit("server")' => InSubmit("server")
    BY <1>1 DEF Shapes, InSubmit, Threads
  <2> QED
    BY <1>1, <2>1, <2>2, SamplesStay
<1>3. Shapes'
  BY <1>1 DEF Shapes, Threads, Labels, cache, history
<1>4. (Positions /\ Begun)'
  BY <1>1 DEF Shapes, Positions, Begun, InSubmit, Threads, history
<1>5. Alone'
  BY <1>1, ThreadsAssumption DEF Shapes, Positions, Alone, InSubmit, Flushing, Threads, Times, cache
<1> QED
  BY <1>2, <1>3, <1>4, <1>5

\* A bucket is looked up, and made where there is none: with a dictionary of its own,
\* in which there is no sample.
LEMMA LookupStep ==
    ASSUME Inductive, NEW t \in Threads, Lookup(t)
    PROVE  Inductive'
<1> USE DEF Inductive
<1>1. /\ pc[t] = "lookup"
      /\ pc' = [pc EXCEPT ![t] = "get"]
      /\ UNCHANGED <<now, value, cache, bucket, mbc, fpc, todo, history, overlap, raised>>
  BY DEF Lookup, Goto, flushVars
<1>2. value = {} \/ pc'["server"] = "write"
  BY <1>1 DEF Shapes, OnePlace, Threads
<1>3. InSubmit("server")' => InSubmit("server")
  BY <1>1 DEF Shapes, InSubmit, Threads
<1>4. CASE ~NotInBuckets(t) /\ UNCHANGED <<heap, metric_by_bucket>>
  <2>1. (OwnDictionary /\ Fresh /\ OnePlace /\ Once /\ Kept)'
    BY <1>1, <1>2, <1>3, <1>4, SamplesStay
  <2>2. Shapes'
    BY <1>1, <1>4 DEF Shapes, Threads, Labels, cache, history
  <2>3. (Positions /\ Begun)'
    BY <1>1, <1>4 DEF Shapes, Positions, Begun, InSubmit, NotInBuckets, Threads, history
  <2>4. Alone'
    BY <1>1, <1>4 DEF Shapes, Alone, InSubmit, Flushing, NotInBuckets, Threads, cache
  <2> QED
    BY <2>1, <2>2, <2>3, <2>4
<1>5. CASE /\ NotInBuckets(t)
           /\ heap' = NewDict
           /\ metric_by_bucket' =
                 [b \in DOMAIN metric_by_bucket \cup {bucket[t]} |->
                     IF b = bucket[t] THEN Len(heap') ELSE metric_by_bucket[b]]
  <2>1. /\ heap' \in Seq(Dictionaries)
        /\ DOMAIN heap \subseteq DOMAIN heap'
        /\ Len(heap') \in DOMAIN heap' /\ Len(heap') \notin DOMAIN heap
        /\ \A d \in DOMAIN heap : heap'[d] = heap[d]
        /\ \A d, s : At(heap', d, s) <=> At(heap, d, s)
    BY <1>5, HeapGrows
  <2>2. /\ bucket[t] \in Times /\ bucket[t] \notin DOMAIN metric_by_bucket
        /\ DOMAIN metric_by_bucket' = DOMAIN metric_by_bucket \cup {bucket[t]}
        /\ metric_by_bucket'[bucket[t]] = Len(heap')
        /\ \A b \in DOMAIN metric_by_bucket :
              /\ metric_by_bucket'[b] = metric_by_bucket[b]
              /\ metric_by_bucket[b] \in DOMAIN heap
    BY <1>5 DEF Shapes, NotInBuckets
  <2>3. \A s : ~At(heap', Len(heap'), s)
    BY <2>1 DEF At
  <2>4. Shapes'
    <3>1. metric_by_bucket' \in [DOMAIN metric_by_bucket' -> DOMAIN heap']
      BY <1>5, <2>1, <2>2
    <3>2. pc' \in [Threads -> Labels] /\ mbc' \in [Threads -> DOMAIN heap']
      BY <1>1, <2>1 DEF Shapes, Labels
    <3> QED
      BY <1>1, <2>1, <2>2, <3>1, <3>2 DEF Shapes, cache, history
  <2>5. OwnDictionary'
    BY <2>1, <2>2 DEF OwnDictionary
  <2>6. (Positions /\ Begun)'
    BY <1>1, <2>1, <2>2 DEF Shapes, Positions, Begun, InSubmit, Threads, history
  <2>7. Fresh'
    BY <1>1, <1>3, <2>1 DEF Fresh, At, history
  <2>8. OnePlace'
    BY <1>1, <1>2, <2>1 DEF OnePlace, At
  <2>9. DOMAIN metric_by_bucket' \ {bucket[t]} = DOMAIN metric_by_bucket
    BY <2>2
  <2>10. /\ \A b \in Ahead' : b # bucket[t] => b \in Ahead /\ b \in DOMAIN metric_by_bucket
         /\ Ahead \subseteq Ahead'
    <3>1. Earliest' = Earliest
      BY <1>1 DEF Earliest
    <3>2. fpc = "delete" => Earliest \in DOMAIN metric_by_bucket
      BY EarliestFacts DEF Positions
    <3> QED
      BY <1>1, <2>2, <3>1, <3>2 DEF Ahead
  <2>11. Once'
    <3>1. ASSUME NEW s \in Samples, reported_for[s] # <<>>, NEW b \in Ahead'
          PROVE  /\ ~At(heap', metric_by_bucket'[b], s)
                 /\ s \in value => metric_by_bucket'[b] # mbc["server"]
      <4>1. CASE b = bucket[t]
        BY <4>1, <2>1, <2>2, <2>3 DEF Shapes, Threads
      <4>2. CASE b # bucket[t]
        BY <4>2, <3>1, <2>1, <2>2, <2>10 DEF Once
      <4> QED
        BY <4>1, <4>2
    <3> QED
      BY <3>1, <1>1 DEF Once, history
  <2>12. Alone'
    <3>1. ~overlap => /\ InSubmit("server") => ~InSubmit("reporter") /\ ~Flushing
                      /\ pc["server"] = "write" => value = heap[mbc["server"]]["server"]
      BY DEF Alone
    <3>2. mbc["server"] \in DOMAIN heap
      BY DEF Shapes, Threads
    <3> QED
      BY <1>1, <2>1, <2>2, <3>1, <3>2 DEF Shapes, Alone, InSubmit, Flushing, Threads, cache
  <2>13. Kept'
    <3>1. Ahead \subseteq DOMAIN metric_by_bucket
      BY DEF Ahead
    <3> QED
      BY <1>1, <2>1, <2>2, <2>3, <2>10, <3>1 DEF Kept, history
  <2> QED
    BY <2>4, <2>5, <2>6, <2>7, <2>8, <2>11, <2>12, <2>13
<1> QED
  BY <1>4, <1>5 DEF Lookup

\* The dictionary of a bucket is fetched, or the lookup fails.
LEMMA GetStep ==
    ASSUME Inductive, NEW t \in Threads, Get(t)
    PROVE  Inductive'
<1> USE DEF Inductive
<1>1. /\ pc[t] = "get"
      /\ UNCHANGED <<now, value, heap, metric_by_bucket, cache, bucket, fpc, todo,
                     submitted, home, reported_for, overlap>>
  BY DEF Get, flushVars
<1>2. CASE /\ bucket[t] \in DOMAIN metric_by_bucket
           /\ mbc' = [mbc EXCEPT ![t] = metric_by_bucket[bucket[t]]]
           /\ Goto(t, "set_bucket")
           /\ UNCHANGED <<fate, raised>>
  <2>1. pc' = [pc EXCEPT ![t] = "set_bucket"]
    BY <1>2 DEF Goto
  <2>2. (OwnDictionary /\ Fresh /\ OnePlace /\ Once /\ Kept)'
    <3>1. value = {} \/ (pc'["server"] = "write" /\ mbc'["server"] = mbc["server"])
      BY <1>1, <1>2, <2>1 DEF Shapes, OnePlace, Threads
    <3>2. InSubmit("server")' => InSubmit("server")
      BY <1>1, <2>1 DEF Shapes, InSubmit, Threads
    <3> QED
      BY <1>1, <1>2, <3>1, <3>2, SamplesStay DEF history
  <2>3. Shapes'
    BY <1>1, <1>2, <2>1 DEF Shapes, Threads, Labels, cache
  <2>4. (Positions /\ Begun)'
    BY <1>1, <1>2, <2>1 DEF Shapes, Positions, Begun, InSubmit, Threads
  <2>5. Alone'
    BY <1>1, <1>2, <2>1 DEF Shapes, Alone, InSubmit, Flushing, Threads, cache
  <2> QED
    BY <2>2, <2>3, <2>4, <2>5
<1>3. CASE /\ bucket[t] \notin DOMAIN metric_by_bucket
           /\ Goto(t, "idle")
           /\ fate' = IF t = "server" THEN [fate EXCEPT ![submitted] = "error"] ELSE fate
           /\ raised' = (raised \/ t = "reporter")
           /\ UNCHANGED mbc
  <2>1. t = "server" /\ pc' = [pc EXCEPT !["server"] = "idle"] /\ submitted \in Samples
    BY <1>1, <1>3 DEF Goto, Threads, Positions, Begun, InSubmit
  <2>2. fate' = [fate EXCEPT ![submitted] = "error"] /\ raised' = FALSE
    BY <1>3, <2>1 DEF Positions
  <2>3. overlap
    BY <1>1, <1>3 DEF Alone
  <2>4. Shapes'
    BY <1>1, <1>3, <2>1, <2>2 DEF Shapes, Threads, Labels, cache
  <2>5. (OwnDictionary /\ Positions /\ Begun)'
    BY <1>1, <1>3, <2>1, <2>2 DEF Shapes, OwnDictionary, Positions, Begun, InSubmit, Threads
  <2>6. (Fresh /\ OnePlace)'
    BY <1>1, <1>3, <2>1, <2>2 DEF Shapes, Fresh, OnePlace, InSubmit, Threads
  <2>7. Ahead' = Ahead
    BY <1>1 DEF Ahead, Earliest
  <2>8. (Once /\ Alone /\ Kept)'
    BY <1>1, <1>3, <2>3, <2>7 DEF Once, Alone, Kept
  <2> QED
    BY <2>4, <2>5, <2>6, <2>8
<1> QED
  BY <1>1, <1>2, <1>3 DEF Get

\* The first half of the cache is written.
LEMMA SetBucketStep ==
    ASSUME Inductive, NEW t \in Threads, SetBucket(t)
    PROVE  Inductive'
<1> USE DEF Inductive
<1>1. /\ pc[t] = "set_bucket"
      /\ pc' = [pc EXCEPT ![t] = "set_mbc"]
      /\ current_bucket' = bucket[t]
      /\ UNCHANGED <<heap, metric_by_bucket, value, fpc, todo, history>>
      /\ UNCHANGED <<now, current_mbc, bucket, mbc, overlap, raised>>
  BY DEF SetBucket, Goto, flushVars
<1>2. (OwnDictionary /\ Fresh /\ OnePlace /\ Once /\ Kept)'
  <2>1. value = {} \/ pc'["server"] = "write"
    BY <1>1 DEF Shapes, OnePlace, Threads
  <2>2. InSubmit("server")' => InSubmit("server")
    BY <1>1 DEF Shapes, InSubmit, Threads
  <2> QED
    BY <1>1, <2>1, <2>2, SamplesStay
<1>3. Shapes'
  BY <1>1 DEF Shapes, Threads, Labels, history
<1>4. (Positions /\ Begun)'
  BY <1>1 DEF Shapes, Positions, Begun, InSubmit, Threads, history
<1>5. Alone'
  BY <1>1 DEF Shapes, Positions, Alone, InSubmit, Flushing, Threads
<1> QED
  BY <1>2, <1>3, <1>4, <1>5

\* And the second.
LEMMA SetMbcStep ==
    ASSUME Inductive, NEW t \in Threads, SetMbc(t)
    PROVE  Inductive'
<1> USE DEF Inductive
<1>1. /\ pc[t] = "set_mbc"
      /\ pc' = [pc EXCEPT ![t] = "insert"]
      /\ current_mbc' = mbc[t]
      /\ UNCHANGED <<heap, metric_by_bucket, value, fpc, todo, history>>
      /\ UNCHANGED <<now, current_bucket, bucket, mbc, overlap, raised>>
  BY DEF SetMbc, Goto, flushVars
<1>2. (OwnDictionary /\ Fresh /\ OnePlace /\ Once /\ Kept)'
  <2>1. value = {} \/ pc'["server"] = "write"
    BY <1>1 DEF Shapes, OnePlace, Threads
  <2>2. InSubmit("server")' => InSubmit("server")
    BY <1>1 DEF Shapes, InSubmit, Threads
  <2> QED
    BY <1>1, <2>1, <2>2, SamplesStay
<1>3. Shapes'
  BY <1>1 DEF Shapes, Threads, Labels, history
<1>4. (Positions /\ Begun)'
  BY <1>1 DEF Shapes, Positions, Begun, InSubmit, Threads, history
<1>5. Alone'
  BY <1>1 DEF Shapes, Alone, InSubmit, Flushing, Threads
<1> QED
  BY <1>2, <1>3, <1>4, <1>5

\* A metric is made where there is none, with no samples.
LEMMA InsertStep ==
    ASSUME Inductive, NEW t \in Threads, Insert(t)
    PROVE  Inductive'
<1> USE DEF Inductive
<1> DEFINE old == heap[mbc[t]]
           new == [c \in DOMAIN old \cup {t} |-> IF c \in DOMAIN old THEN old[c] ELSE {}]
<1>1. /\ pc[t] = "insert"
      /\ pc' = [pc EXCEPT ![t] = IF t = "server" THEN "read" ELSE "write"]
      /\ heap' = [heap EXCEPT ![mbc[t]] = new]
      /\ UNCHANGED <<metric_by_bucket, value, fpc, todo, history>>
      /\ UNCHANGED <<now, cache, bucket, mbc, overlap, raised>>
  BY DEF Insert, Goto, flushVars
<1>2. mbc[t] \in DOMAIN heap
  BY DEF Shapes
<1>3. new \in Dictionaries /\ DOMAIN new = DOMAIN old \cup {t}
  <2>1. DOMAIN old \subseteq Contexts /\ \A c \in DOMAIN old : old[c] \subseteq Held(c)
    BY <1>2, HeapFacts, DictionaryFacts
  <2>2. DOMAIN old \cup {t} \in SUBSET Contexts
    BY <2>1 DEF Threads, Contexts
  <2>3. \A c \in DOMAIN old \cup {t} : new[c] \subseteq Held(c)
    BY <2>1
  <2>4. new = [c \in DOMAIN old \cup {t} |-> new[c]]
    OBVIOUS
  <2> HIDE DEF new, old
  <2> QED
    BY <2>2, <2>3, <2>4, DictionaryMade
<1>4. /\ heap' \in Seq(Dictionaries)
      /\ DOMAIN heap' = DOMAIN heap
      /\ \A e \in DOMAIN heap : heap'[e] = IF e = mbc[t] THEN new ELSE heap[e]
  <2> HIDE DEF new, old
  <2> QED
    BY <1>1, <1>2, <1>3, HeapChanges
<1>5. \A d, s : At(heap', d, s) <=> At(heap, d, s)
  BY <1>3, <1>4 DEF At
<1>6. \A c \in DOMAIN old : c \in DOMAIN new /\ new[c] = old[c]
  OBVIOUS
<1> HIDE DEF new
<1>7. Shapes'
  BY <1>1, <1>4 DEF Shapes, Threads, Labels, cache, history
<1>8. OwnDictionary'
  BY <1>1 DEF OwnDictionary
<1>9. (Positions /\ Begun)'
  BY <1>1, <1>3, <1>4 DEF Shapes, Positions, Begun, InSubmit, Threads, history
<1>10. Fresh' /\ OnePlace'
  <2>1. InSubmit("server")' => InSubmit("server")
    BY <1>1 DEF Shapes, InSubmit, Threads
  <2>2. value # {} => pc'["server"] = "write"
    BY <1>1 DEF Shapes, OnePlace, Threads
  <2>3. Fresh'
    BY <1>1, <1>4, <1>5, <2>1 DEF Fresh, history
  <2>4. mbc' = mbc /\ value' = value
    BY <1>1
  <2> QED
    BY <1>4, <1>5, <2>2, <2>3, <2>4 DEF OnePlace
<1>11. Ahead' = Ahead
  BY <1>1 DEF Ahead, Earliest
<1>12. Once' /\ Kept'
  BY <1>1, <1>5, <1>11 DEF Once, Kept, history
<1>13. Alone'
  <2>1. /\ mbc["server"] \in DOMAIN heap
        /\ pc["server"] = "write" => "server" \in DOMAIN heap[mbc["server"]]
    BY DEF Shapes, Positions, Threads
  <2> QED
    BY <1>1, <1>4, <1>6, <2>1 DEF Shapes, Alone, InSubmit, Flushing, Threads, cache
<1> QED
  BY <1>7, <1>8, <1>9, <1>10, <1>12, <1>13

\* Counter.sample reads the samples of its metric.
LEMMA SampleReadStep ==
    ASSUME Inductive, SampleRead
    PROVE  Inductive'
<1> USE DEF Inductive
<1>1. /\ pc["server"] = "read"
      /\ pc' = [pc EXCEPT !["server"] = "write"]
      /\ value' = heap[mbc["server"]]["server"]
      /\ UNCHANGED <<now, heap, metric_by_bucket, cache, bucket, mbc, fpc, todo, history,
                     overlap, raised>>
  BY DEF SampleRead, Goto, flushVars
<1>2. mbc["server"] \in DOMAIN heap /\ "server" \in DOMAIN heap[mbc["server"]]
  BY <1>1 DEF Shapes, Positions, Threads
<1>3. value' \subseteq Samples
  BY <1>1, <1>2, HeapFacts, DictionaryFacts DEF Held
<1>4. \A s : s \in value' <=> At(heap, mbc["server"], s)
  BY <1>1, <1>2 DEF At
<1>5. Shapes'
  BY <1>1, <1>3 DEF Shapes, Threads, Labels, cache, history
<1>6. (OwnDictionary /\ Positions /\ Begun)'
  BY <1>1 DEF Shapes, OwnDictionary, Positions, Begun, InSubmit, Threads, history
<1>7. Fresh'
  BY <1>1, <1>2, <1>4 DEF Shapes, Fresh, InSubmit, Threads, history
<1>8. OnePlace'
  BY <1>1, <1>2, <1>3, <1>4 DEF Shapes, OnePlace, Threads
<1>9. Ahead' = Ahead
  BY <1>1 DEF Ahead, Earliest
<1>10. Once' /\ Kept'
  BY <1>1, <1>4, <1>9 DEF Once, Kept, history
<1>11. Alone'
  BY <1>1 DEF Shapes, Alone, InSubmit, Flushing, Threads, cache
<1> QED
  BY <1>5, <1>6, <1>7, <1>8, <1>10, <1>11

\* Counter.sample writes what it has read and the sample: of one dictionary, the one that
\* had them.
LEMMA CountStep ==
    ASSUME Inductive, SampleWrite("server")
    PROVE  Inductive'
<1> USE DEF Inductive
<1> DEFINE d == mbc["server"]
           new == [heap[d] EXCEPT !["server"] = value \cup {submitted}]
<1>1. /\ pc["server"] = "write"
      /\ pc' = [pc EXCEPT !["server"] = "idle"]
      /\ heap' = [heap EXCEPT ![d] = new]
      /\ value' = {}
      /\ fate' = [fate EXCEPT ![submitted] = "stored"]
      /\ UNCHANGED <<now, metric_by_bucket, cache, bucket, mbc, fpc, todo,
                     submitted, home, reported_for, overlap, raised>>
  BY DEF SampleWrite, Goto, flushVars
<1>2. /\ d \in DOMAIN heap /\ "server" \in DOMAIN heap[d]
      /\ submitted \in Samples /\ fate[submitted] = "begun"
      /\ home[submitted] = bucket["server"]
  BY <1>1 DEF Shapes, Positions, Begun, InSubmit, Threads
<1>3. new \in Dictionaries /\ DOMAIN new = DOMAIN heap[d] /\ new["server"] = value \cup {submitted}
  <2>1. /\ heap[d] = [c \in DOMAIN heap[d] |-> heap[d][c]]
        /\ DOMAIN heap[d] \subseteq Contexts
        /\ \A c \in DOMAIN heap[d] : heap[d][c] \subseteq Held(c)
    BY <1>2, HeapFacts, DictionaryFacts
  <2>2. DOMAIN new = DOMAIN heap[d] /\ new = [c \in DOMAIN heap[d] |-> new[c]]
    BY <2>1
  <2>3. /\ \A c \in DOMAIN heap[d] : c # "server" => new[c] = heap[d][c]
        /\ new["server"] = value \cup {submitted}
    BY <2>1, <1>2
  <2>4. value \cup {submitted} \subseteq Held("server")
    BY <1>2 DEF Shapes, Held
  <2>5. \A c \in DOMAIN heap[d] : new[c] \subseteq Held(c)
    BY <2>1, <2>3, <2>4
  <2> HIDE DEF new, d
  <2> QED
    BY <2>1, <2>2, <2>3, <2>5, DictionaryMade
<1> HIDE DEF new
<1>4. /\ heap' \in Seq(Dictionaries)
      /\ DOMAIN heap' = DOMAIN heap
      /\ \A e \in DOMAIN heap : heap'[e] = IF e = d THEN new ELSE heap[e]
  <2> HIDE DEF d
  <2> QED
    BY <1>1, <1>2, <1>3, HeapChanges
<1>5. \A e, s : At(heap', e, s) <=> IF e = d THEN s \in value \cup {submitted}
                                            ELSE At(heap, e, s)
  <2> HIDE DEF d
  <2> QED
    BY <1>2, <1>3, <1>4 DEF At
<1>6. Shapes'
  BY <1>1, <1>4 DEF Shapes, Threads, Labels, cache
<1>7. (OwnDictionary /\ Positions /\ Begun)'
  BY <1>1, <1>3, <1>4 DEF Shapes, OwnDictionary, Positions, Begun, InSubmit, Threads
<1>8. Fresh'
  <2>1. ASSUME NEW s \in Samples, s > submitted
        PROVE  /\ reported_for'[s] = <<>> /\ fate'[s] \in {"none", "begun"}
               /\ \A e : ~At(heap', e, s)
    <3>1. s # submitted /\ s \notin value /\ \A e : ~At(heap, e, s)
      BY <2>1, <1>2 DEF Fresh, Samples, At
    <3>2. \A e : ~At(heap', e, s)
      BY <3>1, <1>5
    <3>3. reported_for[s] = <<>> /\ fate[s] \in {"none", "begun"}
      BY <2>1 DEF Fresh
    <3>4. fate'[s] = fate[s]
      BY <3>1, <1>1 DEF Shapes
    <3> QED
      BY <3>2, <3>3, <3>4, <1>1
  <2>2. ~InSubmit("server")'
    BY <1>1 DEF Shapes, InSubmit, Threads
  <2> QED
    BY <2>1, <2>2, <1>1 DEF Fresh
<1>9. OnePlace'
  <2>1. \A e \in DOMAIN heap : ~At(heap, e, submitted)
    BY <1>1, <1>2 DEF Fresh, InSubmit
  <2>2. ASSUME NEW s \in Samples, NEW e \in DOMAIN heap, NEW f \in DOMAIN heap,
               At(heap', e, s), At(heap', f, s)
        PROVE  e = f
    BY <2>1, <2>2, <1>2, <1>5 DEF OnePlace
  <2> QED
    BY <2>2, <1>1, <1>4 DEF OnePlace
<1>10. Ahead' = Ahead
  BY <1>1 DEF Ahead, Earliest
<1>11. Once'
  <2>1. reported_for[submitted] = <<>>
    BY <1>1, <1>2 DEF Fresh, InSubmit
  <2> QED
    BY <2>1, <1>1, <1>5, <1>10 DEF Once
<1>12. Alone'
  BY <1>1, <1>4 DEF Shapes, Alone, InSubmit, Flushing, Threads, cache
<1>13. Kept'
  <2> SUFFICES ASSUME ~overlap PROVE Kept'
    BY <1>1 DEF Kept
  <2>1. /\ bucket["server"] \in DOMAIN metric_by_bucket
        /\ d = metric_by_bucket[bucket["server"]]
        /\ \A s : s \in value <=> At(heap, d, s)
        /\ fpc # "delete"
    BY <1>1, <1>2 DEF Alone, Threads, At, InSubmit, Flushing
  <2>2. bucket["server"] \in Ahead /\ Ahead \subseteq DOMAIN metric_by_bucket
    BY <2>1 DEF Ahead
  <2>3. /\ fate'[submitted] = "stored"
        /\ \A s \in Samples : s # submitted => fate'[s] = fate[s]
    BY <1>1, <1>2 DEF Shapes
  <2>4. reported_for[submitted] = <<>> /\ Len(<<>>) = 0
    BY <1>1, <1>2, EmptySeq DEF Fresh, InSubmit
  <2>5. ASSUME NEW s \in Samples, NEW b \in DOMAIN metric_by_bucket,
               At(heap', metric_by_bucket[b], s)
        PROVE  home[s] = b
    BY <2>1, <2>5, <1>2, <1>5 DEF Kept, OwnDictionary
  <2>6. ASSUME NEW s \in Samples, fate'[s] = "stored"
        PROVE  home[s] \in Ahead /\ At(heap', metric_by_bucket[home[s]], s)
    <3>1. CASE s = submitted
      BY <3>1, <2>1, <2>2, <1>2, <1>5
    <3>2. CASE s # submitted
      BY <3>2, <2>1, <2>3, <2>6, <1>5 DEF Kept
    <3> QED
      BY <3>1, <3>2
  <2> QED
    BY <1>1, <1>10, <2>3, <2>4, <2>5, <2>6 DEF Kept
<1> QED
  BY <1>6, <1>7, <1>8, <1>9, <1>11, <1>12, <1>13

\* The packet count is written: no sample of the server moves.
LEMMA GaugeStep ==
    ASSUME Inductive, SampleWrite("reporter")
    PROVE  Inductive'
<1> USE DEF Inductive
<1> DEFINE d == mbc["reporter"]
           new == [heap[d] EXCEPT !["reporter"] = {0}]
<1>1. /\ pc["reporter"] = "write"
      /\ pc' = [pc EXCEPT !["reporter"] = "idle"]
      /\ heap' = [heap EXCEPT ![d] = new]
      /\ UNCHANGED <<metric_by_bucket, value, fpc, todo, history>>
      /\ UNCHANGED <<now, cache, bucket, mbc, overlap, raised>>
  BY DEF SampleWrite, Goto, flushVars, history
<1>2. d \in DOMAIN heap /\ "reporter" \in DOMAIN heap[d]
  BY <1>1 DEF Shapes, Positions, Threads
<1>3. /\ new \in Dictionaries /\ DOMAIN new = DOMAIN heap[d]
      /\ "server" \in DOMAIN heap[d] => new["server"] = heap[d]["server"]
  <2>1. /\ heap[d] = [c \in DOMAIN heap[d] |-> heap[d][c]]
        /\ DOMAIN heap[d] \subseteq Contexts
        /\ \A c \in DOMAIN heap[d] : heap[d][c] \subseteq Held(c)
    BY <1>2, HeapFacts, DictionaryFacts
  <2>2. DOMAIN new = DOMAIN heap[d] /\ new = [c \in DOMAIN heap[d] |-> new[c]]
    BY <2>1
  <2>3. /\ \A c \in DOMAIN heap[d] : c # "reporter" => new[c] = heap[d][c]
        /\ new["reporter"] = {0}
    BY <2>1, <1>2
  <2>4. \A c \in DOMAIN heap[d] : new[c] \subseteq Held(c)
    BY <2>1, <2>3 DEF Held
  <2> HIDE DEF new, d
  <2> QED
    BY <2>1, <2>2, <2>3, <2>4, DictionaryMade
<1> HIDE DEF new
<1>4. /\ heap' \in Seq(Dictionaries)
      /\ DOMAIN heap' = DOMAIN heap
      /\ \A e \in DOMAIN heap : heap'[e] = IF e = d THEN new ELSE heap[e]
  <2> HIDE DEF d
  <2> QED
    BY <1>1, <1>2, <1>3, HeapChanges
<1>5. \A e, s : At(heap', e, s) <=> At(heap, e, s)
  <2> HIDE DEF d
  <2> QED
    BY <1>2, <1>3, <1>4 DEF At
<1>6. Shapes'
  BY <1>1, <1>4 DEF Shapes, Threads, Labels, cache, history
<1>7. (OwnDictionary /\ Positions /\ Begun)'
  BY <1>1, <1>3, <1>4 DEF Shapes, OwnDictionary, Positions, Begun, InSubmit, Threads, history
<1>8. pc'["server"] = pc["server"]
  BY <1>1 DEF Shapes, Threads
<1>9. Fresh'
  BY <1>1, <1>4, <1>5, <1>8 DEF Fresh, InSubmit, history
<1>10. OnePlace'
  <2>1. mbc' = mbc /\ value' = value
    BY <1>1
  <2> QED
    BY <2>1, <1>4, <1>5, <1>8 DEF OnePlace
<1>11. Ahead' = Ahead
  BY <1>1 DEF Ahead, Earliest
<1>12. Once' /\ Kept'
  BY <1>1, <1>5, <1>11 DEF Once, Kept, history
<1>13. Alone'
  <2>1. /\ mbc["server"] \in DOMAIN heap
        /\ pc["server"] = "write" => "server" \in DOMAIN heap[mbc["server"]]
    BY DEF Shapes, Positions, Threads
  <2> QED
    BY <1>1, <1>3, <1>4, <2>1 DEF Shapes, Alone, InSubmit, Flushing, Threads, cache
<1> QED
  BY <1>6, <1>7, <1>9, <1>10, <1>12, <1>13

\* flush lists the buckets that are complete.
LEMMA FlushBeginStep ==
    ASSUME Inductive, FlushBegin
    PROVE  Inductive'
<1> USE DEF Inductive
<1>1. /\ fpc = "count" /\ pc["reporter"] = "idle" /\ fpc' = "buckets"
      /\ todo' \subseteq DOMAIN metric_by_bucket
      /\ UNCHANGED <<now, value, heap, metric_by_bucket, cache, pc, bucket, mbc, history,
                     raised>>
  BY DEF FlushBegin
<1>2. overlap' \in BOOLEAN /\ (~overlap' => ~overlap /\ ~InSubmit("server"))
  BY DEF FlushBegin, NoteOverlap, Shapes
<1>3. Shapes'
  BY <1>1, <1>2 DEF Shapes, cache, history
<1>4. (OwnDictionary /\ Positions /\ Begun /\ Fresh /\ OnePlace)'
  BY <1>1 DEF OwnDictionary, Positions, Begun, Fresh, OnePlace, InSubmit, history
<1>5. Ahead' = Ahead
  BY <1>1 DEF Ahead
<1>6. Once' /\ Kept'
  BY <1>1, <1>2, <1>5 DEF Once, Kept, history
<1>7. Alone'
  BY <1>1, <1>2 DEF Alone, InSubmit, Threads, cache
<1> QED
  BY <1>3, <1>4, <1>6, <1>7

\* The earliest bucket is reported: what its dictionary has is taken out of it, and was
\* never reported before.
LEMMA FlushMetricsStep ==
    ASSUME Inductive, FlushMetrics
    PROVE  Inductive'
<1> USE DEF Inductive
<1> DEFINE b == Earliest
           d == metric_by_bucket[b]
           sent == UNION {heap[d][c] : c \in DOMAIN heap[d]}
           new == [c \in DOMAIN heap[d] |-> {}]
<1>1. /\ fpc = "buckets" /\ todo # {} /\ fpc' = "delete"
      /\ heap' = [heap EXCEPT ![d] = new]
      /\ fate' = [s \in Samples |-> IF s \in sent THEN "reported" ELSE fate[s]]
      /\ reported_for' = [s \in Samples |-> IF s \in sent THEN Append(reported_for[s], b)
                                                          ELSE reported_for[s]]
      /\ UNCHANGED <<now, value, metric_by_bucket, cache, pc, bucket, mbc, todo,
                     submitted, home, overlap, raised>>
  BY DEF FlushMetrics
<1>2. b \in todo /\ b \in DOMAIN metric_by_bucket /\ b' = b
  BY <1>1, EarliestFacts DEF Earliest
<1>3. d \in DOMAIN heap /\ b \in Times
  BY <1>2 DEF Shapes
<1>4. /\ DOMAIN heap[d] \subseteq Contexts
      /\ \A c \in DOMAIN heap[d] : heap[d][c] \subseteq Held(c)
  BY <1>3, HeapFacts, DictionaryFacts
<1>5. \A s \in Samples : s \in sent <=> At(heap, d, s)
  <2>1. \A c \in DOMAIN heap[d], s \in Samples : s \in heap[d][c] => c = "server"
    BY <1>4 DEF Held, Samples
  <2> QED
    BY <2>1, <1>3 DEF At
<1>6. new \in Dictionaries /\ DOMAIN new = DOMAIN heap[d] /\ \A c \in DOMAIN new : new[c] = {}
  <2>1. \A c \in DOMAIN heap[d] : new[c] \subseteq Held(c)
    OBVIOUS
  <2>2. new = [c \in DOMAIN heap[d] |-> new[c]]
    OBVIOUS
  <2>3. DOMAIN new = DOMAIN heap[d] /\ \A c \in DOMAIN new : new[c] = {}
    OBVIOUS
  <2> HIDE DEF new, d
  <2> QED
    BY <2>1, <2>2, <2>3, <1>4, DictionaryMade
<1> HIDE DEF new, sent, b
<1>7. /\ heap' \in Seq(Dictionaries)
      /\ DOMAIN heap' = DOMAIN heap
      /\ \A e \in DOMAIN heap : heap'[e] = IF e = d THEN new ELSE heap[e]
  <2> HIDE DEF d
  <2> QED
    BY <1>1, <1>3, <1>6, HeapChanges
<1>8. \A e, s : At(heap', e, s) <=> At(heap, e, s) /\ e # d
  <2> HIDE DEF d
  <2> QED
    BY <1>3, <1>6, <1>7 DEF At
<1>9. \A s \in Samples :
         /\ fate'[s] = IF At(heap, d, s) THEN "reported" ELSE fate[s]
         /\ reported_for'[s] = IF At(heap, d, s) THEN Append(reported_for[s], b)
                                                 ELSE reported_for[s]
  BY <1>1, <1>5
<1>10. \A s \in Samples : At(heap, d, s) => reported_for[s] = <<>>
  <2>1. b \in Ahead
    BY <1>1, <1>2 DEF Ahead
  <2> QED
    BY <2>1 DEF Once
<1>11. \A s \in Samples : /\ reported_for'[s] \in Seq(Times)
                          /\ At(heap, d, s) => /\ Len(reported_for'[s]) = 1
                                               /\ reported_for'[s][1] = b
  <2>1. /\ Append(<<>>, b) \in Seq(Times) /\ Len(Append(<<>>, b)) = 1
        /\ Append(<<>>, b)[1] = b
    BY <1>3, EmptySeq, AppendProperties
  <2> QED
    BY <2>1, <1>9, <1>10 DEF Shapes
<1>12. Ahead' = DOMAIN metric_by_bucket \ {b} /\ Ahead = DOMAIN metric_by_bucket
  BY <1>1, <1>2 DEF Ahead, b
<1>13. \A c \in Ahead' : metric_by_bucket[c] # d /\ c \in Ahead /\ c \in DOMAIN metric_by_bucket
  BY <1>2, <1>12 DEF OwnDictionary
<1> HIDE DEF d
<1>14. Shapes'
  <2>1. fate' \in [Samples -> {"none", "begun", "stored", "reported", "error"}]
    BY <1>1, <1>9 DEF Shapes
  <2>2. reported_for' \in [Samples -> Seq(Times)]
    BY <1>1, <1>11
  <2> QED
    BY <1>1, <1>7, <2>1, <2>2 DEF Shapes, cache
<1>15. OwnDictionary'
  BY <1>1 DEF OwnDictionary
<1>16. Positions'
  BY <1>1, <1>6, <1>7 DEF Shapes, Positions
<1>17. Begun'
  <2>1. InSubmit("server") => ~At(heap, d, submitted)
    BY <1>3 DEF Begun, Fresh
  <2> QED
    BY <2>1, <1>1, <1>9 DEF Begun, InSubmit
<1>18. Fresh'
  BY <1>1, <1>3, <1>7, <1>8, <1>9 DEF Fresh, InSubmit
<1>19. OnePlace'
  BY <1>1, <1>7, <1>8 DEF OnePlace
<1>20. Once'
  <2>1. ASSUME NEW s \in Samples, At(heap, d, s), NEW c \in Ahead'
        PROVE  /\ ~At(heap', metric_by_bucket[c], s)
               /\ s \in value => metric_by_bucket[c] # mbc["server"]
    <3>1. metric_by_bucket[c] \in DOMAIN heap /\ metric_by_bucket[c] # d
      BY <1>13 DEF Shapes
    <3> QED
      BY <2>1, <3>1, <1>3, <1>8 DEF OnePlace
  <2>2. ASSUME NEW s \in Samples, ~At(heap, d, s), reported_for[s] # <<>>, NEW c \in Ahead'
        PROVE  /\ ~At(heap', metric_by_bucket[c], s)
               /\ s \in value => metric_by_bucket[c] # mbc["server"]
    BY <2>2, <1>8, <1>13 DEF Once
  <2>3. ASSUME NEW s \in Samples
        PROVE  Len(reported_for'[s]) <= 1
    <3>1. CASE At(heap, d, s)
      <4>1. Len(reported_for'[s]) = 1
        BY <3>1, <1>11
      <4> QED
        BY <4>1
    <3>2. CASE ~At(heap, d, s)
      <4>1. reported_for'[s] = reported_for[s] /\ Len(reported_for[s]) <= 1
        BY <3>2, <1>9 DEF Once
      <4> QED
        BY <4>1
    <3> QED
      BY <3>1, <3>2
  <2> QED
    BY <1>1, <1>9, <2>1, <2>2, <2>3 DEF Once
<1>21. Alone'
  <2>1. overlap' = FALSE => ~InSubmit("server") /\ ~InSubmit("reporter")
    BY <1>1 DEF Alone, Flushing, Positions, InSubmit
  <2> QED
    BY <1>1, <2>1 DEF Shapes, Alone, InSubmit, Threads, Flushing, cache
<1>22. Kept'
  <2> SUFFICES ASSUME ~overlap PROVE Kept'
    BY <1>1 DEF Kept
  <2>1. ASSUME NEW s \in Samples, At(heap, d, s)
        PROVE  fate'[s] = "reported" /\ home[s] = b
    BY <2>1, <1>2, <1>9 DEF Kept, d
  <2>2. ASSUME NEW s \in Samples, fate'[s] = "stored"
        PROVE  home[s] \in Ahead' /\ At(heap', metric_by_bucket[home[s]], s)
    <3>1. ~At(heap, d, s) /\ fate[s] = "stored"
      BY <2>2, <2>1, <1>9
    <3>2. home[s] \in Ahead /\ At(heap, metric_by_bucket[home[s]], s)
      BY <3>1 DEF Kept
    <3>3. metric_by_bucket[home[s]] # d
      BY <3>1, <3>2
    <3>4. home[s] # b
      BY <3>3 DEF d
    <3> QED
      BY <3>2, <3>3, <3>4, <1>8, <1>12
  <2>3. \A s \in Samples : fate'[s] # "error"
    BY <1>9 DEF Kept
  <2>4. \A s \in Samples : \A j \in 1 .. Len(reported_for'[s]) : reported_for'[s][j] = home[s]
    BY <2>1, <1>9, <1>11 DEF Kept
  <2> QED
    BY <1>1, <1>8, <2>2, <2>3, <2>4 DEF Kept
<1> QED
  BY <1>14, <1>15, <1>16, <1>17, <1>18, <1>19, <1>20, <1>21, <1>22

\* Its bucket is deleted.
LEMMA FlushDeleteStep ==
    ASSUME Inductive, FlushDelete
    PROVE  Inductive'
<1> USE DEF Inductive
<1> DEFINE b == Earliest
<1>1. /\ fpc = "delete" /\ fpc' = "buckets"
      /\ metric_by_bucket' = Restrict(metric_by_bucket, DOMAIN metric_by_bucket \ {b})
      /\ todo' = todo \ {b}
      /\ UNCHANGED <<now, value, heap, cache, pc, bucket, mbc, history, overlap, raised>>
  BY DEF FlushDelete, Without
<1>2. /\ DOMAIN metric_by_bucket' = Ahead
      /\ \A c \in Ahead : metric_by_bucket'[c] = metric_by_bucket[c]
      /\ metric_by_bucket' = [c \in DOMAIN metric_by_bucket' |-> metric_by_bucket'[c]]
      /\ Ahead \subseteq DOMAIN metric_by_bucket
  BY <1>1 DEF Ahead, Restrict
<1>3. Ahead' = Ahead /\ todo' \subseteq Ahead
  BY <1>1, <1>2 DEF Ahead, Shapes
<1> HIDE DEF b
<1>4. Shapes'
  <2>1. metric_by_bucket' \in [DOMAIN metric_by_bucket' -> DOMAIN heap]
    BY <1>2 DEF Shapes
  <2> QED
    BY <1>1, <1>2, <1>3, <2>1 DEF Shapes, cache, history
<1>5. OwnDictionary'
  BY <1>2 DEF OwnDictionary
<1>6. (Positions /\ Begun /\ Fresh /\ OnePlace)'
  BY <1>1 DEF Positions, Begun, Fresh, OnePlace, InSubmit, history
<1>7. Once'
  BY <1>1, <1>2, <1>3 DEF Once, history
<1>8. Alone'
  <2>1. ~overlap => ~InSubmit("server") /\ ~InSubmit("reporter")
    BY <1>1 DEF Alone, Flushing, Positions, InSubmit
  <2> QED
    BY <1>1, <2>1 DEF Shapes, Alone, InSubmit, Threads, Flushing, cache
<1>9. Kept'
  BY <1>1, <1>2, <1>3 DEF Kept, history
<1> QED
  BY <1>4, <1>5, <1>6, <1>7, <1>8, <1>9

\* The cache is reset, first its bucket.
LEMMA FlushResetBucketStep ==
    ASSUME Inductive, FlushResetBucket
    PROVE  Inductive'
<1> USE DEF Inductive
<1>1. /\ fpc = "buckets" /\ fpc' = "reset" /\ current_bucket' = None
      /\ UNCHANGED <<now, value, heap, metric_by_bucket, current_mbc, pc, bucket, mbc,
                     todo, history, overlap, raised>>
  BY DEF FlushResetBucket, ResetBucket
<1>2. Ahead' = Ahead
  BY <1>1 DEF Ahead
<1>3. (Shapes /\ OwnDictionary /\ Positions /\ Begun /\ Fresh /\ OnePlace)'
  BY <1>1 DEF Shapes, OwnDictionary, Positions, Begun, Fresh, OnePlace, InSubmit, history
<1>4. Once' /\ Kept'
  BY <1>1, <1>2 DEF Once, Kept, history
<1>5. Alone'
  <2>1. ~overlap => ~InSubmit("server") /\ ~InSubmit("reporter")
    BY <1>1 DEF Alone, Flushing, Positions, InSubmit
  <2> QED
    BY <1>1, <2>1 DEF Shapes, Alone, InSubmit, Threads, Flushing
<1> QED
  BY <1>3, <1>4, <1>5

\* Then its dictionary, to one that no bucket has.
LEMMA FlushResetMbcStep ==
    ASSUME Inductive, FlushResetMbc
    PROVE  Inductive'
<1> USE DEF Inductive
<1>1. /\ fpc = "reset" /\ fpc' = "wait" /\ heap' = NewDict /\ current_mbc' = Len(heap')
      /\ UNCHANGED <<now, value, metric_by_bucket, current_bucket, pc, bucket, mbc,
                     todo, history, overlap, raised>>
  BY DEF FlushResetMbc
<1>2. /\ heap' \in Seq(Dictionaries)
      /\ DOMAIN heap \subseteq DOMAIN heap'
      /\ Len(heap') \in DOMAIN heap'
      /\ \A d \in DOMAIN heap : heap'[d] = heap[d]
      /\ \A d, s : At(heap', d, s) <=> At(heap, d, s)
  BY <1>1, HeapGrows
<1>3. Ahead' = Ahead
  BY <1>1 DEF Ahead
<1>4. Shapes'
  <2>1. /\ metric_by_bucket \in [DOMAIN metric_by_bucket -> DOMAIN heap']
        /\ mbc \in [Threads -> DOMAIN heap']
    BY <1>2 DEF Shapes
  <2> QED
    BY <1>1, <1>2, <2>1 DEF Shapes, history
<1>5. (OwnDictionary /\ Positions /\ Begun)'
  BY <1>1, <1>2 DEF Shapes, OwnDictionary, Positions, Begun, InSubmit, history
<1>6. (Fresh /\ OnePlace)'
  BY <1>1, <1>2 DEF Fresh, OnePlace, InSubmit, At, history
<1>7. Once' /\ Kept'
  BY <1>1, <1>2, <1>3 DEF Once, Kept, history
<1>8. Alone'
  <2>1. ~overlap => ~InSubmit("server") /\ ~InSubmit("reporter")
    BY <1>1 DEF Alone, Flushing, Positions, InSubmit
  <2>2. ~overlap => current_bucket = None
    BY <1>1 DEF Alone
  <2> QED
    BY <1>1, <2>1, <2>2 DEF Shapes, Alone, InSubmit, Threads, Flushing
<1> QED
  BY <1>4, <1>5, <1>6, <1>7, <1>8

\* Every step keeps the invariant.
LEMMA InductiveStep == Inductive /\ [Next]_vars => Inductive'
<1> SUFFICES ASSUME Inductive, [Next]_vars PROVE Inductive'
  OBVIOUS
<1>1. CASE Tick
  BY <1>1, TickStep
<1>2. CASE Receive
  BY <1>2, ReceiveStep
<1>3. CASE SendPacketCount
  BY <1>3, SendPacketCountStep
<1>4. ASSUME NEW t \in Threads, Compare(t) \/ Cached(t) \/ Lookup(t) \/ Get(t)
      PROVE  Inductive'
  BY <1>4, CompareStep, CachedStep, LookupStep, GetStep
<1>5. ASSUME NEW t \in Threads, SetBucket(t) \/ SetMbc(t) \/ Insert(t)
      PROVE  Inductive'
  BY <1>5, SetBucketStep, SetMbcStep, InsertStep
<1>6. ASSUME NEW t \in Threads, SampleWrite(t)
      PROVE  Inductive'
  BY <1>6, CountStep, GaugeStep DEF Threads
<1>7. CASE SampleRead
  BY <1>7, SampleReadStep
<1>8. CASE FlushBegin \/ FlushMetrics \/ FlushDelete
  BY <1>8, FlushBeginStep, FlushMetricsStep, FlushDeleteStep
<1>9. CASE FlushResetBucket \/ FlushResetMbc
  BY <1>9, FlushResetBucketStep, FlushResetMbcStep
<1>10. CASE UNCHANGED vars
  <2> USE <1>10 DEF Inductive, vars, cache, flushVars, history
  <2>1. (Shapes /\ OwnDictionary /\ Positions /\ Begun /\ Fresh /\ OnePlace)'
    BY DEF Shapes, OwnDictionary, Positions, Begun, Fresh, OnePlace, InSubmit
  <2>2. Ahead' = Ahead
    BY DEF Ahead, Earliest
  <2>3. (Once /\ Alone /\ Kept)'
    BY <2>2 DEF Once, Alone, Kept, InSubmit, Flushing
  <2> QED
    BY <2>1, <2>3
<1> QED
  BY <1>1, <1>2, <1>3, <1>4, <1>5, <1>6, <1>7, <1>8, <1>9, <1>10 DEF Next

\* The inductive invariant holds of every reachable state.
LEMMA Invariant == Spec => []Inductive
BY InitiallyInductive, InductiveStep, PTL DEF Spec

-----------------------------------------------------------------------------
(***************************************************************************)
(* The theorems.                                                           *)
(***************************************************************************)
\* With two threads and no lock, in whatever order their reads and writes come: what they
\* share keeps its type, no two buckets share a dictionary, flush reports no sample of the
\* server a second time, and the lookup of the Reporter's own packet count, which nothing
\* guards, finds its bucket.
THEOREM ThreadsConsistent == Spec => []Consistent
<1>1. Inductive => Consistent
  <2> SUFFICES ASSUME Inductive PROVE Consistent
    OBVIOUS
  <2> USE DEF Inductive
  <2>1. AtMostOnce /\ ReporterSurvives
    BY DEF Once, Positions, AtMostOnce, ReporterSurvives
  <2>2. Range(metric_by_bucket) \subseteq DOMAIN heap
    BY DEF Shapes, Range
  <2>3. ASSUME NEW d \in DOMAIN heap
        PROVE  /\ DOMAIN heap[d] \subseteq Contexts
               /\ Range(heap[d]) \subseteq SUBSET (Samples \cup {0})
    <3>1. /\ DOMAIN heap[d] \subseteq Contexts
          /\ \A c \in DOMAIN heap[d] : heap[d][c] \subseteq Held(c)
      BY HeapFacts, DictionaryFacts
    <3> QED
      BY <3>1 DEF Held, Range
  <2>4. TypeOK
    BY <2>2, <2>3 DEF Shapes, TypeOK, Labels
  <2> QED
    BY <2>1, <2>4 DEF Consistent
<1> QED
  BY <1>1, Invariant, PTL

\* As long as the two threads were never in the aggregator at once, the cache points where
\* metric_by_bucket does, no datagram was dropped for a bucket that was gone, and each
\* sample waits in the bucket of its time or was reported for it.
THEOREM AloneNothingLost == Spec => []NothingLostAlone
<1>1. Inductive => NothingLostAlone
  <2> SUFFICES ASSUME Inductive, ~overlap PROVE NothingLostAlone
    BY DEF NothingLostAlone
  <2> USE DEF Inductive
  <2>1. ASSUME NEW t \in Threads, pc[t] = "cached"
        PROVE  /\ bucket[t] \in DOMAIN metric_by_bucket
               /\ current_mbc = metric_by_bucket[bucket[t]]
    <3>1. fpc \in {"wait", "count"}
      BY <2>1 DEF Alone, Positions, Flushing, InSubmit, Threads, Shapes
    <3>2. \A u \in Threads : pc[u] # "set_mbc"
      BY <2>1 DEF Alone, InSubmit, Threads
    <3>3. bucket[t] = current_bucket /\ current_bucket # None
      BY <2>1, ThreadsAssumption DEF Alone, Shapes, Times
    <3> QED
      BY <3>1, <3>2, <3>3 DEF Alone
  <2>2. ASSUME NEW s \in Samples
        PROVE  /\ fate[s] # "error"
               /\ Range(reported_for[s]) \subseteq {home[s]}
               /\ fate[s] = "stored"
                     => /\ home[s] \in DOMAIN metric_by_bucket
                        /\ s \in heap[metric_by_bucket[home[s]]]["server"]
    <3>1. DOMAIN reported_for[s] = 1 .. Len(reported_for[s])
      BY LenProperties DEF Shapes
    <3>2. Range(reported_for[s]) \subseteq {home[s]}
      BY <3>1 DEF Kept, Range
    <3> QED
      BY <3>2 DEF Kept, At, Ahead
  <2> QED
    BY <2>1, <2>2 DEF NothingLostAlone
<1> QED
  BY <1>1, Invariant, PTL
============================================================================
