----------------------- MODULE BucketAggregatorProofs -----------------------
(***************************************************************************)
(* Proofs about BucketAggregator, for any contexts, lengths of buckets,    *)
(* times and numbers of samples.                                           *)
(***************************************************************************)
EXTENDS BucketAggregator, TLAPS

\* Quotient and remainder.
LEMMA Division ==
    ASSUME NEW t \in Nat
    PROVE  /\ t \div INTERVAL \in Nat /\ t % INTERVAL \in 0 .. INTERVAL - 1
           /\ t = INTERVAL * (t \div INTERVAL) + (t % INTERVAL)
<1>1. INTERVAL \in Nat /\ INTERVAL > 0
  BY BucketAssumption
<1>2. t \div INTERVAL \in Nat
  BY <1>1
<1>3. t % INTERVAL \in 0 .. INTERVAL - 1
  BY <1>1
<1>4. t = INTERVAL * (t \div INTERVAL) + (t % INTERVAL)
  BY <1>1
<1> QED
  BY <1>2, <1>3, <1>4

\* A multiple of INTERVAL that is less than another is less by INTERVAL at least.
LEMMA Multiples ==
    ASSUME NEW p \in Nat, NEW q \in Nat, p < q
    PROVE  INTERVAL * p + INTERVAL <= INTERVAL * q
<1>1. PICK k \in Nat : q = p + 1 + k
  <2>1. q - p - 1 \in Nat /\ q = p + 1 + (q - p - 1)
    OBVIOUS
  <2> QED
    BY <2>1
<1>2. INTERVAL * (p + 1 + k) = INTERVAL * p + INTERVAL + INTERVAL * k
  BY BucketAssumption
<1>3. INTERVAL * k \in Nat /\ INTERVAL * p \in Nat
  BY BucketAssumption
<1> QED
  BY <1>1, <1>2, <1>3, BucketAssumption

\* A time is in its bucket, and buckets do not overlap.
LEMMA BucketStart ==
    /\ \A t \in Nat : /\ calculate_bucket_start(t) \in Nat
                      /\ calculate_bucket_start(t) <= t
                      /\ t < calculate_bucket_start(t) + INTERVAL
    /\ \A t, u \in Nat :
          /\ t <= u => calculate_bucket_start(t) <= calculate_bucket_start(u)
          /\ calculate_bucket_start(t) < calculate_bucket_start(u)
                => calculate_bucket_start(t) + INTERVAL <= calculate_bucket_start(u)
<1> DEFINE B(t) == INTERVAL * (t \div INTERVAL)
<1>1. ASSUME NEW t \in Nat
      PROVE  /\ calculate_bucket_start(t) = B(t)
             /\ B(t) \in Nat /\ B(t) <= t /\ t < B(t) + INTERVAL
  <2>1. B(t) \in Nat
    BY Division, BucketAssumption
  <2> QED
    BY <2>1, Division, BucketAssumption DEF calculate_bucket_start
<1>2. ASSUME NEW t \in Nat, NEW u \in Nat
      PROVE  /\ t <= u => B(t) <= B(u)
             /\ B(t) < B(u) => B(t) + INTERVAL <= B(u)
  <2> DEFINE p == t \div INTERVAL
             q == u \div INTERVAL
  <2>1. p \in Nat /\ q \in Nat
    BY Division
  <2>2. /\ p < q => B(t) + INTERVAL <= B(u)
        /\ q < p => B(u) + INTERVAL <= B(t)
        /\ p = q => B(t) = B(u)
    BY <2>1, Multiples
  <2>3. p < q \/ p = q \/ q < p
    BY <2>1
  <2>4. INTERVAL \in Nat /\ INTERVAL > 0
    BY BucketAssumption
  <2> HIDE DEF B, p, q
  <2> QED
    BY <1>1, <2>2, <2>3, <2>4
<1> QED
  BY <1>1, <1>2

-----------------------------------------------------------------------------
(***************************************************************************)
(* The inductive invariant.                                                *)
(***************************************************************************)
\* The buckets m have a metric of context c in bucket b.
Has(m, b, c) == b \in DOMAIN m /\ c \in DOMAIN m[b]

\* The types.
Shapes ==
    /\ now \in Times
    /\ metric_by_bucket = [b \in DOMAIN metric_by_bucket |-> metric_by_bucket[b]]
    /\ DOMAIN metric_by_bucket \subseteq Buckets
    /\ \A b \in DOMAIN metric_by_bucket :
          /\ metric_by_bucket[b] \in [DOMAIN metric_by_bucket[b] -> Metric]
          /\ DOMAIN metric_by_bucket[b] \subseteq Contexts
    /\ last_sample_time_by_context \in [DOMAIN last_sample_time_by_context -> Times]
    /\ DOMAIN last_sample_time_by_context \subseteq Counters
    /\ rpc \in {"wait", "flush"}
    /\ woken \in Times
    /\ todo \subseteq DOMAIN metric_by_bucket
    /\ expiry \in (0 - EXPIRY) .. MaxTime
    /\ submitted \in 0 .. MaxSamples
    /\ taken \in [Samples -> [context : Contexts \cup {None}, time : Times \cup {None}]]
    /\ fate \in [Samples -> {"none", "held", "overwritten", "reported", "expired"}]
    /\ points \in [Contexts \X Buckets -> Nat]

\* The clock, the buckets and the flush: what is complete has been looked at or will be by
\* the flush under way, and the flush uses the time it began at.
Clock ==
    /\ woken <= now
    /\ cutoff = calculate_bucket_start(woken)
    /\ rpc = "flush" => expiry = woken - EXPIRY
    /\ rpc = "wait" => todo = {}
    /\ \A b \in DOMAIN metric_by_bucket : b <= calculate_bucket_start(now)
    /\ \A b \in DOMAIN metric_by_bucket \ todo : cutoff <= b

\* What is known of a sample the server has submitted.
Known ==
    \A s \in Samples :
        /\ s \in Taken => /\ taken[s].context \in Contexts \ {PacketCount}
                          /\ taken[s].time \in Times /\ taken[s].time <= now
        /\ fate[s] # "none" => s \in Taken

\* A time of a sample of context c.
SampleTime(c, time) == \E s \in Taken : taken[s].context = c /\ taken[s].time = time

\* What metric m of context c has in bucket b: samples of its context and its bucket, none
\* later than its last one, of a gauge the last one only.  One without a time never had a
\* sample.
Sound(b, c, m) ==
    /\ m.last = None => m.value = {} /\ <<c, b>> \in failed
    /\ m.last # None => /\ calculate_bucket_start(m.last) = b
                        /\ m.last <= now
                        /\ c # PacketCount => SampleTime(c, m.last)
    /\ \A s \in Samples : s \in m.value =>
          /\ s \in Taken /\ fate[s] = "held"
          /\ taken[s].context = c /\ Home(s) = b
          /\ taken[s].time <= m.last
          /\ c \in Gauges => \A t \in Taken : taken[t].context = c /\ Home(t) = b => t <= s

\* So it is with every metric.
Metrics ==
    \A b \in Buckets, c \in Contexts :
        Has(metric_by_bucket, b, c) => Sound(b, c, metric_by_bucket[b][c])

\* What is held is in its metric.
Held ==
    \A s \in Samples : fate[s] = "held" => Holds(Home(s), taken[s].context, s)

\* What was reported was reported for its bucket, of a gauge only the last of a bucket.
Reported ==
    \A s \in Samples : fate[s] = "reported" =>
        /\ points[<<taken[s].context, Home(s)>>] > 0
        /\ taken[s].context \in Gauges =>
              \A t \in Taken : taken[t].context = taken[s].context /\ Home(t) = Home(s) => t <= s

\* A point is of a bucket before those that are left.
PointsPast ==
    \A c \in Contexts, b \in Buckets :
        /\ points[<<c, b>>] <= 1
        /\ points[<<c, b>>] > 0 => /\ b < cutoff
                               /\ \A d \in DOMAIN metric_by_bucket : b < d

\* The counters that report 0 had a sample.
Registered ==
    \A c \in DOMAIN last_sample_time_by_context :
        SampleTime(c, last_sample_time_by_context[c])

\* A counter in which no sample raised is known with the time of its last reported sample,
\* or had none for expiry_seconds.
Pace ==
    \A s \in Samples :
        /\ fate[s] = "reported" /\ taken[s].context \in Counters
        /\ \A d \in Buckets : <<taken[s].context, d>> \notin failed
        => \/ taken[s].time < woken - EXPIRY
           \/ /\ taken[s].context \in DOMAIN last_sample_time_by_context
              /\ taken[s].time <= last_sample_time_by_context[taken[s].context]

Inductive ==
    /\ Shapes /\ Clock /\ Known /\ Metrics /\ Held
    /\ Reported /\ PointsPast /\ Registered /\ Pace

\* The buckets of the times.
LEMMA BucketsOfTimes ==
    /\ Times \subseteq Nat /\ Buckets \subseteq Nat
    /\ \A t \in Times : calculate_bucket_start(t) \in Buckets
    /\ \A b \in Buckets : \E t \in Times : b = calculate_bucket_start(t)
<1>1. Times \subseteq Nat
  BY BucketAssumption DEF Times
<1>2. \A t \in Times : calculate_bucket_start(t) \in Buckets
  BY DEF Buckets
<1>3. \A b \in Buckets : \E t \in Times : b = calculate_bucket_start(t)
  BY DEF Buckets
<1> QED
  BY <1>1, <1>2, <1>3, BucketStart

\* The buckets W have the metrics of metric_by_bucket, and one of c in bucket b besides.
Extended(W, b, c) ==
    /\ W = [d \in DOMAIN W |-> W[d]]
    /\ DOMAIN W = DOMAIN metric_by_bucket \cup {b}
    /\ \A d \in DOMAIN W : /\ W[d] \in [DOMAIN W[d] -> Metric]
                           /\ DOMAIN W[d] \subseteq Contexts
    /\ \A d, e : Has(W, d, e) <=> Has(metric_by_bucket, d, e) \/ (d = b /\ e = c)
    /\ \A d, e : Has(metric_by_bucket, d, e) /\ ~(d = b /\ e = c)
                    => W[d][e] = metric_by_bucket[d][e]

\* WithMetric changes no metric, and creates a missing one as Unsampled.
LEMMA WithMetricFacts ==
    ASSUME Shapes, NEW b \in Buckets, NEW c \in Contexts
    PROVE  /\ Extended(WithMetric(b, c), b, c)
           /\ Has(metric_by_bucket, b, c)
                 => WithMetric(b, c)[b][c] = metric_by_bucket[b][c]
           /\ ~Has(metric_by_bucket, b, c) => WithMetric(b, c)[b][c] = Unsampled
<1> DEFINE W == WithMetric(b, c)
<1>1. /\ W = [d \in DOMAIN W |-> W[d]]
      /\ DOMAIN W = DOMAIN metric_by_bucket \cup {b}
      /\ \A d \in DOMAIN metric_by_bucket : d # b => W[d] = metric_by_bucket[d]
  BY DEF WithMetric
<1> DEFINE old == IF b \in DOMAIN metric_by_bucket THEN metric_by_bucket[b] ELSE <<>>
<1>2. W[b] = WithContext(old, c)
  BY DEF WithMetric
<1>3. /\ b \in DOMAIN metric_by_bucket => old = metric_by_bucket[b]
      /\ b \notin DOMAIN metric_by_bucket => DOMAIN old = {}
  OBVIOUS
<1>4. old \in [DOMAIN old -> Metric] /\ DOMAIN old \subseteq Contexts
  <2>1. CASE b \in DOMAIN metric_by_bucket
    BY <2>1 DEF Shapes
  <2>2. CASE b \notin DOMAIN metric_by_bucket
    <3>1. old = <<>> /\ DOMAIN old = {}
      BY <2>2
    <3>2. <<>> = [x \in {} |-> <<>>[x]]
      OBVIOUS
    <3> QED
      BY <3>1, <3>2
  <2> QED
    BY <2>1, <2>2
<1>5. Unsampled \in Metric
  BY DEF Unsampled, Metric
<1> HIDE DEF old, W
<1>6. /\ W[b] \in [DOMAIN W[b] -> Metric]
      /\ DOMAIN W[b] = DOMAIN old \cup {c}
      /\ \A d \in DOMAIN old : W[b][d] = old[d]
      /\ c \notin DOMAIN old => W[b][c] = Unsampled
  BY <1>2, <1>4, <1>5 DEF WithContext
<1>7. \A d \in DOMAIN W : /\ W[d] \in [DOMAIN W[d] -> Metric]
                          /\ DOMAIN W[d] \subseteq Contexts
  BY <1>1, <1>4, <1>6 DEF Shapes
<1>8. \A d, e : Has(W, d, e) <=> Has(metric_by_bucket, d, e) \/ (d = b /\ e = c)
  BY <1>1, <1>3, <1>6 DEF Has
<1>9. \A d, e : Has(metric_by_bucket, d, e) => W[d][e] = metric_by_bucket[d][e]
  BY <1>1, <1>3, <1>6 DEF Has
<1>10. ~Has(metric_by_bucket, b, c) => W[b][c] = Unsampled
  BY <1>3, <1>6 DEF Has
<1>11. Extended(W, b, c)
  BY <1>1, <1>7, <1>8, <1>9 DEF Extended
<1> QED
  BY <1>9, <1>10, <1>11 DEF W

\* The same when that metric is sampled.
LEMMA SampledFacts ==
    ASSUME Shapes, NEW b \in Buckets, NEW c \in Contexts, NEW m \in Metric
    PROVE  /\ Extended([WithMetric(b, c) EXCEPT ![b][c] = m], b, c)
           /\ [WithMetric(b, c) EXCEPT ![b][c] = m][b][c] = m
<1> DEFINE W == WithMetric(b, c)
           M == [W EXCEPT ![b][c] = m]
<1>0. Extended(W, b, c)
  BY WithMetricFacts
<1>2. M = [W EXCEPT ![b] = [W[b] EXCEPT ![c] = m]]
  OBVIOUS
<1> HIDE DEF W
<1>1. /\ W = [d \in DOMAIN W |-> W[d]]
      /\ DOMAIN W = DOMAIN metric_by_bucket \cup {b}
      /\ \A d \in DOMAIN W : /\ W[d] \in [DOMAIN W[d] -> Metric]
                             /\ DOMAIN W[d] \subseteq Contexts
      /\ \A d, e : Has(W, d, e) <=> Has(metric_by_bucket, d, e) \/ (d = b /\ e = c)
      /\ \A d, e : Has(metric_by_bucket, d, e) /\ ~(d = b /\ e = c)
                      => W[d][e] = metric_by_bucket[d][e]
  BY <1>0 DEF Extended
<1>3. c \in DOMAIN W[b] /\ b \in DOMAIN W
  BY <1>1 DEF Has
<1>4. /\ M = [d \in DOMAIN M |-> M[d]] /\ DOMAIN M = DOMAIN W
      /\ \A d \in DOMAIN W : d # b => M[d] = W[d]
      /\ M[b] = [W[b] EXCEPT ![c] = m]
  BY <1>1, <1>2, <1>3
<1> HIDE DEF M
<1>5. /\ DOMAIN M[b] = DOMAIN W[b] /\ M[b] \in [DOMAIN M[b] -> Metric]
      /\ M[b][c] = m
      /\ \A d \in DOMAIN W[b] : d # c => M[b][d] = W[b][d]
  <2>1. W[b] \in [DOMAIN W[b] -> Metric]
    BY <1>1, <1>3
  <2> QED
    BY <2>1, <1>3, <1>4
<1>6. \A d \in DOMAIN M : /\ M[d] \in [DOMAIN M[d] -> Metric]
                          /\ DOMAIN M[d] \subseteq Contexts
  BY <1>1, <1>4, <1>5
<1>7. \A d, e : Has(M, d, e) <=> Has(W, d, e)
  BY <1>4, <1>5 DEF Has
<1>8. \A d, e : Has(W, d, e) /\ ~(d = b /\ e = c) => M[d][e] = W[d][e]
  BY <1>4, <1>5 DEF Has
<1>9. \A d, e : Has(M, d, e) <=> Has(metric_by_bucket, d, e) \/ (d = b /\ e = c)
  BY <1>1, <1>7
<1>10. \A d, e : Has(M, d, e) /\ ~(d = b /\ e = c) => M[d][e] = metric_by_bucket[d][e]
  <2>1. ASSUME NEW d, NEW e, Has(M, d, e), ~(d = b /\ e = c)
        PROVE  M[d][e] = metric_by_bucket[d][e]
    <3>1. Has(W, d, e) /\ Has(metric_by_bucket, d, e)
      BY <2>1, <1>7, <1>9
    <3>2. M[d][e] = W[d][e]
      BY <2>1, <3>1, <1>8
    <3>3. W[d][e] = metric_by_bucket[d][e]
      BY <2>1, <3>1, <1>1
    <3> QED
      BY <3>2, <3>3
  <2> QED
    BY <2>1
<1>11. M = [d \in DOMAIN M |-> M[d]] /\ DOMAIN M = DOMAIN metric_by_bucket \cup {b}
  BY <1>1, <1>4
<1>12. Extended(M, b, c)
  BY <1>6, <1>9, <1>10, <1>11 DEF Extended
<1> QED
  BY <1>5, <1>12 DEF M, W

-----------------------------------------------------------------------------
(***************************************************************************)
(* The steps.                                                              *)
(***************************************************************************)
\* Initially there are no buckets and no samples.
LEMMA InitiallyInductive == Init => Inductive
<1> SUFFICES ASSUME Init PROVE Inductive
  OBVIOUS
<1>1. /\ DOMAIN metric_by_bucket = {} /\ metric_by_bucket = [b \in {} |-> b]
      /\ DOMAIN last_sample_time_by_context = {}
      /\ last_sample_time_by_context = [c \in {} |-> c]
  BY DEF Init
<1>2. 0 \in Times /\ calculate_bucket_start(0) = 0
  <2>1. /\ calculate_bucket_start(0) \in Nat /\ calculate_bucket_start(0) <= 0
    BY BucketStart
  <2> QED
    BY <2>1, BucketAssumption DEF Times
<1>3. Shapes
  <2>1. last_sample_time_by_context \in [DOMAIN last_sample_time_by_context -> Times]
    BY <1>1
  <2>2. taken \in [Samples -> [context : Contexts \cup {None}, time : Times \cup {None}]]
    BY DEF Init
  <2>3. fate \in [Samples -> {"none", "held", "overwritten", "reported", "expired"}]
    BY DEF Init
  <2>4. points \in [Contexts \X Buckets -> Nat]
    BY DEF Init
  <2>5. expiry \in (0 - EXPIRY) .. MaxTime /\ submitted \in 0 .. MaxSamples
    BY BucketAssumption DEF Init
  <2> QED
    BY <1>1, <1>2, <2>1, <2>2, <2>3, <2>4, <2>5 DEF Init, Shapes
<1>4. Clock
  BY <1>1, <1>2 DEF Init, Clock
<1>5. Known /\ Held /\ Reported /\ Pace
  BY DEF Init, Known, Held, Reported, Pace, Taken
<1>6. Metrics /\ Registered
  BY <1>1 DEF Metrics, Registered, Has
<1>7. PointsPast
  BY DEF Init, PointsPast
<1> QED
  BY <1>3, <1>4, <1>5, <1>6, <1>7 DEF Inductive

\* The clock moves.
LEMMA TickStep ==
    ASSUME Inductive, Tick
    PROVE  Inductive'
<1> USE DEF Inductive
<1>1. /\ now \in Nat /\ now' = now + 1 /\ now' \in Times
      /\ UNCHANGED <<metric_by_bucket, last_sample_time_by_context, rpc, woken, todo, cutoff,
                     expiry, submitted, taken, fate, points, failed>>
  BY BucketAssumption DEF Tick, Shapes, Times, reporter
<1>2. Shapes'
  BY <1>1 DEF Shapes
<1>3. Clock'
  <2>1. calculate_bucket_start(now) <= calculate_bucket_start(now')
    BY <1>1, BucketStart
  <2>2. /\ calculate_bucket_start(now) \in Nat /\ calculate_bucket_start(now') \in Nat
        /\ DOMAIN metric_by_bucket \subseteq Nat /\ woken \in Nat
    BY <1>1, BucketStart, BucketsOfTimes DEF Shapes
  <2>3. \A b \in DOMAIN metric_by_bucket : b <= calculate_bucket_start(now')
    BY <2>1, <2>2 DEF Clock
  <2>4. woken <= now'
    BY <1>1, <2>2 DEF Clock
  <2> QED
    BY <1>1, <2>3, <2>4 DEF Clock
<1>4. Known'
  <2>1. ASSUME NEW s \in Taken, s \in Samples PROVE taken[s].time <= now'
    BY <2>1, <1>1, BucketsOfTimes DEF Known
  <2> QED
    BY <1>1, <2>1 DEF Known, Taken
<1>5. Metrics'
  <2>1. ASSUME NEW b \in Buckets, NEW c \in Contexts, Has(metric_by_bucket, b, c),
               metric_by_bucket[b][c].last # None
        PROVE  metric_by_bucket[b][c].last <= now'
    <3>1. metric_by_bucket[b][c] \in Metric
      BY <2>1 DEF Shapes, Has
    <3>2. metric_by_bucket[b][c].last \in Nat
      BY <2>1, <3>1, BucketsOfTimes DEF Metric
    <3>3. metric_by_bucket[b][c].last <= now
      BY <2>1 DEF Metrics, Sound
    <3> QED
      BY <1>1, <3>2, <3>3
  <2> QED
    BY <1>1, <2>1 DEF Metrics, Sound, Home, Taken, SampleTime
<1>6. (Held /\ Reported /\ PointsPast /\ Registered /\ Pace)'
  BY <1>1 DEF Held, Reported, PointsPast, Registered, Pace, Holds, Home, Taken, SampleTime
<1> QED
  BY <1>2, <1>3, <1>4, <1>5, <1>6

\* flush returns.
LEMMA FlushEndStep ==
    ASSUME Inductive, flush_end
    PROVE  Inductive'
<1> USE DEF Inductive
<1>1. /\ rpc' = "wait" /\ todo = {}
      /\ UNCHANGED <<now, metric_by_bucket, last_sample_time_by_context, woken, todo, cutoff,
                     expiry, submitted, taken, fate, points, failed>>
  BY DEF flush_end
<1>2. (Shapes /\ Clock /\ Known)'
  BY <1>1 DEF Shapes, Clock, Known, Taken
<1>3. (Metrics /\ Held /\ Reported /\ PointsPast /\ Registered /\ Pace)'
  BY <1>1 DEF Metrics, Sound, Held, Reported, PointsPast, Registered, Pace, Holds, Home, Taken,
              SampleTime
<1> QED
  BY <1>2, <1>3

\* The present bucket is not before the cutoff of the last flush, nor one that was reported.
LEMMA PresentBucket ==
    ASSUME Shapes, Clock, PointsPast
    PROVE  LET b == calculate_bucket_start(now) IN
           /\ b \in Buckets /\ b \in Nat /\ cutoff \in Nat /\ cutoff <= b
           /\ \A c \in Contexts, d \in Buckets : points[<<c, d>>] > 0 => d < b
<1>1. now \in Nat /\ woken \in Nat /\ woken <= now
  BY BucketsOfTimes DEF Shapes, Clock
<1>2. /\ calculate_bucket_start(now) \in Buckets /\ calculate_bucket_start(now) \in Nat
      /\ cutoff \in Nat /\ cutoff <= calculate_bucket_start(now)
  BY <1>1, BucketStart, BucketsOfTimes DEF Shapes, Clock
<1>3. ASSUME NEW c \in Contexts, NEW d \in Buckets, points[<<c, d>>] > 0
      PROVE  d < calculate_bucket_start(now)
  BY <1>2, <1>3, BucketsOfTimes DEF PointsPast
<1> QED
  BY <1>2, <1>3

\* A sample is submitted: it is in its metric, where it replaces the one of a gauge.
LEMMA SubmitStep ==
    ASSUME Inductive, NEW c \in Contexts \ {PacketCount}, submit_metric(c)
    PROVE  Inductive'
<1> USE DEF Inductive
<1>a. PICK b : b = calculate_bucket_start(now)
  OBVIOUS
<1>s. PICK s : s = submitted + 1
  OBVIOUS
<1>w. PICK mbb : mbb = WithMetric(b, c)
  OBVIOUS
<1>o. PICK old : old = mbb[b][c].value
  OBVIOUS
<1>m. PICK m : m = sample(c, mbb[b][c], s)
  OBVIOUS
<1>1. /\ metric_by_bucket' = [mbb EXCEPT ![b][c] = m]
      /\ submitted < MaxSamples /\ submitted' = s
      /\ taken' = [taken EXCEPT ![s] = [context |-> c, time |-> now]]
      /\ fate' = [t \in Samples |->
                     IF t = s THEN "held"
                     ELSE IF t \in old \ metric_by_bucket'[b][c].value
                     THEN "overwritten" ELSE fate[t]]
      /\ UNCHANGED <<now, last_sample_time_by_context, rpc, woken, todo, cutoff, expiry,
                     points, failed>>
  BY <1>a, <1>s, <1>w, <1>o, <1>m DEF submit_metric, reporter
<1>2. /\ b \in Buckets /\ b \in Nat /\ cutoff \in Nat /\ cutoff <= b
      /\ \A d \in Contexts, e \in Buckets : points[<<d, e>>] > 0 => e < b
      /\ c \in Contexts /\ Shapes
  BY <1>a, PresentBucket
<1>3. /\ submitted \in Nat /\ s \in Samples /\ s \notin Taken /\ now \in Times /\ now \in Nat
      /\ now # None /\ Taken' = Taken \cup {s} /\ Taken \subseteq Nat /\ \A t \in Taken : t < s
      /\ Taken \subseteq Samples
  <2>1. submitted \in Nat /\ MaxSamples \in Nat /\ s = submitted + 1 /\ submitted < MaxSamples
    BY <1>1, <1>s, BucketAssumption DEF Shapes
  <2>2. now \in Times /\ now \in Nat /\ now # None
    BY BucketAssumption, BucketsOfTimes DEF Shapes
  <2> QED
    BY <2>1, <2>2, <1>1 DEF Samples, Taken
<1>4. mbb[b][c] \in Metric /\ \A t \in Samples : t \in old <=> Holds(b, c, t)
  <2>1. /\ Extended(mbb, b, c)
        /\ Has(metric_by_bucket, b, c) => mbb[b][c] = metric_by_bucket[b][c]
        /\ ~Has(metric_by_bucket, b, c) => mbb[b][c] = Unsampled
    BY <1>2, <1>w, WithMetricFacts
  <2>2. Has(mbb, b, c)
    BY <2>1 DEF Extended
  <2>3. mbb[b][c] \in Metric
    BY <2>1, <2>2 DEF Has, Extended
  <2>4. Unsampled.value = {}
    BY DEF Unsampled
  <2> QED
    BY <2>1, <2>2, <2>3, <2>4, <1>o DEF Holds, Has
<1>5. /\ m \in Metric /\ m.last = now
      /\ \A t \in Samples : t \in m.value <=> t = s \/ (c \notin Gauges /\ t \in old)
  <2>1. mbb[b][c].value \in SUBSET (Samples \cup {0})
    BY <1>4 DEF Metric
  <2>2. m = [value |-> IF c \in Gauges THEN {s} ELSE old \cup {s}, last |-> now]
    BY <1>m, <1>o DEF sample
  <2> QED
    BY <2>1, <2>2, <1>3, <1>o DEF Metric
<1>6. /\ metric_by_bucket' = [d \in DOMAIN metric_by_bucket' |-> metric_by_bucket'[d]]
      /\ DOMAIN metric_by_bucket' = DOMAIN metric_by_bucket \cup {b}
      /\ \A d \in DOMAIN metric_by_bucket' :
            /\ metric_by_bucket'[d] \in [DOMAIN metric_by_bucket'[d] -> Metric]
            /\ DOMAIN metric_by_bucket'[d] \subseteq Contexts
      /\ \A d, e : Has(metric_by_bucket', d, e)
                      <=> Has(metric_by_bucket, d, e) \/ (d = b /\ e = c)
      /\ \A d, e : Has(metric_by_bucket, d, e) /\ ~(d = b /\ e = c)
                      => metric_by_bucket'[d][e] = metric_by_bucket[d][e]
      /\ metric_by_bucket'[b][c] = m
  <2>1. metric_by_bucket' = [WithMetric(b, c) EXCEPT ![b][c] = m]
    BY <1>1, <1>w
  <2>2. Extended(metric_by_bucket', b, c) /\ metric_by_bucket'[b][c] = m
    BY <2>1, <1>2, <1>5, SampledFacts
  <2> QED
    BY <2>2 DEF Extended
<1>7. /\ fate'[s] = "held"
      /\ \A t \in Samples : t # s => fate'[t] = IF t \in old /\ c \in Gauges
                                                THEN "overwritten" ELSE fate[t]
  BY <1>1, <1>3, <1>5, <1>6
<1>8. /\ taken'[s] = [context |-> c, time |-> now]
      /\ \A t \in Samples : t # s => taken'[t] = taken[t]
  BY <1>1, <1>3 DEF Shapes
<1>9. Home(s)' = b /\ \A t \in Samples : t # s => Home(t)' = Home(t)
  BY <1>a, <1>1, <1>8 DEF Home
<1>10. \A d \in Buckets, e \in Contexts, t \in Samples :
          Holds(d, e, t)' <=> IF d = b /\ e = c THEN t = s \/ (c \notin Gauges /\ t \in old)
                                                ELSE Holds(d, e, t)
  BY <1>5, <1>6 DEF Holds, Has
<1>11. \A t \in Samples : t \in old => t \in Taken /\ fate[t] = "held"
                                       /\ taken[t].context = c /\ Home(t) = b /\ t # s
  <2>1. ASSUME NEW t \in Samples, t \in old
        PROVE  Has(metric_by_bucket, b, c) /\ t \in metric_by_bucket[b][c].value
    BY <2>1, <1>4 DEF Holds, Has
  <2>2. ASSUME NEW t \in Samples, t \in old
        PROVE  /\ t \in Taken /\ fate[t] = "held" /\ taken[t].context = c /\ Home(t) = b
               /\ taken[t].time <= metric_by_bucket[b][c].last
    <3>1. Has(metric_by_bucket, b, c) /\ t \in metric_by_bucket[b][c].value
      BY <2>1, <2>2
    <3>2. Sound(b, c, metric_by_bucket[b][c])
      BY <3>1, <1>2 DEF Metrics
    <3> QED
      BY <3>1, <3>2 DEF Sound
  <2> QED
    BY <2>2, <1>3
<1>12. Shapes'
  <2>1. taken' \in [Samples -> [context : Contexts \cup {None}, time : Times \cup {None}]]
    BY <1>1, <1>3 DEF Shapes
  <2>2. fate' \in [Samples -> {"none", "held", "overwritten", "reported", "expired"}]
    BY <1>1 DEF Shapes
  <2>3. submitted' \in 0 .. MaxSamples
    BY <1>1, <1>3 DEF Samples
  <2>4. DOMAIN metric_by_bucket' \subseteq Buckets /\ todo' \subseteq DOMAIN metric_by_bucket'
    BY <1>1, <1>2, <1>6 DEF Shapes
  <2> QED
    BY <1>1, <1>6, <2>1, <2>2, <2>3, <2>4 DEF Shapes
<1>13. Clock'
  BY <1>1, <1>2, <1>6, <1>a DEF Clock
<1>14. Known'
  <2>1. taken'[s].context = c /\ taken'[s].time = now
    BY <1>8
  <2> QED
    BY <1>1, <1>3, <1>7, <1>8, <1>11, <2>1 DEF Known
<1>15. \A d \in Contexts : \A u : SampleTime(d, u) => SampleTime(d, u)'
  <2>1. \A t \in Taken : t \in Samples /\ t # s /\ t \in Taken'
    BY <1>3
  <2> QED
    BY <1>8, <2>1 DEF SampleTime
<1>16. Metrics'
  <2> SUFFICES ASSUME NEW d \in Buckets, NEW e \in Contexts, Has(metric_by_bucket', d, e)
               PROVE  Sound(d, e, metric_by_bucket[d][e])'
    BY DEF Metrics, Has
  <2> SUFFICES ASSUME NEW n, n = metric_by_bucket'[d][e]
               PROVE  Sound(d, e, n)'
    BY DEF Sound
  <2>0. \A u \in Taken : u \in Samples /\ u # s
    BY <1>3
  <2>1. CASE d = b /\ e = c
    <3>1. n = m
      BY <2>1, <1>6
    <3>2. \E t \in Taken' : taken'[t].context = c /\ taken'[t].time = now
      BY <1>3, <1>8
    <3>3. ASSUME NEW t \in Samples, t \in n.value
          PROVE  /\ t \in Taken' /\ fate'[t] = "held"
                 /\ taken'[t].context = e /\ Home(t)' = d
                 /\ taken'[t].time <= n.last
                 /\ e \in Gauges => t = s
      <4>1. t = s \/ (c \notin Gauges /\ t \in old)
        BY <3>1, <3>3, <1>5
      <4>2. CASE t = s
        BY <4>2, <2>1, <3>1, <1>3, <1>5, <1>7, <1>8, <1>9
      <4>3. CASE c \notin Gauges /\ t \in old
        BY <4>3, <2>1, <3>1, <1>3, <1>5, <1>7, <1>8, <1>9, <1>11 DEF Known
      <4> QED
        BY <4>1, <4>2, <4>3
    <3>4. \A u \in Taken' : u <= s
      BY <1>3
    <3>5. /\ n.last # None /\ n.last = now /\ n.last <= now /\ now' = now
          /\ calculate_bucket_start(n.last) = d
      BY <2>1, <3>1, <1>1, <1>3, <1>5, <1>a
    <3> QED
      BY <2>1, <3>2, <3>3, <3>4, <3>5 DEF Sound, SampleTime
  <2>2. CASE ~(d = b /\ e = c)
    <3>1. Has(metric_by_bucket, d, e) /\ n = metric_by_bucket[d][e]
      BY <2>2, <1>6
    <3>2. Sound(d, e, n)
      BY <3>1 DEF Metrics
    <3>3. ASSUME NEW t \in Samples, t \in n.value
          PROVE  /\ t \in Taken' /\ fate'[t] = "held"
                 /\ taken'[t].context = e /\ Home(t)' = d
                 /\ taken'[t].time <= n.last
                 /\ e \in Gauges => \A u \in Taken' :
                       taken'[u].context = e /\ Home(u)' = d => u <= t
      <4>1. /\ t \in Taken /\ fate[t] = "held"
            /\ taken[t].context = e /\ Home(t) = d /\ taken[t].time <= n.last
            /\ e \in Gauges => \A u \in Taken :
                  taken[u].context = e /\ Home(u) = d => u <= t
        BY <3>2, <3>3 DEF Sound
      <4>2. t # s /\ t \notin old
        BY <2>2, <4>1, <1>3, <1>11
      <4>3. fate'[t] = "held" /\ taken'[t] = taken[t] /\ Home(t)' = Home(t) /\ t \in Taken'
        BY <4>1, <4>2, <1>3, <1>7, <1>8, <1>9
      <4>4. taken'[s].context = c /\ Home(s)' = b
        BY <1>8, <1>9
      <4>5. \A u \in Taken : taken'[u] = taken[u] /\ Home(u)' = Home(u)
        BY <2>0, <1>8, <1>9
      <4> QED
        BY <2>2, <4>1, <4>3, <4>4, <4>5, <1>3
    <3>4. n.last = None => n.value = {} /\ <<e, d>> \in failed
      BY <3>2 DEF Sound
    <3>5. n.last # None => /\ calculate_bucket_start(n.last) = d /\ n.last <= now
                           /\ e # PacketCount => SampleTime(e, n.last)
      BY <3>2 DEF Sound
    <3>6. e # PacketCount /\ n.last # None
             => \E t \in Taken' : taken'[t].context = e /\ taken'[t].time = n.last
      BY <3>5, <2>0, <1>3, <1>8 DEF SampleTime
    <3> QED
      BY <3>3, <3>4, <3>5, <3>6, <1>1 DEF Sound, SampleTime
  <2> QED
    BY <2>1, <2>2
<1>17. Held'
  <2> SUFFICES ASSUME NEW t \in Samples, fate'[t] = "held"
               PROVE  Holds(Home(t), taken[t].context, t)'
    BY DEF Held
  <2>1. CASE t = s
    BY <2>1, <1>2, <1>3, <1>8, <1>9, <1>10
  <2>2. CASE t # s
    <3>1. fate[t] = "held" /\ (t \in old => c \notin Gauges)
      BY <2>2, <1>7
    <3>2. Holds(Home(t), taken[t].context, t)
      BY <3>1 DEF Held
    <3>3. Home(t) \in Buckets /\ taken[t].context \in Contexts
      BY <3>1, BucketsOfTimes DEF Known, Home
    <3>4. t \notin old => ~(Home(t) = b /\ taken[t].context = c)
      BY <3>2, <1>4
    <3> QED
      BY <2>2, <3>1, <3>2, <3>3, <3>4, <1>8, <1>9, <1>10
  <2> QED
    BY <2>1, <2>2
<1>18. Reported' /\ Pace'
  <2>1. ASSUME NEW t \in Samples, fate'[t] = "reported"
        PROVE  fate[t] = "reported" /\ t # s /\ taken'[t] = taken[t] /\ Home(t)' = Home(t)
               /\ Home(t) # b
    <3>1. fate[t] = "reported" /\ t # s
      BY <2>1, <1>7
    <3>2. Home(t) \in Buckets /\ taken[t].context \in Contexts
      BY <3>1, BucketsOfTimes DEF Known, Home
    <3>3. Home(t) < b /\ Home(t) \in Nat
      BY <3>1, <3>2, <1>2, BucketsOfTimes DEF Reported
    <3> QED
      BY <3>1, <3>3, <1>2, <1>8, <1>9
  <2>2. \A u \in Taken : u \in Samples /\ u # s
    BY <1>3
  <2>3. Reported'
    BY <2>1, <2>2, <1>1, <1>3, <1>8, <1>9 DEF Reported
  <2>4. Pace'
    BY <2>1, <1>1 DEF Pace
  <2> QED
    BY <2>3, <2>4
<1>19. PointsPast'
  <2>1. ASSUME NEW e \in Contexts, NEW d \in Buckets, points[<<e, d>>] > 0
        PROVE  \A f \in DOMAIN metric_by_bucket' : d < f
    BY <2>1, <1>2, <1>6 DEF PointsPast
  <2> QED
    BY <2>1, <1>1 DEF PointsPast
<1>20. Registered'
  BY <1>1, <1>15, BucketAssumption DEF Registered, Shapes, Contexts
<1> QED
  BY <1>12, <1>13, <1>14, <1>16, <1>17, <1>18, <1>19, <1>20

\* A sample raises: the metric it was for is there, without it.
LEMMA SubmitFailsStep ==
    ASSUME Inductive, NEW c \in Contexts \ {PacketCount}, submit_fails(c)
    PROVE  Inductive'
<1> USE DEF Inductive
<1>a. PICK b : b = calculate_bucket_start(now)
  OBVIOUS
<1>1. /\ metric_by_bucket' = WithMetric(b, c)
      /\ failed' = failed \cup {<<c, b>>}
      /\ UNCHANGED <<now, last_sample_time_by_context, rpc, woken, todo, cutoff, expiry,
                     submitted, taken, fate, points>>
  BY <1>a DEF submit_fails, reporter
<1>2. /\ b \in Buckets /\ b \in Nat /\ cutoff \in Nat /\ cutoff <= b
      /\ \A d \in Contexts, e \in Buckets : points[<<d, e>>] > 0 => e < b
      /\ c \in Contexts /\ Shapes
  BY <1>a, PresentBucket
<1>3. /\ metric_by_bucket' = [d \in DOMAIN metric_by_bucket' |-> metric_by_bucket'[d]]
      /\ DOMAIN metric_by_bucket' = DOMAIN metric_by_bucket \cup {b}
      /\ \A d \in DOMAIN metric_by_bucket' :
            /\ metric_by_bucket'[d] \in [DOMAIN metric_by_bucket'[d] -> Metric]
            /\ DOMAIN metric_by_bucket'[d] \subseteq Contexts
      /\ \A d, e : Has(metric_by_bucket', d, e)
                      <=> Has(metric_by_bucket, d, e) \/ (d = b /\ e = c)
      /\ \A d, e : Has(metric_by_bucket, d, e)
                      => metric_by_bucket'[d][e] = metric_by_bucket[d][e]
      /\ ~Has(metric_by_bucket, b, c) => metric_by_bucket'[b][c] = Unsampled
  <2>1. /\ Extended(metric_by_bucket', b, c)
        /\ Has(metric_by_bucket, b, c) => metric_by_bucket'[b][c] = metric_by_bucket[b][c]
        /\ ~Has(metric_by_bucket, b, c) => metric_by_bucket'[b][c] = Unsampled
    BY <1>1, <1>2, WithMetricFacts
  <2> QED
    BY <2>1 DEF Extended
<1>4. Unsampled.value = {} /\ Unsampled.last = None
  BY DEF Unsampled
<1>5. \A d \in Buckets, e \in Contexts, t \in Samples : Holds(d, e, t)' <=> Holds(d, e, t)
  BY <1>3, <1>4 DEF Holds, Has
<1>6. Taken' = Taken /\ \A t \in Samples : Home(t)' = Home(t)
  BY <1>1 DEF Taken, Home
<1>7. \A d, u : SampleTime(d, u)' <=> SampleTime(d, u)
  BY <1>1, <1>6 DEF SampleTime
<1>8. Shapes'
  <2>1. DOMAIN metric_by_bucket' \subseteq Buckets /\ todo' \subseteq DOMAIN metric_by_bucket'
    BY <1>1, <1>2, <1>3 DEF Shapes
  <2> QED
    BY <1>1, <1>3, <2>1 DEF Shapes
<1>9. Clock'
  BY <1>1, <1>2, <1>3, <1>a DEF Clock
<1>10. Known'
  BY <1>1, <1>6 DEF Known
<1>11. Metrics'
  <2> SUFFICES ASSUME NEW d \in Buckets, NEW e \in Contexts, Has(metric_by_bucket', d, e)
               PROVE  Sound(d, e, metric_by_bucket[d][e])'
    BY DEF Metrics, Has
  <2> SUFFICES ASSUME NEW n, n = metric_by_bucket'[d][e]
               PROVE  Sound(d, e, n)'
    BY DEF Sound
  <2>1. CASE Has(metric_by_bucket, d, e)
    <3>1. n = metric_by_bucket[d][e]
      BY <2>1, <1>3
    <3> QED
      BY <2>1, <3>1, <1>1 DEF Metrics, Sound, SampleTime, Taken, Home
  <2>2. CASE ~Has(metric_by_bucket, d, e)
    <3>1. d = b /\ e = c /\ n = Unsampled
      BY <2>2, <1>3
    <3> QED
      BY <3>1, <1>1, <1>4 DEF Sound
  <2> QED
    BY <2>1, <2>2
<1>12. Held'
  <2>1. ASSUME NEW t \in Samples, fate[t] = "held"
        PROVE  Home(t) \in Buckets /\ taken[t].context \in Contexts
    BY <2>1, BucketsOfTimes DEF Known, Home
  <2> QED
    BY <2>1, <1>1, <1>5, <1>6 DEF Held
<1>13. Reported' /\ Registered'
  BY <1>1 DEF Reported, Registered, SampleTime, Taken, Home
<1>14. PointsPast'
  BY <1>1, <1>2, <1>3 DEF PointsPast
<1>15. Pace'
  BY <1>1 DEF Pace
<1> QED
  BY <1>8, <1>9, <1>10, <1>11, <1>12, <1>13, <1>14, <1>15

\* The Reporter submits its own gauge and reads the clock and the list of buckets.
LEMMA FlushBeginStep ==
    ASSUME Inductive, flush_begin
    PROVE  Inductive'
<1> USE DEF Inductive
<1>a. PICK b : b = calculate_bucket_start(now)
  OBVIOUS
<1>m. PICK m : m = [value |-> {0}, last |-> now]
  OBVIOUS
<1>1. /\ metric_by_bucket' = [WithMetric(b, PacketCount) EXCEPT ![b][PacketCount] = m]
      /\ rpc = "wait" /\ rpc' = "flush" /\ now >= woken + FLUSH_INTERVAL
      /\ woken' = now /\ cutoff' = b /\ expiry' = now - EXPIRY
      /\ todo' = DOMAIN metric_by_bucket'
      /\ UNCHANGED <<now, last_sample_time_by_context, submitted, taken, fate, points, failed>>
  BY <1>a, <1>m DEF flush_begin
<1>2. /\ b \in Buckets /\ b \in Nat /\ cutoff \in Nat /\ cutoff <= b
      /\ \A d \in Contexts, e \in Buckets : points[<<d, e>>] > 0 => e < b
  BY <1>a, PresentBucket
<1>3. /\ now \in Times /\ now \in Nat /\ woken \in Nat /\ now # None /\ woken <= now
      /\ EXPIRY \in Nat /\ MaxTime \in Nat /\ now <= MaxTime
  BY BucketAssumption, BucketsOfTimes DEF Shapes, Clock, Times
<1>4. /\ PacketCount \in Contexts /\ PacketCount \in Gauges
      /\ m \in Metric /\ m.last = now /\ m.value = {0}
      /\ \A t \in Samples : t \notin m.value
  <2>1. PacketCount \in Contexts /\ PacketCount \in Gauges
    BY BucketAssumption DEF Contexts
  <2>2. \A t \in Samples : t \notin {0}
    BY BucketAssumption DEF Samples
  <2> QED
    BY <2>1, <2>2, <1>3, <1>m DEF Metric
<1>5. /\ metric_by_bucket' = [d \in DOMAIN metric_by_bucket' |-> metric_by_bucket'[d]]
      /\ DOMAIN metric_by_bucket' = DOMAIN metric_by_bucket \cup {b}
      /\ \A d \in DOMAIN metric_by_bucket' :
            /\ metric_by_bucket'[d] \in [DOMAIN metric_by_bucket'[d] -> Metric]
            /\ DOMAIN metric_by_bucket'[d] \subseteq Contexts
      /\ \A d, e : Has(metric_by_bucket', d, e)
                      <=> Has(metric_by_bucket, d, e) \/ (d = b /\ e = PacketCount)
      /\ \A d, e : Has(metric_by_bucket, d, e) /\ ~(d = b /\ e = PacketCount)
                      => metric_by_bucket'[d][e] = metric_by_bucket[d][e]
      /\ metric_by_bucket'[b][PacketCount] = m
  <2>1. Extended(metric_by_bucket', b, PacketCount) /\ metric_by_bucket'[b][PacketCount] = m
    <3>1. /\ Shapes /\ b \in Buckets /\ PacketCount \in Contexts /\ m \in Metric
          /\ metric_by_bucket' = [WithMetric(b, PacketCount) EXCEPT ![b][PacketCount] = m]
      BY <1>1, <1>2, <1>4
    <3> QED
      BY ONLY <3>1, SampledFacts
  <2> QED
    BY <2>1 DEF Extended
<1>6. Taken' = Taken /\ \A t \in Samples : Home(t)' = Home(t)
  BY <1>1 DEF Taken, Home
<1>7. \A d, u : SampleTime(d, u)' <=> SampleTime(d, u)
  BY <1>1, <1>6 DEF SampleTime
<1>8. Shapes'
  <2>1. DOMAIN metric_by_bucket' \subseteq Buckets /\ todo' \subseteq DOMAIN metric_by_bucket'
    BY <1>1, <1>2, <1>5 DEF Shapes
  <2>2. expiry' \in (0 - EXPIRY) .. MaxTime
    BY <1>1, <1>3
  <2> QED
    BY <1>1, <1>3, <1>5, <2>1, <2>2 DEF Shapes
<1>9. Clock'
  <2>1. \A d \in DOMAIN metric_by_bucket' : d <= b
    BY <1>2, <1>5, <1>a DEF Clock
  <2> QED
    BY <1>1, <1>3, <1>a, <2>1 DEF Clock
<1>10. Known'
  BY <1>1, <1>6 DEF Known
<1>11. Metrics'
  <2> SUFFICES ASSUME NEW d \in Buckets, NEW e \in Contexts, Has(metric_by_bucket', d, e)
               PROVE  Sound(d, e, metric_by_bucket[d][e])'
    BY DEF Metrics, Has
  <2> SUFFICES ASSUME NEW n, n = metric_by_bucket'[d][e]
               PROVE  Sound(d, e, n)'
    BY DEF Sound
  <2>1. CASE d = b /\ e = PacketCount
    <3>1. n = m
      BY <2>1, <1>5
    <3> QED
      BY <2>1, <3>1, <1>1, <1>3, <1>4, <1>a DEF Sound
  <2>2. CASE ~(d = b /\ e = PacketCount)
    <3>1. Has(metric_by_bucket, d, e) /\ n = metric_by_bucket[d][e]
      BY <2>2, <1>5
    <3> QED
      BY <3>1, <1>1 DEF Metrics, Sound, SampleTime, Taken, Home
  <2> QED
    BY <2>1, <2>2
<1>12. Held'
  <2>1. ASSUME NEW t \in Samples, fate[t] = "held"
        PROVE  Holds(Home(t), taken[t].context, t)'
    <3>1. Holds(Home(t), taken[t].context, t) /\ taken[t].context # PacketCount
      BY <2>1 DEF Held, Known
    <3> QED
      BY <3>1, <1>1, <1>5, <1>6 DEF Holds, Has
  <2> QED
    BY <2>1, <1>1 DEF Held
<1>13. Reported' /\ Registered'
  BY <1>1 DEF Reported, Registered, SampleTime, Taken, Home
<1>14. PointsPast'
  <2>1. ASSUME NEW e \in Contexts, NEW d \in Buckets, points[<<e, d>>] > 0
        PROVE  d < b /\ \A f \in DOMAIN metric_by_bucket' : d < f
    BY <2>1, <1>2, <1>5 DEF PointsPast
  <2> QED
    BY <2>1, <1>1 DEF PointsPast
<1>15. Pace'
  <2>1. ASSUME NEW t \in Samples, fate[t] = "reported", taken[t].time < woken - EXPIRY
        PROVE  taken[t].time < now - EXPIRY
    <3>1. taken[t].time \in Nat
      BY <2>1, BucketsOfTimes DEF Known
    <3> QED
      BY <2>1, <3>1, <1>3
  <2> QED
    BY <2>1, <1>1 DEF Pace
<1> QED
  BY <1>8, <1>9, <1>10, <1>11, <1>12, <1>13, <1>14, <1>15

-----------------------------------------------------------------------------
(***************************************************************************)
(* A flushed bucket.                                                       *)
(***************************************************************************)
\* What flush_bucket calls old, good, sampled and empty for bucket b.
Old(b) == {c \in DOMAIN metric_by_bucket[b] : TooOld(metric_by_bucket[b][c].last)}
Good(b) == DOMAIN metric_by_bucket[b] \ Old(b)
Sampled(b) == Good(b) \cap Counters
Empty(b) == Reporting(Restrict(last_sample_time_by_context,
                               DOMAIN last_sample_time_by_context \ (Old(b) \cup Sampled(b))))

\* Sample t is in bucket b, in a metric that is reported.
HeldIn(b, t) == \E c \in DOMAIN metric_by_bucket[b] : t \in metric_by_bucket[b][c].value
SentIn(b, t) == \E c \in Good(b) : t \in metric_by_bucket[b][c].value

\* Bucket b stays, because it is not complete.
Skips(b) ==
    /\ cutoff <= b
    /\ todo' = todo \ {b}
    /\ UNCHANGED <<now, metric_by_bucket, last_sample_time_by_context, rpc, woken, cutoff,
                   expiry, submitted, taken, fate, points, failed>>

\* Bucket b, the first of all, is reported and removed.
Reports(b) ==
    /\ b < cutoff
    /\ todo' = todo \ {b}
    /\ \A d \in DOMAIN metric_by_bucket \ {b} : b < d
    /\ metric_by_bucket' = [d \in DOMAIN metric_by_bucket \ {b} |-> metric_by_bucket[d]]
    /\ last_sample_time_by_context' =
          [c \in Empty(b) \cup Sampled(b) |->
              IF c \in Sampled(b) THEN metric_by_bucket[b][c].last
              ELSE last_sample_time_by_context[c]]
    /\ points' \in [Contexts \X Buckets -> Nat]
    /\ \A c \in Contexts, d \in Buckets :
          points'[<<c, d>>] = IF d = b /\ c \in Good(b) \cup Empty(b) THEN 1
                              ELSE points[<<c, d>>]
    /\ \A t \in Samples : fate'[t] = IF SentIn(b, t) THEN "reported"
                                     ELSE IF HeldIn(b, t) THEN "expired" ELSE fate[t]
    /\ DOMAIN fate' = Samples /\ fate' = [t \in Samples |-> fate'[t]]
    /\ UNCHANGED <<now, rpc, woken, cutoff, expiry, submitted, taken, failed>>

\* What is in a bucket that is there: nothing was reported for it yet.
LEMMA BucketFacts ==
    ASSUME Inductive, NEW b \in DOMAIN metric_by_bucket
    PROVE  /\ b \in Buckets /\ b \in Nat /\ DOMAIN metric_by_bucket[b] \subseteq Contexts
           /\ \A c \in DOMAIN metric_by_bucket[b] :
                 /\ metric_by_bucket[b][c] \in Metric /\ Sound(b, c, metric_by_bucket[b][c])
           /\ \A c \in Contexts : points[<<c, b>>] = 0
           /\ \A t \in Samples : HeldIn(b, t) =>
                 /\ t \in Taken /\ fate[t] = "held" /\ Home(t) = b
                 /\ taken[t].context \in DOMAIN metric_by_bucket[b]
                 /\ t \in metric_by_bucket[b][taken[t].context].value
<1>1. b \in Buckets /\ b \in Nat /\ DOMAIN metric_by_bucket[b] \subseteq Contexts
  BY BucketsOfTimes DEF Inductive, Shapes
<1>2. ASSUME NEW c \in DOMAIN metric_by_bucket[b]
      PROVE  metric_by_bucket[b][c] \in Metric /\ Sound(b, c, metric_by_bucket[b][c])
  <2>1. metric_by_bucket[b] \in [DOMAIN metric_by_bucket[b] -> Metric]
    BY DEF Inductive, Shapes
  <2>2. Sound(b, c, metric_by_bucket[b][c])
    BY <1>1 DEF Inductive, Metrics, Has
  <2> QED
    BY <2>1, <2>2
<1>3. ASSUME NEW c \in Contexts
      PROVE  points[<<c, b>>] = 0
  <2>1. points[<<c, b>>] \in Nat
    BY <1>1 DEF Inductive, Shapes
  <2>2. ~(points[<<c, b>>] > 0)
    BY <1>1 DEF Inductive, PointsPast
  <2> QED
    BY <2>1, <2>2
<1>4. ASSUME NEW t \in Samples, HeldIn(b, t)
      PROVE  /\ t \in Taken /\ fate[t] = "held" /\ Home(t) = b
             /\ taken[t].context \in DOMAIN metric_by_bucket[b]
             /\ t \in metric_by_bucket[b][taken[t].context].value
  <2>1. PICK c \in DOMAIN metric_by_bucket[b] : t \in metric_by_bucket[b][c].value
    BY <1>4 DEF HeldIn
  <2>2. t \in Taken /\ fate[t] = "held" /\ Home(t) = b /\ taken[t].context = c
    BY <2>1, <1>2 DEF Sound
  <2> QED
    BY <2>1, <2>2
<1> QED
  BY <1>1, <1>2, <1>3, <1>4

\* A step of flush_bucket is one of the two.
LEMMA FlushCases ==
    ASSUME Inductive, flush_bucket
    PROVE  \E b \in todo : /\ b \in DOMAIN metric_by_bucket /\ rpc = "flush"
                           /\ Skips(b) \/ Reports(b)
<1>1. PICK b \in todo :
         /\ rpc = "flush"
         /\ \A d \in todo : b <= d
         /\ todo' = todo \ {b}
         /\ \/ /\ ~Complete(b)
               /\ UNCHANGED <<metric_by_bucket, last_sample_time_by_context, fate, points>>
            \/ /\ Complete(b)
               /\ last_sample_time_by_context' =
                     [c \in Empty(b) \cup Sampled(b) |->
                         IF c \in Sampled(b) THEN metric_by_bucket[b][c].last
                         ELSE last_sample_time_by_context[c]]
               /\ points' = [p \in DOMAIN points |->
                                IF p[2] = b /\ p[1] \in Good(b) \cup Empty(b)
                                THEN points[p] + 1 ELSE points[p]]
               /\ fate' = [s \in Samples |->
                              IF s \in UNION {metric_by_bucket[b][c].value : c \in Good(b)}
                              THEN "reported"
                              ELSE IF s \in UNION {metric_by_bucket[b][c].value :
                                                      c \in DOMAIN metric_by_bucket[b]}
                              THEN "expired" ELSE fate[s]]
               /\ metric_by_bucket' = DropBucket(b)
         /\ UNCHANGED <<now, rpc, woken, cutoff, expiry, submitted, taken, failed>>
  BY Zenon DEF flush_bucket, Old, Good, Sampled, Empty
<1>2. b \in DOMAIN metric_by_bucket /\ b \in Nat /\ b \in Buckets
  BY BucketsOfTimes DEF Inductive, Shapes
<1>3. cutoff \in Nat
  BY BucketStart, BucketsOfTimes DEF Inductive, Clock, Shapes
<1>4. CASE ~Complete(b)
  BY <1>1, <1>2, <1>3, <1>4 DEF Complete, Skips
<1>5. CASE Complete(b)
  <2>1. b < cutoff
    BY <1>5 DEF Complete
  <2>2. ASSUME NEW d \in DOMAIN metric_by_bucket \ {b}
        PROVE  b < d
    <3>1. d \in Nat
      BY BucketsOfTimes DEF Inductive, Shapes
    <3>2. CASE d \in todo
      BY <3>1, <3>2, <1>1, <1>2
    <3>3. CASE d \notin todo
      BY <3>1, <3>3, <2>1, <1>2, <1>3 DEF Inductive, Clock
    <3> QED
      BY <3>2, <3>3
  <2>3. points \in [Contexts \X Buckets -> Nat]
    BY DEF Inductive, Shapes
  <2>4. /\ points' \in [Contexts \X Buckets -> Nat]
        /\ \A c \in Contexts, d \in Buckets :
              points'[<<c, d>>] = IF d = b /\ c \in Good(b) \cup Empty(b)
                                  THEN points[<<c, d>>] + 1 ELSE points[<<c, d>>]
    BY <1>1, <1>5, <2>3
  <2>5. \A c \in Contexts : points[<<c, b>>] = 0
    BY <1>2, BucketFacts
  <2>6. \A t \in Samples :
           /\ t \in UNION {metric_by_bucket[b][c].value : c \in Good(b)} <=> SentIn(b, t)
           /\ t \in UNION {metric_by_bucket[b][c].value : c \in DOMAIN metric_by_bucket[b]}
                 <=> HeldIn(b, t)
    BY DEF SentIn, HeldIn
  <2>7. \A t \in Samples : fate'[t] = IF SentIn(b, t) THEN "reported"
                                      ELSE IF HeldIn(b, t) THEN "expired" ELSE fate[t]
    BY <1>1, <1>5, <2>6
  <2>8. DOMAIN fate' = Samples /\ fate' = [t \in Samples |-> fate'[t]]
    BY <1>1, <1>5
  <2>9. \A c \in Contexts, d \in Buckets :
           points'[<<c, d>>] = IF d = b /\ c \in Good(b) \cup Empty(b) THEN 1
                               ELSE points[<<c, d>>]
    <3>1. ASSUME NEW c \in Contexts, NEW d \in Buckets
          PROVE  points'[<<c, d>>] = IF d = b /\ c \in Good(b) \cup Empty(b) THEN 1
                                     ELSE points[<<c, d>>]
      <4>1. CASE d = b /\ c \in Good(b) \cup Empty(b)
        BY <4>1, <2>4, <2>5
      <4>2. CASE ~(d = b /\ c \in Good(b) \cup Empty(b))
        BY <4>2, <2>4
      <4> QED
        BY <4>1, <4>2
    <3> QED
      BY <3>1
  <2>10. Reports(b)
    BY <1>1, <1>5, <2>1, <2>2, <2>4, <2>7, <2>8, <2>9 DEF Reports, DropBucket, Restrict
  <2> QED
    BY <1>1, <1>2, <2>10
<1> QED
  BY <1>4, <1>5

\* The counters that report 0 for the bucket.
LEMMA EmptyFacts ==
    \A b, c : c \in Empty(b) <=> /\ c \in DOMAIN last_sample_time_by_context
                                 /\ c \notin Old(b) \cup Sampled(b)
                                 /\ ~TooOld(last_sample_time_by_context[c])
BY DEF Empty, Reporting, Restrict

\* A sample that was reported is older than every metric of its context that is left.
LEMMA Overtaken ==
    ASSUME Inductive, NEW t \in Samples, fate[t] = "reported",
           NEW b \in DOMAIN metric_by_bucket,
           taken[t].context \in DOMAIN metric_by_bucket[b],
           metric_by_bucket[b][taken[t].context].last # None
    PROVE  /\ metric_by_bucket[b][taken[t].context].last \in Nat /\ taken[t].time \in Nat
           /\ taken[t].time < metric_by_bucket[b][taken[t].context].last
<1> DEFINE c == taken[t].context
           last == metric_by_bucket[b][c].last
           u == taken[t].time
<1>1. c \in Contexts /\ u \in Nat /\ u \in Times
  BY BucketsOfTimes DEF Inductive, Known
<1>2. last \in Nat /\ calculate_bucket_start(last) = b /\ b \in Nat
  <2>1. /\ metric_by_bucket[b][c] \in Metric /\ Sound(b, c, metric_by_bucket[b][c])
        /\ b \in Nat /\ last # None
    BY BucketFacts
  <2>2. last \in Times
    BY <2>1 DEF Metric
  <2> QED
    BY <2>1, <2>2, BucketsOfTimes DEF Sound
<1>3. Home(t) < b /\ Home(t) \in Nat /\ Home(t) = calculate_bucket_start(u)
  <2>1. Home(t) \in Buckets /\ Home(t) \in Nat
    BY <1>1, BucketsOfTimes DEF Home
  <2>2. points[<<c, Home(t)>>] > 0
    BY DEF Inductive, Reported
  <2> QED
    BY <1>1, <2>1, <2>2 DEF Inductive, PointsPast, Home
<1> HIDE DEF u, last
<1>4. last <= u => calculate_bucket_start(last) <= calculate_bucket_start(u)
  BY <1>1, <1>2, BucketStart
<1>5. u < last
  BY <1>1, <1>2, <1>3, <1>4
<1> QED
  BY <1>1, <1>2, <1>5 DEF u, last

\* A counter that was reported for a bucket is one of those reported for bucket b, and its
\* last sample is not forgotten.
LEMMA KeptPace ==
    ASSUME Inductive, rpc = "flush", NEW t \in Samples, fate[t] = "reported",
           taken[t].context \in Counters, taken[t].time >= expiry,
           \A d \in Buckets : <<taken[t].context, d>> \notin failed,
           NEW b \in DOMAIN metric_by_bucket,
           NEW c, c = taken[t].context
    PROVE  \/ c \in Sampled(b) /\ taken[t].time <= metric_by_bucket[b][c].last
           \/ c \in Empty(b) \ Sampled(b) /\ taken[t].time <= last_sample_time_by_context[c]
<1> USE DEF Inductive
<1>0. /\ expiry = woken - EXPIRY /\ expiry \in Int /\ woken \in Nat /\ EXPIRY \in Nat
      /\ taken[t].time \in Nat
  BY BucketsOfTimes, BucketAssumption DEF Shapes, Clock, Known
<1>1. CASE c \in DOMAIN metric_by_bucket[b]
  <2>1. metric_by_bucket[b][c].last # None
    BY <1>1, BucketFacts DEF Sound
  <2>2. metric_by_bucket[b][c].last \in Nat /\ taken[t].time < metric_by_bucket[b][c].last
    BY <1>1, <2>1, Overtaken
  <2>3. ~TooOld(metric_by_bucket[b][c].last)
    BY <1>0, <2>1, <2>2 DEF TooOld
  <2>4. c \in Sampled(b)
    BY <1>1, <2>3 DEF Sampled, Good, Old
  <2> QED
    BY <2>2, <2>4, <1>0
<1>2. CASE c \notin DOMAIN metric_by_bucket[b]
  <2>1. /\ c \in DOMAIN last_sample_time_by_context
        /\ taken[t].time <= last_sample_time_by_context[c]
    BY <1>0 DEF Pace
  <2>2. last_sample_time_by_context[c] \in Nat /\ last_sample_time_by_context[c] # None
    BY <2>1, BucketsOfTimes, BucketAssumption DEF Shapes
  <2>3. ~TooOld(last_sample_time_by_context[c])
    BY <1>0, <2>1, <2>2 DEF TooOld
  <2>4. c \notin Old(b) \cup Sampled(b)
    BY <1>2 DEF Old, Sampled, Good
  <2> QED
    BY <2>1, <2>3, <2>4, EmptyFacts
<1> QED
  BY <1>1, <1>2

\* A bucket that is not complete stays.
LEMMA SkipStep ==
    ASSUME Inductive, NEW b \in todo, Skips(b), rpc = "flush"
    PROVE  Inductive'
<1> USE DEF Inductive
<1>1. /\ cutoff <= b /\ todo' = todo \ {b}
      /\ UNCHANGED <<now, metric_by_bucket, last_sample_time_by_context, rpc, woken, cutoff,
                     expiry, submitted, taken, fate, points, failed>>
  BY DEF Skips
<1>2. Shapes' /\ Known'
  BY <1>1 DEF Shapes, Known, Taken
<1>3. Clock'
  BY <1>1 DEF Clock
<1>4. (Metrics /\ Held /\ Reported /\ PointsPast /\ Registered /\ Pace)'
  BY <1>1 DEF Metrics, Sound, Held, Reported, PointsPast, Registered, Pace, Holds, Home,
              Taken, SampleTime
<1> QED
  BY <1>2, <1>3, <1>4

\* A complete bucket is reported.
LEMMA ReportStep ==
    ASSUME Inductive, NEW b \in todo, Reports(b), rpc = "flush"
    PROVE  Inductive'
<1> USE DEF Inductive
<1>1. b \in DOMAIN metric_by_bucket
  BY DEF Shapes
<1>2. /\ b \in Buckets /\ b \in Nat /\ DOMAIN metric_by_bucket[b] \subseteq Contexts
      /\ \A c \in DOMAIN metric_by_bucket[b] :
            metric_by_bucket[b][c] \in Metric /\ Sound(b, c, metric_by_bucket[b][c])
      /\ \A c \in Contexts : points[<<c, b>>] = 0
  BY <1>1, BucketFacts
<1>3. \A t \in Samples : HeldIn(b, t) =>
         /\ t \in Taken /\ fate[t] = "held" /\ Home(t) = b
         /\ taken[t].context \in DOMAIN metric_by_bucket[b]
         /\ t \in metric_by_bucket[b][taken[t].context].value
  BY <1>1, BucketFacts
<1>4. /\ b < cutoff /\ todo' = todo \ {b}
      /\ \A d \in DOMAIN metric_by_bucket \ {b} : b < d
      /\ metric_by_bucket' = [d \in DOMAIN metric_by_bucket \ {b} |-> metric_by_bucket[d]]
      /\ points' \in [Contexts \X Buckets -> Nat]
      /\ \A c \in Contexts, d \in Buckets :
            points'[<<c, d>>] = IF d = b /\ c \in Good(b) \cup Empty(b) THEN 1
                                ELSE points[<<c, d>>]
      /\ UNCHANGED <<now, rpc, woken, cutoff, expiry, submitted, taken, failed>>
  BY DEF Reports
<1>5. /\ DOMAIN last_sample_time_by_context' = Empty(b) \cup Sampled(b)
      /\ last_sample_time_by_context'
            = [c \in Empty(b) \cup Sampled(b) |-> last_sample_time_by_context'[c]]
      /\ \A c \in Sampled(b) : last_sample_time_by_context'[c] = metric_by_bucket[b][c].last
      /\ \A c \in Empty(b) : c \notin Sampled(b)
            => last_sample_time_by_context'[c] = last_sample_time_by_context[c]
  BY DEF Reports
<1>6. /\ \A t \in Samples : fate'[t] = IF SentIn(b, t) THEN "reported"
                                       ELSE IF HeldIn(b, t) THEN "expired" ELSE fate[t]
      /\ fate' = [t \in Samples |-> fate'[t]]
  BY DEF Reports
<1>7. /\ \A d, e : Has(metric_by_bucket', d, e) <=> Has(metric_by_bucket, d, e) /\ d # b
      /\ \A d, e : Has(metric_by_bucket', d, e)
                      => metric_by_bucket'[d][e] = metric_by_bucket[d][e]
  BY <1>4 DEF Has
<1>8. \A c \in Good(b) : /\ c \in DOMAIN metric_by_bucket[b] /\ c \in Contexts
                         /\ metric_by_bucket[b][c].last # None
                         /\ metric_by_bucket[b][c].last \in Times
  BY <1>2 DEF Good, Old, TooOld, Metric
<1>9. \A c \in Sampled(b) : c \in Good(b) /\ c \in Counters /\ c # PacketCount
  BY BucketAssumption DEF Sampled
<1>10. \A c \in Empty(b) : /\ c \in DOMAIN last_sample_time_by_context
                           /\ c \notin Old(b) \cup Sampled(b)
                           /\ ~TooOld(last_sample_time_by_context[c])
  BY EmptyFacts
<1>11. \A t \in Samples : SentIn(b, t) => HeldIn(b, t) /\ taken[t].context \in Good(b)
  <2>1. ASSUME NEW t \in Samples, SentIn(b, t)
        PROVE  HeldIn(b, t) /\ taken[t].context \in Good(b)
    <3>1. PICK c \in Good(b) : t \in metric_by_bucket[b][c].value
      BY <2>1 DEF SentIn
    <3>2. c \in DOMAIN metric_by_bucket[b]
      BY <1>8
    <3>3. taken[t].context = c
      BY <3>1, <3>2, <1>2 DEF Sound
    <3> QED
      BY <3>1, <3>2, <3>3 DEF HeldIn
  <2> QED
    BY <2>1
<1>12. \A t \in Samples : fate'[t] = "reported" =>
          \/ SentIn(b, t)
          \/ ~HeldIn(b, t) /\ fate[t] = "reported"
  BY <1>6
<1>13. Shapes'
  <2>1. DOMAIN metric_by_bucket' \subseteq Buckets /\ todo' \subseteq DOMAIN metric_by_bucket'
    BY <1>4 DEF Shapes
  <2>2. /\ metric_by_bucket' = [d \in DOMAIN metric_by_bucket' |-> metric_by_bucket'[d]]
        /\ \A d \in DOMAIN metric_by_bucket' :
              /\ metric_by_bucket'[d] \in [DOMAIN metric_by_bucket'[d] -> Metric]
              /\ DOMAIN metric_by_bucket'[d] \subseteq Contexts
    BY <1>4 DEF Shapes
  <2>3. \A c \in DOMAIN last_sample_time_by_context' :
           c \in Counters /\ last_sample_time_by_context'[c] \in Times
    BY <1>5, <1>8, <1>9, <1>10 DEF Shapes
  <2>4. /\ last_sample_time_by_context' \in [DOMAIN last_sample_time_by_context' -> Times]
        /\ DOMAIN last_sample_time_by_context' \subseteq Counters
    BY <1>5, <2>3
  <2>5. fate' \in [Samples -> {"none", "held", "overwritten", "reported", "expired"}]
    <3>1. \A t \in Samples :
             fate'[t] \in {"none", "held", "overwritten", "reported", "expired"}
      BY <1>6 DEF Shapes
    <3> QED
      BY <3>1, <1>6
  <2> QED
    BY <1>4, <2>1, <2>2, <2>4, <2>5 DEF Shapes
<1>14. Clock'
  BY <1>4 DEF Clock
<1>15. Known'
  <2>1. \A t \in Samples : fate'[t] # "none" => t \in Taken
    BY <1>3, <1>6, <1>11 DEF Known
  <2> QED
    BY <2>1, <1>4 DEF Known, Taken
<1>16. Metrics'
  <2> SUFFICES ASSUME NEW d \in Buckets, NEW e \in Contexts, Has(metric_by_bucket', d, e)
               PROVE  Sound(d, e, metric_by_bucket[d][e])'
    BY DEF Metrics, Has
  <2> SUFFICES ASSUME NEW n, n = metric_by_bucket'[d][e]
               PROVE  Sound(d, e, n)'
    BY DEF Sound
  <2>1. d # b /\ Sound(d, e, n)
    BY <1>7 DEF Metrics
  <2>2. ASSUME NEW t \in Samples, t \in n.value
        PROVE  fate'[t] = "held"
    <3>1. fate[t] = "held" /\ Home(t) = d
      BY <2>1, <2>2 DEF Sound
    <3> QED
      BY <2>1, <3>1, <1>3, <1>6, <1>11
  <2> QED
    BY <2>1, <2>2, <1>4 DEF Sound, SampleTime, Taken, Home
<1>17. Held'
  <2>1. ASSUME NEW t \in Samples, fate'[t] = "held"
        PROVE  Holds(Home(t), taken[t].context, t)'
    <3>1. ~HeldIn(b, t) /\ fate[t] = "held"
      BY <2>1, <1>6, <1>11
    <3>2. Holds(Home(t), taken[t].context, t)
      BY <3>1 DEF Held
    <3>3. Home(t) # b
      BY <3>1, <3>2 DEF Holds, HeldIn
    <3> QED
      BY <3>2, <3>3, <1>4 DEF Holds, Home
  <2> QED
    BY <2>1, <1>4 DEF Held
<1>18. Reported'
  <2>1. ASSUME NEW t \in Samples, fate'[t] = "reported"
        PROVE  /\ points'[<<taken[t].context, Home(t)>>] > 0
               /\ taken[t].context \in Gauges =>
                     \A u \in Taken : taken[u].context = taken[t].context
                                      /\ Home(u) = Home(t) => u <= t
    <3>1. CASE SentIn(b, t)
      <4>1. /\ taken[t].context \in Good(b) /\ Home(t) = b
            /\ taken[t].context \in DOMAIN metric_by_bucket[b]
            /\ t \in metric_by_bucket[b][taken[t].context].value
        BY <3>1, <1>3, <1>11
      <4>2. points'[<<taken[t].context, Home(t)>>] = 1
        BY <4>1, <1>2, <1>4
      <4>3. Sound(b, taken[t].context, metric_by_bucket[b][taken[t].context])
        BY <4>1, <1>2
      <4> QED
        BY <4>1, <4>2, <4>3 DEF Sound
    <3>2. CASE ~HeldIn(b, t) /\ fate[t] = "reported"
      <4>1. Home(t) \in Buckets /\ taken[t].context \in Contexts
        BY <3>2, BucketsOfTimes DEF Known, Home
      <4>2. points[<<taken[t].context, Home(t)>>] > 0
        BY <3>2 DEF Reported
      <4>3. points'[<<taken[t].context, Home(t)>>] > 0
        BY <4>1, <4>2, <1>4
      <4> QED
        BY <3>2, <4>3 DEF Reported
    <3> QED
      BY <2>1, <3>1, <3>2, <1>12
  <2> QED
    BY <2>1, <1>4 DEF Reported, Home, Taken
<1>19. PointsPast'
  <2>1. ASSUME NEW c \in Contexts, NEW d \in Buckets
        PROVE  /\ points'[<<c, d>>] <= 1
               /\ points'[<<c, d>>] > 0 => /\ d < cutoff
                                           /\ \A f \in DOMAIN metric_by_bucket' : d < f
    <3>1. CASE d = b
      BY <3>1, <1>2, <1>4
    <3>2. CASE d # b
      <4>1. points'[<<c, d>>] = points[<<c, d>>]
        BY <3>2, <1>4
      <4> QED
        BY <4>1, <1>4 DEF PointsPast
    <3> QED
      BY <3>1, <3>2
  <2> QED
    BY <2>1, <1>4 DEF PointsPast
<1>20. Registered'
  <2>1. ASSUME NEW c \in DOMAIN last_sample_time_by_context'
        PROVE  SampleTime(c, last_sample_time_by_context'[c])
    <3>1. CASE c \in Sampled(b)
      <4>1. /\ c \in DOMAIN metric_by_bucket[b] /\ c # PacketCount
            /\ metric_by_bucket[b][c].last # None
        BY <3>1, <1>8, <1>9
      <4>2. SampleTime(c, metric_by_bucket[b][c].last)
        BY <4>1, <1>2 DEF Sound
      <4> QED
        BY <3>1, <4>2, <1>5
    <3>2. CASE c \notin Sampled(b)
      BY <2>1, <3>2, <1>5, <1>10 DEF Registered
    <3> QED
      BY <3>1, <3>2
  <2> QED
    BY <2>1, <1>4 DEF Registered, SampleTime, Taken
<1>21. Pace'
  <2>1. ASSUME NEW t \in Samples, fate'[t] = "reported", taken[t].context \in Counters,
               \A d \in Buckets : <<taken[t].context, d>> \notin failed,
               ~(taken[t].time < woken - EXPIRY)
        PROVE  /\ taken[t].context \in DOMAIN last_sample_time_by_context'
               /\ taken[t].time <= last_sample_time_by_context'[taken[t].context]
    <3>c. PICK c : c = taken[t].context
      OBVIOUS
    <3>0. expiry = woken - EXPIRY /\ expiry \in Int /\ woken \in Nat /\ EXPIRY \in Nat
      BY BucketsOfTimes, BucketAssumption DEF Shapes, Clock
    <3>1. CASE SentIn(b, t)
      <4>1. /\ c \in Good(b) /\ c \in DOMAIN metric_by_bucket[b]
            /\ t \in metric_by_bucket[b][c].value
        BY <3>1, <3>c, <1>3, <1>11
      <4>2. taken[t].time <= metric_by_bucket[b][c].last
        BY <4>1, <1>2 DEF Sound
      <4>3. c \in Sampled(b)
        BY <4>1, <2>1, <3>c DEF Sampled
      <4> QED
        BY <4>2, <4>3, <3>c, <1>5
    <3>2. CASE ~SentIn(b, t) /\ fate[t] = "reported"
      <4>1. taken[t].time \in Nat
        BY <3>2, BucketsOfTimes DEF Known
      <4>2. taken[t].time >= expiry
        BY <2>1, <3>0, <4>1
      <4>3. \/ c \in Sampled(b) /\ taken[t].time <= metric_by_bucket[b][c].last
            \/ c \in Empty(b) \ Sampled(b) /\ taken[t].time <= last_sample_time_by_context[c]
        BY <2>1, <3>2, <3>c, <4>2, <1>1, KeptPace
      <4> QED
        BY <4>3, <3>c, <1>5
    <3> QED
      BY <2>1, <3>1, <3>2, <1>12
  <2> QED
    BY <2>1, <1>4 DEF Pace
<1> QED
  BY <1>13, <1>14, <1>15, <1>16, <1>17, <1>18, <1>19, <1>20, <1>21

\* No step leaves the invariant.
LEMMA InductiveStep ==
    ASSUME Inductive, [Next]_vars
    PROVE  Inductive'
<1>1. CASE Tick
  BY <1>1, TickStep
<1>2. ASSUME NEW c \in Contexts \ {PacketCount}, submit_metric(c) PROVE Inductive'
  BY <1>2, SubmitStep
<1>3. ASSUME NEW c \in Contexts \ {PacketCount}, submit_fails(c) PROVE Inductive'
  BY <1>3, SubmitFailsStep
<1>4. CASE flush_begin
  BY <1>4, FlushBeginStep
<1>5. CASE flush_bucket
  <2>1. PICK b \in todo : rpc = "flush" /\ (Skips(b) \/ Reports(b))
    BY <1>5, FlushCases
  <2>2. CASE Skips(b)
    BY <2>1, <2>2, SkipStep
  <2>3. CASE Reports(b)
    BY <2>1, <2>3, ReportStep
  <2> QED
    BY <2>1, <2>2, <2>3
<1>6. CASE flush_end
  BY <1>6, FlushEndStep
<1>7. CASE UNCHANGED vars
  <2>1. UNCHANGED <<now, metric_by_bucket, last_sample_time_by_context, rpc, woken, todo, cutoff,
                    expiry, submitted, taken, fate, points, failed>>
    BY <1>7 DEF vars, reporter
  <2>2. (Shapes /\ Clock /\ Known)'
    BY <2>1 DEF Inductive, Shapes, Clock, Known, Taken
  <2>3. (Metrics /\ Held /\ Reported /\ PointsPast /\ Registered /\ Pace)'
    BY <2>1 DEF Inductive, Metrics, Sound, Held, Reported, PointsPast, Registered, Pace, Holds,
                Home, Taken, SampleTime
  <2> QED
    BY <2>2, <2>3 DEF Inductive
<1> QED
  BY <1>1, <1>2, <1>3, <1>4, <1>5, <1>6, <1>7 DEF Next

\* So it always holds.
LEMMA AlwaysInductive == Spec => []Inductive
BY InitiallyInductive, InductiveStep, PTL DEF Spec

-----------------------------------------------------------------------------
\* The sample that is the value of a reported gauge is the last one of its bucket, a series
\* has one point at most in a bucket, and that bucket has ended.
LEMMA InductiveConsistent == Inductive => Consistent
<1> SUFFICES ASSUME Inductive PROVE Consistent
  OBVIOUS
<1> USE DEF Inductive
<1>1. TypeOK
  <2>1. cutoff \in Buckets
    BY BucketsOfTimes DEF Shapes, Clock
  <2>2. last_sample_time_by_context \in PartialFunctions(Counters, Times)
    BY DEF Shapes, PartialFunctions
  <2>3. \A b \in DOMAIN metric_by_bucket :
           /\ DOMAIN metric_by_bucket[b] \subseteq Contexts
           /\ \A c \in DOMAIN metric_by_bucket[b] : metric_by_bucket[b][c] \in Metric
    BY BucketFacts
  <2> QED
    BY <2>1, <2>2, <2>3 DEF TypeOK, Shapes
<1>2. DOMAIN points = Contexts \X Buckets
  BY DEF Shapes
<1>3. OnePoint
  BY <1>2 DEF OnePoint, PointsPast
<1>4. OnlyComplete
  <2>1. ASSUME NEW c \in Contexts, NEW b \in Buckets, points[<<c, b>>] > 0
        PROVE  b + INTERVAL <= now
    <3>1. /\ b < cutoff /\ cutoff = calculate_bucket_start(woken) /\ woken <= now
          /\ woken \in Nat /\ now \in Nat
      BY <2>1, BucketsOfTimes DEF PointsPast, Clock, Shapes
    <3>2. PICK u \in Times : b = calculate_bucket_start(u)
      BY BucketsOfTimes
    <3>3. u \in Nat /\ b \in Nat /\ cutoff \in Nat /\ cutoff <= woken
      BY <3>1, <3>2, BucketStart, BucketsOfTimes
    <3>4. b + INTERVAL <= cutoff
      BY <3>1, <3>2, <3>3, BucketStart
    <3>5. INTERVAL \in Nat
      BY BucketAssumption
    <3> QED
      BY <3>1, <3>3, <3>4, <3>5
  <2> QED
    BY <2>1, <1>2 DEF OnlyComplete
<1>5. LatestGauge
  <2>1. ASSUME NEW s \in Taken, NEW t \in Taken, s < t, Home(s) = Home(t),
               taken[s].context = taken[t].context, taken[s].context \in Gauges,
               fate[s] = "reported"
        PROVE  FALSE
    <3>1. Taken \subseteq Samples /\ s \in Nat /\ t \in Nat
      BY BucketAssumption DEF Taken, Samples, Shapes
    <3>2. t <= s
      BY <2>1, <3>1 DEF Reported
    <3> QED
      BY <2>1, <3>1, <3>2
  <2> QED
    BY <2>1 DEF LatestGauge
<1> QED
  BY <1>1, <1>3, <1>4, <1>5 DEF Consistent

\* What is in a metric of a bucket is a sample of that time that is not yet accounted for.
LEMMA InductiveConserved == Inductive => Conserved
<1> SUFFICES ASSUME Inductive PROVE Conserved
  OBVIOUS
<1> USE DEF Inductive
<1>1. Taken \subseteq Samples
  BY BucketAssumption DEF Taken, Samples, Shapes
<1>2. ASSUME NEW s \in Samples, NEW b \in Buckets, NEW c \in Contexts, Holds(b, c, s)
      PROVE  fate[s] = "held" /\ b = Home(s) /\ c = taken[s].context
  <2>1. Has(metric_by_bucket, b, c) /\ s \in metric_by_bucket[b][c].value
    BY <1>2 DEF Holds, Has
  <2>2. Sound(b, c, metric_by_bucket[b][c])
    BY <2>1 DEF Metrics
  <2> QED
    BY <2>1, <2>2 DEF Sound
<1>3. ASSUME NEW s \in Taken
      PROVE  Home(s) \in Buckets /\ taken[s].context \in Contexts
  BY <1>1, BucketsOfTimes DEF Known, Home
<1>4. ASSUME NEW s \in Taken
      PROVE  fate[s] = "held" <=> Holds(Home(s), taken[s].context, s)
  BY <1>1, <1>2, <1>3 DEF Held
<1>5. ASSUME NEW s \in Taken, fate[s] = "reported"
      PROVE  points[<<taken[s].context, Home(s)>>] > 0
  BY <1>1, <1>5 DEF Reported
<1> QED
  BY <1>1, <1>2, <1>4, <1>5 DEF Conserved

\* The state between the server and the Reporter is always consistent: a series has one point
\* at most in a bucket, only of a bucket that has ended, of a gauge the last sample.
THEOREM BucketsConsistent == Spec => []Consistent
BY AlwaysInductive, InductiveConsistent, PTL

\* submit_metric and flush together lose no sample and count none twice: each is in the bucket
\* of its time and in no other, until it is reported for it, dropped or replaced.
THEOREM SamplesConserved == Spec => []Conserved
BY AlwaysInductive, InductiveConserved, PTL

-----------------------------------------------------------------------------
(***************************************************************************)
(* What a flush reports.                                                   *)
(***************************************************************************)
\* Only flush_bucket takes buckets off the list.
LEMMA OnlyFlush ==
    ASSUME Inductive, [Next]_vars, NEW b \in todo \ todo'
    PROVE  /\ rpc = "flush" /\ b \in DOMAIN metric_by_bucket
           /\ Skips(b) \/ Reports(b)
<1>1. flush_begin => todo = {}
  BY DEF flush_begin, Inductive, Clock
<1>2. flush_bucket
  BY <1>1 DEF Next, Tick, submit_metric, submit_fails, flush_end, vars, reporter
<1>3. PICK d \in todo : /\ d \in DOMAIN metric_by_bucket /\ rpc = "flush"
                        /\ Skips(d) \/ Reports(d)
  BY <1>2, FlushCases
<1>4. todo' = todo \ {d}
  BY <1>3 DEF Skips, Reports
<1>5. b = d
  BY <1>4
<1> QED
  BY <1>3, <1>5

\* A counter that was reported once reports for every later bucket that is flushed, until
\* expiry_seconds after its last sample.
THEOREM PaceKept == Spec => CountersKeepPace
<1>1. ASSUME Inductive, [Next]_vars, NEW s \in Taken, NEW b \in todo \ todo',
             fate[s] = "reported", taken[s].context \in Counters,
             taken[s].time >= expiry, b < cutoff,
             \A d \in Buckets : <<taken[s].context, d>> \notin failed
      PROVE  points'[<<taken[s].context, b>>] = 1
  <2>1. /\ rpc = "flush" /\ b \in DOMAIN metric_by_bucket
        /\ Skips(b) \/ Reports(b)
    BY <1>1, OnlyFlush
  <2>2. b \in Nat /\ b \in Buckets /\ cutoff \in Nat
    BY <1>1, <2>1, BucketFacts, BucketStart, BucketsOfTimes DEF Inductive, Clock, Shapes
  <2>3. Reports(b)
    BY <1>1, <2>1, <2>2 DEF Skips
  <2>4. s \in Samples
    BY <1>1, BucketAssumption DEF Inductive, Taken, Samples, Shapes
  <2>c. PICK c : c = taken[s].context
    OBVIOUS
  <2>5. \/ c \in Sampled(b) /\ taken[s].time <= metric_by_bucket[b][c].last
        \/ c \in Empty(b) \ Sampled(b) /\ taken[s].time <= last_sample_time_by_context[c]
    BY <1>1, <2>1, <2>4, <2>c, KeptPace
  <2>6. c \in Good(b) \cup Empty(b) /\ c \in Contexts
    BY <1>1, <2>5, <2>c DEF Sampled, Contexts
  <2> QED
    BY <2>2, <2>3, <2>6, <2>c DEF Reports
<1>2. Inductive /\ [Next]_vars =>
         [\A s \in Taken, b \in todo \ todo' :
             /\ fate[s] = "reported" /\ taken[s].context \in Counters
             /\ taken[s].time >= expiry /\ b < cutoff
             /\ \A d \in Buckets : <<taken[s].context, d>> \notin failed
             => points'[<<taken[s].context, b>>] = 1]_vars
  BY <1>1
<1> QED
  BY <1>2, AlwaysInductive, PTL DEF Spec, CountersKeepPace

\* Only flush_bucket drops a sample.
LEMMA OnlyFlushDrops ==
    ASSUME Inductive, [Next]_vars, NEW s \in Samples, fate[s] # "expired", fate'[s] = "expired"
    PROVE  \E b \in DOMAIN metric_by_bucket : rpc = "flush" /\ Reports(b)
<1>1. ASSUME NEW c \in Contexts, submit_metric(c)
      PROVE  fate'[s] # "expired"
  BY <1>1 DEF submit_metric
<1>2. flush_bucket
  BY <1>1 DEF Next, Tick, submit_fails, flush_begin, flush_end, vars, reporter
<1>3. PICK d \in todo : /\ d \in DOMAIN metric_by_bucket /\ rpc = "flush"
                        /\ Skips(d) \/ Reports(d)
  BY <1>2, FlushCases
<1>4. ~Skips(d)
  BY DEF Skips
<1> QED
  BY <1>3, <1>4

\* Only samples older than expiry_seconds are dropped, and a counter without younger ones is
\* no longer reported.
THEOREM ExpiryRespected == Spec => ExpiryHolds
<1>1. ASSUME Inductive, [Next]_vars, NEW s \in Taken, fate[s] # "expired", fate'[s] = "expired"
      PROVE  taken[s].time < woken - EXPIRY
  <2>1. s \in Samples
    BY <1>1, BucketAssumption DEF Inductive, Taken, Samples, Shapes
  <2>2. PICK b \in DOMAIN metric_by_bucket : rpc = "flush" /\ Reports(b)
    BY <1>1, <2>1, OnlyFlushDrops
  <2>3. HeldIn(b, s) /\ ~SentIn(b, s)
    BY <1>1, <2>1, <2>2 DEF Reports
  <2>c. PICK c : c = taken[s].context
    OBVIOUS
  <2>4. /\ c \in DOMAIN metric_by_bucket[b] /\ s \in metric_by_bucket[b][c].value
        /\ metric_by_bucket[b][c] \in Metric /\ Sound(b, c, metric_by_bucket[b][c])
    BY <1>1, <2>1, <2>3, <2>c, BucketFacts
  <2>5. TooOld(metric_by_bucket[b][c].last)
    BY <2>3, <2>4 DEF SentIn, Good, Old
  <2>6. /\ metric_by_bucket[b][c].last # None /\ metric_by_bucket[b][c].last \in Nat
        /\ taken[s].time <= metric_by_bucket[b][c].last /\ taken[s].time \in Nat
    <3>1. metric_by_bucket[b][c].last # None
      BY <2>4 DEF Sound
    <3>2. metric_by_bucket[b][c].last \in Nat
      BY <3>1, <2>4, BucketsOfTimes DEF Metric
    <3> QED
      BY <1>1, <3>1, <3>2, <2>1, <2>4, BucketsOfTimes DEF Sound, Inductive, Known
  <2>7. expiry = woken - EXPIRY /\ expiry \in Int
    BY <1>1, <2>2, BucketAssumption DEF Inductive, Clock, Shapes
  <2> QED
    BY <2>5, <2>6, <2>7 DEF TooOld
<1>2. ASSUME Inductive, [Next]_vars, NEW c \in Counters, NEW b \in todo \ todo',
             points'[<<c, b>>] > points[<<c, b>>]
      PROVE  \E s \in Taken : taken[s].context = c /\ taken[s].time >= woken - EXPIRY
  <2>1. /\ rpc = "flush" /\ b \in DOMAIN metric_by_bucket
        /\ Skips(b) \/ Reports(b)
    BY <1>2, OnlyFlush
  <2>2. /\ b \in Nat /\ b \in Buckets /\ points[<<c, b>>] = 0 /\ c \in Contexts
        /\ c # PacketCount
    BY <1>2, <2>1, BucketFacts, BucketAssumption DEF Contexts
  <2>3. expiry = woken - EXPIRY /\ expiry \in Int
    BY <1>2, <2>1, BucketAssumption DEF Inductive, Clock, Shapes
  <2>4. Reports(b)
    BY <1>2, <2>1, <2>2 DEF Skips
  <2>5. c \in Good(b) \cup Empty(b)
    BY <1>2, <2>2, <2>4 DEF Reports
  <2>6. \E u \in Times : SampleTime(c, u) /\ ~TooOld(u)
    <3>1. CASE c \in Good(b)
      <4>1. /\ c \in DOMAIN metric_by_bucket[b] /\ ~TooOld(metric_by_bucket[b][c].last)
            /\ metric_by_bucket[b][c].last # None
        BY <3>1 DEF Good, Old, TooOld
      <4>2. metric_by_bucket[b][c] \in Metric /\ Sound(b, c, metric_by_bucket[b][c])
        BY <1>2, <2>1, <4>1, BucketFacts
      <4>3. metric_by_bucket[b][c].last \in Times
        BY <4>1, <4>2 DEF Metric
      <4>4. SampleTime(c, metric_by_bucket[b][c].last)
        BY <2>2, <4>1, <4>2 DEF Sound
      <4> QED
        BY <4>1, <4>3, <4>4
    <3>2. CASE c \in Empty(b)
      <4>1. /\ c \in DOMAIN last_sample_time_by_context
            /\ ~TooOld(last_sample_time_by_context[c])
        BY <3>2, EmptyFacts
      <4> QED
        BY <1>2, <4>1 DEF Inductive, Registered, Shapes
    <3> QED
      BY <2>5, <3>1, <3>2
  <2>7. PICK u \in Times : SampleTime(c, u) /\ ~TooOld(u)
    BY <2>6
  <2>8. u \in Nat /\ u # None
    BY BucketsOfTimes, BucketAssumption
  <2>9. u >= woken - EXPIRY
    BY <2>3, <2>7, <2>8 DEF TooOld
  <2> QED
    BY <2>7, <2>9 DEF SampleTime
<1>3. Inductive /\ [Next]_vars =>
         [/\ \A s \in Taken : fate[s] # "expired" /\ fate'[s] = "expired"
                                => taken[s].time < woken - EXPIRY
          /\ \A c \in Counters, b \in todo \ todo' :
                points'[<<c, b>>] > points[<<c, b>>]
                   => \E s \in Taken : taken[s].context = c
                                       /\ taken[s].time >= woken - EXPIRY]_vars
  BY <1>1, <1>2
<1> QED
  BY <1>3, AlwaysInductive, PTL DEF Spec, ExpiryHolds
============================================================================
