--------------------------- MODULE BucketAggregator ---------------------------
(***************************************************************************)
(* MetricsBucketAggregator (aggregator/aggregator.py) between the two      *)
(* threads of dogstatsd: the server, which submits every sample it         *)
(* receives, and the Reporter, which flushes the complete buckets.         *)
(*                                                                         *)
(* Here submit_metric is one step and flush is one step per bucket, so the *)
(* server's samples arrive before, between and after the buckets of a      *)
(* flush.  BucketThreads takes submit_metric and flush apart.  The cache   *)
(* current_bucket, current_mbc of the last lookup is part of that module:  *)
(* with an atomic submit_metric it never differs from metric_by_bucket.    *)
(*                                                                         *)
(* A sample is the number of its submission; the value of a metric is the  *)
(* set of the samples in it.  dogstatsd passes no timestamp to             *)
(* submit_metric, so a sample is taken at the time it is submitted.        *)
(***************************************************************************)
EXTENDS Integers, FiniteSets, Functions

CONSTANTS
    Counters,        \* contexts of type "c"
    Gauges,          \* contexts of type "g", PacketCount among them
    PacketCount,     \* the context datadog.dogstatsd.packet.count
    INTERVAL,        \* length of a bucket in seconds
    FLUSH_INTERVAL,  \* Reporter.interval
    EXPIRY,          \* expiry_seconds
    MaxTime,         \* bound: the clock stops there
    MaxSamples,      \* bound: samples submitted by the server
    None             \* no time, no bucket

\* The code's values are 10, 10 and 300.
ASSUME BucketAssumption ==
    /\ PacketCount \in Gauges
    /\ Counters \cap Gauges = {}
    /\ INTERVAL \in Nat \ {0}
    /\ FLUSH_INTERVAL \in Nat \ {0}
    /\ EXPIRY \in Nat
    /\ MaxTime \in Nat
    /\ MaxSamples \in Nat
    /\ None \notin Int

Contexts == Counters \cup Gauges
Times == 0 .. MaxTime
Samples == 1 .. MaxSamples

VARIABLES
    now,
    metric_by_bucket,            \* bucket start -> context -> its metric
    last_sample_time_by_context, \* the counters that keep reporting 0
    rpc,          \* where the Reporter is: "wait" or "flush"
    woken,        \* when its last flush began
    todo,         \* buckets this flush has yet to look at
    cutoff,       \* flush_cutoff_time of the flush
    expiry,       \* expiry_timestamp of the flush
    submitted,    \* history: samples submitted
    taken,        \* history: of each sample, its context and when it was taken
    fate,         \* history: what became of each sample
    points,       \* history: how often a context was reported for a bucket
    failed        \* history: <<context, bucket>> in which a sample raised

reporter == <<rpc, woken, todo, cutoff, expiry>>
vars == <<now, metric_by_bucket, last_sample_time_by_context, reporter,
          submitted, taken, fate, points, failed>>

calculate_bucket_start(t) == t - (t % INTERVAL)

Buckets == {calculate_bucket_start(t) : t \in Times}

\* A metric that was created and not sampled.
Unsampled == [value |-> {}, last |-> None]

\* The metrics of a bucket, with one for context c.
WithContext(mbc, c) ==
    IF c \in DOMAIN mbc THEN mbc
    ELSE [d \in DOMAIN mbc \cup {c} |-> IF d = c THEN Unsampled ELSE mbc[d]]

\* Mutant: the bucket's dictionary is made anew for every sample.
WithNewBucket(b, c) ==
    [d \in DOMAIN metric_by_bucket \cup {b} |->
        IF d # b THEN metric_by_bucket[d] ELSE WithContext(<<>>, c)]

\* metric_by_bucket with a dictionary for bucket b and a metric for c in it.
WithMetric(b, c) ==
    [d \in DOMAIN metric_by_bucket \cup {b} |->
        IF d # b THEN metric_by_bucket[d]
        ELSE WithContext(IF b \in DOMAIN metric_by_bucket
                         THEN metric_by_bucket[b] ELSE <<>>, c)]

\* Mutant: a gauge adds up like a counter.
Added(c, metric, s) == [value |-> metric.value \cup {s}, last |-> now]

\* Counter.sample adds to the value, BucketGauge.sample replaces it.
sample(c, metric, s) ==
    [value |-> IF c \in Gauges THEN {s} ELSE metric.value \cup {s}, last |-> now]

-----------------------------------------------------------------------------
Init ==
    /\ now = 0
    /\ metric_by_bucket = <<>>
    /\ last_sample_time_by_context = <<>>
    /\ rpc = "wait" /\ woken = 0 /\ todo = {} /\ cutoff = 0 /\ expiry = 0
    /\ submitted = 0
    /\ taken = [s \in Samples |-> [context |-> None, time |-> None]]
    /\ fate = [s \in Samples |-> "none"]
    /\ points = [p \in Contexts \X Buckets |-> 0]
    /\ failed = {}

Tick ==
    /\ now < MaxTime
    /\ now' = now + 1
    /\ UNCHANGED <<metric_by_bucket, last_sample_time_by_context, reporter,
                   submitted, taken, fate, points, failed>>

\* submit_metric: the sample is put into the metric of its context in the
\* bucket of the current time; a gauge forgets the sample it had.
submit_metric(c) ==
    LET b == calculate_bucket_start(now)
        s == submitted + 1
        mbb == WithMetric(b, c)
    IN  /\ submitted < MaxSamples
        /\ submitted' = s
        /\ metric_by_bucket' = [mbb EXCEPT ![b][c] = sample(c, @, s)]
        /\ taken' = [taken EXCEPT ![s] = [context |-> c, time |-> now]]
        /\ fate' = [t \in Samples |->
                       IF t = s THEN "held"
                       ELSE IF t \in mbb[b][c].value \ metric_by_bucket'[b][c].value
                       THEN "overwritten" ELSE fate[t]]
        /\ UNCHANGED <<now, last_sample_time_by_context, reporter, points, failed>>

\* The same when sample() raises, as Counter.sample does for the sample rate
\* 0, which the parser lets through: the metric stays, without a sample time.
submit_fails(c) ==
    LET b == calculate_bucket_start(now)
    IN  /\ <<c, b>> \notin failed
        /\ metric_by_bucket' = WithMetric(b, c)
        /\ failed' = failed \cup {<<c, b>>}
        /\ UNCHANGED <<now, last_sample_time_by_context, reporter, submitted,
                       taken, fate, points>>

\* Reporter.run: wait(interval) is over, send_packet_count submits the gauge
\* of the Reporter's own, and flush() reads the clock and the list of buckets.
\* The list is not empty, so flush never takes its else branch.
flush_begin ==
    LET b == calculate_bucket_start(now)
        mbb == WithMetric(b, PacketCount)
    IN  /\ rpc = "wait"
        /\ now >= woken + FLUSH_INTERVAL
        /\ rpc' = "flush"
        /\ woken' = now
        /\ metric_by_bucket' =
              [mbb EXCEPT ![b][PacketCount] = [value |-> {0}, last |-> now]]
        /\ cutoff' = b
        /\ expiry' = now - EXPIRY
        /\ todo' = DOMAIN metric_by_bucket'
        /\ UNCHANGED <<now, last_sample_time_by_context, submitted, taken, fate,
                       points, failed>>

\* Mutant: the bucket that is still being filled is flushed too.
CompleteOrCurrent(b) == b <= cutoff

\* bucket_start_timestamp < flush_cutoff_time
Complete(b) == b < cutoff

\* metric.last_sample_time is None or metric.last_sample_time < expiry_timestamp
TooOld(last) == IF last = None THEN TRUE ELSE last < expiry

\* Mutants: the test for expiry is left out, or the wrong way round.
StillReporting(registered) == DOMAIN registered
OldReporting(registered) == {c \in DOMAIN registered : TooOld(registered[c])}

\* create_empty_metrics: the counters not sampled in the bucket that report 0.
Reporting(registered) == {c \in DOMAIN registered : ~TooOld(registered[c])}

\* Mutant: flush leaves the bucket there.
KeepBucket(b) == metric_by_bucket

\* del self.metric_by_bucket[bucket_start_timestamp]
DropBucket(b) == Restrict(metric_by_bucket, DOMAIN metric_by_bucket \ {b})

\* One bucket of flush(), the earliest first: its metrics, then a 0 for each
\* counter that was not sampled in it and has not expired.
flush_bucket ==
    \E b \in todo :
        /\ rpc = "flush"
        /\ \A d \in todo : b <= d
        /\ todo' = todo \ {b}
        /\ \/ /\ ~Complete(b)
              /\ UNCHANGED <<metric_by_bucket, last_sample_time_by_context, fate, points>>
           \/ /\ Complete(b)
              /\ LET mbc == metric_by_bucket[b]
                     old == {c \in DOMAIN mbc : TooOld(mbc[c].last)}
                     good == DOMAIN mbc \ old
                     sampled == good \cap Counters
                     registered == last_sample_time_by_context
                     rest == Restrict(registered, DOMAIN registered \ (old \cup sampled))
                     empty == Reporting(rest)
                     held == UNION {mbc[c].value : c \in DOMAIN mbc}
                     sent == UNION {mbc[c].value : c \in good}
                 IN  /\ last_sample_time_by_context' =
                           [c \in empty \cup sampled |->
                               IF c \in sampled THEN mbc[c].last ELSE registered[c]]
                     /\ points' = [p \in DOMAIN points |->
                                      IF p[2] = b /\ p[1] \in good \cup empty
                                      THEN points[p] + 1 ELSE points[p]]
                     /\ fate' = [s \in Samples |->
                                    IF s \in sent THEN "reported"
                                    ELSE IF s \in held THEN "expired" ELSE fate[s]]
                     /\ metric_by_bucket' = DropBucket(b)
        /\ UNCHANGED <<now, rpc, woken, cutoff, expiry, submitted, taken, failed>>

\* flush() returns, and the Reporter waits again.
flush_end ==
    /\ rpc = "flush"
    /\ todo = {}
    /\ rpc' = "wait"
    /\ UNCHANGED <<now, metric_by_bucket, last_sample_time_by_context, woken,
                   todo, cutoff, expiry, submitted, taken, fate, points, failed>>

Next ==
    \/ Tick
    \/ \E c \in Contexts \ {PacketCount} : submit_metric(c) \/ submit_fails(c)
    \/ flush_begin \/ flush_bucket \/ flush_end

Spec == Init /\ [][Next]_vars

-----------------------------------------------------------------------------
Metric == [value : SUBSET (Samples \cup {0}), last : Times \cup {None}]

\* The functions with a domain within S.
PartialFunctions(S, T) == UNION {[D -> T] : D \in SUBSET S}

TypeOK ==
    /\ now \in Times
    /\ DOMAIN metric_by_bucket \subseteq Buckets
    /\ \A b \in DOMAIN metric_by_bucket :
          /\ DOMAIN metric_by_bucket[b] \subseteq Contexts
          /\ \A c \in DOMAIN metric_by_bucket[b] : metric_by_bucket[b][c] \in Metric
    /\ last_sample_time_by_context \in PartialFunctions(Counters, Times)
    /\ rpc \in {"wait", "flush"}
    /\ woken \in Times
    /\ todo \subseteq DOMAIN metric_by_bucket
    /\ cutoff \in Buckets
    /\ expiry \in (0 - EXPIRY) .. MaxTime
    /\ submitted \in 0 .. MaxSamples
    /\ fate \in [Samples -> {"none", "held", "overwritten", "reported", "expired"}]
    /\ points \in [Contexts \X Buckets -> Nat]

Taken == 1 .. submitted
Home(s) == calculate_bucket_start(taken[s].time)
Holds(b, c, s) ==
    b \in DOMAIN metric_by_bucket /\ c \in DOMAIN metric_by_bucket[b]
        /\ s \in metric_by_bucket[b][c].value

\* A sample is in the bucket of the time it was taken at, and in no other,
\* until it is reported for that bucket, dropped or replaced: none is lost
\* between the server and the Reporter, none is counted in two buckets.
Conserved ==
    \A s \in Taken :
        /\ fate[s] = "held" <=> Holds(Home(s), taken[s].context, s)
        /\ \A b \in Buckets, c \in Contexts :
              Holds(b, c, s) => b = Home(s) /\ c = taken[s].context
        /\ fate[s] = "reported" => points[<<taken[s].context, Home(s)>>] > 0

\* No series gets two values for one bucket, whatever arrives while a flush
\* runs: a bucket that was flushed does not come back.
OnePoint == \A p \in DOMAIN points : points[p] <= 1

\* No bucket is reported while samples can still fall into it.
OnlyComplete ==
    \A p \in DOMAIN points : points[p] > 0 => p[2] + INTERVAL <= now

\* Of the samples of a gauge in one bucket the last one is reported.
LatestGauge ==
    \A s, t \in Taken :
        /\ s < t /\ Home(s) = Home(t)
        /\ taken[s].context = taken[t].context /\ taken[s].context \in Gauges
        => fate[s] # "reported"

\* A counter that was reported for a bucket reports, 0 if it must, for every
\* later bucket that is flushed, until expiry_seconds after its last sample.
CountersKeepPace ==
    [][\A s \in Taken, b \in todo \ todo' :
          /\ fate[s] = "reported" /\ taken[s].context \in Counters
          /\ taken[s].time >= expiry /\ b < cutoff
          /\ \A d \in Buckets : <<taken[s].context, d>> \notin failed
          => points'[<<taken[s].context, b>>] = 1]_vars

\* Only samples older than expiry_seconds are dropped instead of reported,
\* and once that old a counter that gets no more samples falls silent.
ExpiryHolds ==
    [][/\ \A s \in Taken : fate[s] # "expired" /\ fate'[s] = "expired"
                             => taken[s].time < woken - EXPIRY
       /\ \A c \in Counters, b \in todo \ todo' :
             points'[<<c, b>>] > points[<<c, b>>]
                => \E s \in Taken : taken[s].context = c
                                    /\ taken[s].time >= woken - EXPIRY]_vars

\* The state between the two threads: of its type, with one point at most of a series in a
\* bucket, none of a bucket that samples can still fall into, and with the last sample of
\* a gauge as its value.
Consistent == TypeOK /\ OnePoint /\ OnlyComplete /\ LatestGauge
===============================================================================
