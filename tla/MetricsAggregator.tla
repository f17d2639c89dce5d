-------------------------- MODULE MetricsAggregator --------------------------
(***************************************************************************)
(* MetricsAggregator (aggregator/aggregator.py), which the checks of the   *)
(* collector submit their metrics to and the serializer flushes.  Both run *)
(* in the thread of the AgentRunner, so every call is one step.            *)
(*                                                                         *)
(* A context stands for the name, the tags and the hostname of a metric.   *)
(* The times of the points, and datadog.agent.running, are left out.       *)
(***************************************************************************)
EXTENDS MetricTypes

CONSTANTS
    Contexts,
    Sources,     \* check instances: (name, signature)
    EXPIRY,      \* expiry_seconds
    THRESHOLD,   \* recent_point_threshold
    Workloads    \* bound: what is submitted, as records with the sources, the contexts,
                 \* the textual types (mtypes), the values, the weights, which are
                 \* int(1 / sample_rate), and the ages of timestamps, None when there is
                 \* none; max_submits: bound, the calls of submit_metric, and max_time:
                 \* bound, the clock stops there

\* What was submitted and sampled.
Samples == [value : Int, weight : Nat \ {0}, time : Nat]

ASSUME AggregatorAssumption ==
    /\ None \notin Samples \cup Range(MetricResolver)
    /\ {EXPIRY, THRESHOLD} \subseteq Nat
    /\ \A w \in Workloads :
        /\ w.sources \subseteq Sources /\ w.contexts \subseteq Contexts
        /\ w.mtypes \subseteq DOMAIN MetricResolver
        /\ w.values \subseteq Int
        /\ w.weights \subseteq Nat \ {0}
        /\ w.ages \subseteq Nat \cup {None}
        /\ {w.max_time, w.max_submits} \subseteq Nat

VARIABLES
    workload,
    now,
    metrics,       \* context -> its metric
    sources,       \* source -> the contexts it has submitted
    metric_count,
    num_discarded_old_points,
    stats,         \* the statistics "metrics" and "metrics_total"
    points,        \* what the step has returned: context -> names and values
    log,           \* history: a context's samples since the last flush
    before,        \* history: the sample before these, while there is a metric
    flushed,       \* history: when the last flush was
    submits        \* history: calls of submit_metric

vars == <<workload, now, metrics, sources, metric_count, num_discarded_old_points,
          stats, points, log, before, flushed, submits>>

Init ==
    /\ workload \in Workloads
    /\ now = 0
    /\ metrics = <<>>
    /\ sources = [s \in Sources |-> {}]
    /\ metric_count = 0
    /\ num_discarded_old_points = 0
    /\ stats = [metrics |-> 0, metrics_total |-> 0]
    /\ points = <<>>
    /\ log = [c \in Contexts |-> <<>>]
    /\ before = [c \in Contexts |-> None]
    /\ flushed = 0
    /\ submits = 0

-----------------------------------------------------------------------------
TooOld(age) == age # None /\ age > THRESHOLD

\* The metrics, with one for context c: its class is that of the first type.
WithMetric(c, mtype) ==
    [d \in DOMAIN metrics \cup {c} |->
        IF d \in DOMAIN metrics THEN metrics[d] ELSE New(MetricResolver[mtype])]

\* Mutant: the source has its last context only.
LastContext(s, c) == [sources EXCEPT ![s] = {c}]

WithSource(s, c) == [sources EXCEPT ![s] = @ \cup {c}]

\* A point that is too old creates the metric, and is not sampled.
submit_metric(s, c, mtype, v, weight, age) ==
    LET with == WithMetric(c, mtype) IN
    /\ submits < workload.max_submits
    /\ submits' = submits + 1
    /\ sources' = WithSource(s, c)
    /\ \/ /\ TooOld(age)
          /\ metrics' = with
          /\ num_discarded_old_points' = num_discarded_old_points + 1
          /\ UNCHANGED <<metric_count, log>>
       \/ /\ ~TooOld(age)
          /\ metrics' = [with EXCEPT ![c] = Sample(@, v, weight, now)]
          /\ metric_count' = metric_count + 1
          /\ log' = [log EXCEPT ![c] = Append(@, [value |-> v, weight |-> weight, time |-> now])]
          /\ UNCHANGED num_discarded_old_points
    /\ points' = <<>>
    /\ UNCHANGED <<now, stats, before, flushed>>

-----------------------------------------------------------------------------
\* Mutant: a metric expires a second early.
ExpiredEarly(m) == m.last = None \/ m.last <= now - EXPIRY

\* Mutant: a metric that was never sampled does not expire.
ExpiredSampled(m) == m.last # None /\ m.last < now - EXPIRY

Expired(m) == m.last = None \/ m.last < now - EXPIRY

\* A metric that expires goes with the samples it has, the others are flushed.
flush ==
    LET live == {c \in DOMAIN metrics : ~Expired(metrics[c])} IN
    /\ points' = [c \in live |-> Points(metrics[c])]
    /\ metrics' = [c \in live |-> Flushed(metrics[c])]
    /\ num_discarded_old_points' = 0
    /\ stats' = [metrics |-> metric_count, metrics_total |-> stats.metrics_total + metric_count]
    /\ metric_count' = 0
    /\ log' = [c \in Contexts |-> <<>>]
    /\ before' = [c \in Contexts |->
                    IF c \notin live THEN None
                    ELSE IF log[c] = <<>> THEN before[c] ELSE Last(log[c])]
    /\ flushed' = now
    /\ UNCHANGED <<now, sources, submits>>

Tick ==
    /\ now < workload.max_time
    /\ now' = now + 1
    /\ points' = <<>>
    /\ UNCHANGED <<metrics, sources, metric_count, num_discarded_old_points, stats,
                   log, before, flushed, submits>>

Submits ==
    \E s \in workload.sources, c \in workload.contexts, mtype \in workload.mtypes,
       v \in workload.values, w \in workload.weights, age \in workload.ages :
        submit_metric(s, c, mtype, v, w, age)

Next == UNCHANGED workload /\ (Submits \/ flush \/ Tick)

Spec == Init /\ [][Next]_vars

-----------------------------------------------------------------------------
TypeOK ==
    /\ workload \in Workloads
    /\ now \in 0 .. workload.max_time
    /\ DOMAIN metrics \subseteq Contexts
    /\ \A c \in DOMAIN metrics : IsMetric(metrics[c]) /\ metrics[c].last \in (0 .. now) \cup {None}
    /\ sources \in [Sources -> SUBSET Contexts]
    /\ {metric_count, num_discarded_old_points, submits} \subseteq 0 .. workload.max_submits
    /\ stats \in [{"metrics", "metrics_total"} -> 0 .. workload.max_submits]
    /\ DOMAIN points \subseteq Contexts
    /\ \A c \in Contexts : before[c] = None \/ before[c].value \in workload.values
    /\ flushed \in 0 .. now

OfMetric(c, field, none) == IF c \in DOMAIN metrics THEN metrics[c][field] ELSE none

Reference == INSTANCE MetricsReference WITH
    class <- [c \in Contexts |-> OfMetric(c, "class", None)],
    last <- [c \in Contexts |-> OfMetric(c, "last", None)]

\* A flush reports of every metric what its class promises of the samples since
\* the last flush, whatever was submitted and flushed before: MonotonicCount and
\* Rate bridge flushes, and no sample is reported twice or passed over.
ImplementsReference == Reference!Spec

\* A metric without samples, be it that all its points were too old, is gone once
\* a flush has found it unsampled for expiry_seconds.  One that expires has no
\* samples that were not reported, as long as flushes are no further apart than
\* expiry_seconds: a sample is never older than the last flush when it is flushed.
ExpiryHolds ==
    [][flush =>
        /\ \A c \in DOMAIN metrics' :
              metrics[c].last # None /\ now - metrics[c].last <= EXPIRY
        /\ now - flushed <= EXPIRY
              => \A c \in DOMAIN metrics \ DOMAIN metrics' : log[c] = <<>>]_vars

\* The statistic counts the samples that the next flush is to report, and every
\* metric is one of a source that the status knows.
Accounted ==
    /\ \A c \in DOMAIN metrics : \E s \in Sources : c \in sources[s]
    /\ metric_count = Cardinality(UNION {{c} \X DOMAIN log[c] : c \in Contexts})

\* The aggregator between two calls: of its type, with the counts and the sources of the
\* metrics it holds.
Consistent == TypeOK /\ Accounted
==============================================================================
