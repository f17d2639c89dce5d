----------------------------- MODULE MetricTypes -----------------------------
(***************************************************************************)
(* aggregator/types.py: the metric classes, as records with the fields of  *)
(* the class, and what sample and flush make of them.  Numbers are         *)
(* integers; a quotient is the pair of its numerator and denominator, so   *)
(* no rounding is lost but the one of Histogram.flush, which is its point: *)
(* with floats a rank in the middle may fall to either side of it.         *)
(***************************************************************************)
EXTENDS Integers, Sequences, FiniteSets, SequencesExt, Common

CONSTANTS
    Interval,     \* aggregator_interval
    Aggregates,   \* histogram_aggregates
    Percentiles   \* histogram_percentiles, in hundredths, to which config.py cuts them

ASSUME MetricTypesAssumption ==
    /\ Interval \in Nat \ {0}
    /\ Aggregates \subseteq {"min", "max", "median", "avg", "sum", "count"}
    /\ Percentiles \subseteq 0 .. 99
    /\ None \notin Int

\* MetricResolver.TYPES
MetricResolver ==
    [ct |-> "Count", c |-> "Counter", g |-> "Gauge", h |-> "Histogram",
     ms |-> "Histogram", ctc |-> "MonotonicCount", ddr |-> "Rate", s |-> "Set"]

Whole(n) == <<n, 1>>

\* max
Larger(a, b) == IF a > b THEN a ELSE b

-----------------------------------------------------------------------------
(***************************************************************************)
(* Histogram.flush                                                         *)
(***************************************************************************)

\* round(n / d): to the nearest integer, from the middle to the even one.
RoundHalfEven(n, d) ==
    LET q == n \div d
        r == n % d
    IN  IF 2 * r < d \/ (2 * r = d /\ q % 2 = 0) THEN q ELSE q + 1

\* samples[i] with Python's indices, which count from the end below 0.
At(samples, i) == samples[IF i < 0 THEN Len(samples) + i + 1 ELSE i + 1]

\* samples.sort()
Ascending(samples) ==
    LET places == 1 .. Len(samples)
        order == CHOOSE p \in Bijection(places, places) :
                     \A i \in 1 .. Len(samples) - 1 : samples[p[i]] <= samples[p[i + 1]]
    IN  [i \in places |-> samples[order[i]]]

Median(sorted) == At(sorted, RoundHalfEven(Len(sorted) - 2, 2))

Percentile(sorted, p) == At(sorted, RoundHalfEven(p * Len(sorted) - 100, 100))

HistogramPoints(m) ==
    LET sorted == Ascending(m.samples)
        sum == Total(sorted)
        aggregators ==
            [min |-> Whole(sorted[1]), max |-> Whole(Last(sorted)),
             median |-> Whole(Median(sorted)), avg |-> <<sum, Len(sorted)>>,
             sum |-> Whole(sum), count |-> <<m.count, Interval>>]
    IN  IF m.count = 0 THEN {}
        ELSE {<<<<a>>, aggregators[a]>> : a \in Aggregates}
             \cup {<<<<"percentile", p>>, Whole(Percentile(sorted, p))>> : p \in Percentiles}

-----------------------------------------------------------------------------
(***************************************************************************)
(* A metric of each class: when it is created, sampled and flushed.        *)
(***************************************************************************)
\* Gauge and Count.
NewValue(class) == [class |-> class, value |-> None, last |-> None]
NewCounter == [class |-> "Counter", value |-> 0, last |-> None]
NewMonotonic == [class |-> "MonotonicCount", prev |-> None, curr |-> None, count |-> None, last |-> None]
NewHistogram == [class |-> "Histogram", count |-> 0, samples |-> <<>>, last |-> None]
NewRate == [class |-> "Rate", samples |-> <<>>, last |-> None]
NewSet == [class |-> "Set", values |-> {}, last |-> None]

New(class) ==
    CASE class \in {"Count", "Gauge"} -> NewValue(class)
      [] class = "Counter" -> NewCounter
      [] class = "MonotonicCount" -> NewMonotonic
      [] class = "Histogram" -> NewHistogram
      [] class = "Rate" -> NewRate
      [] class = "Set" -> NewSet

OrZero(x) == IF x = None THEN 0 ELSE x

SampleGauge(m, v) == [m EXCEPT !.value = v]
SampleCount(m, v) == [m EXCEPT !.value = OrZero(@) + v]
SampleCounter(m, v, weight) == [m EXCEPT !.value = @ + v * weight]
SampleHistogram(m, v, weight) == [m EXCEPT !.count = @ + weight, !.samples = Append(@, v)]
SampleRate(m, v, now) == [m EXCEPT !.samples = Append(@, <<now, v>>)]
SampleSet(m, v) == [m EXCEPT !.values = @ \cup {v}]

\* MonotonicCount.sample
Monotonic(m, v) ==
    LET prev == IF m.curr = None THEN m.prev ELSE m.curr IN
    [m EXCEPT !.prev = prev, !.curr = v,
              !.count = IF prev = None THEN @ ELSE OrZero(@) + Larger(0, v - prev)]

\* sample(value, sample_rate): weight is int(1 / sample_rate).
Sample(m, v, weight, now) ==
    LET sampled ==
        CASE m.class = "Gauge" -> SampleGauge(m, v)
          [] m.class = "Count" -> SampleCount(m, v)
          [] m.class = "Counter" -> SampleCounter(m, v, weight)
          [] m.class = "MonotonicCount" -> Monotonic(m, v)
          [] m.class = "Histogram" -> SampleHistogram(m, v, weight)
          [] m.class = "Rate" -> SampleRate(m, v, now)
          [] m.class = "Set" -> SampleSet(m, v)
    IN  [sampled EXCEPT !.last = now]

\* Rate._rate: no point over no time, none for a counter that was reset.
RatePoints(m) ==
    LET n == Len(m.samples)
        time == m.samples[n][1] - m.samples[n - 1][1]
        delta == m.samples[n][2] - m.samples[n - 1][2]
    IN  IF n < 2 THEN {}
        ELSE IF time = 0 \/ delta < 0 THEN {}
        ELSE {<<<<>>, <<delta, time>>>>}

\* Gauge and Count.
ValuePoints(m) == {<<<<>>, Whole(v)>> : v \in {m.value} \ {None}}
CounterPoints(m) == {<<<<>>, <<m.value, Interval>>>>}
MonotonicPoints(m) == {<<<<>>, Whole(v)>> : v \in {m.count} \ {None}}
SetPoints(m) == IF m.values = {} THEN {} ELSE {<<<<>>, Whole(Cardinality(m.values))>>}

\* What flush returns: pairs of what it adds to the name and a value.
Points(m) ==
    CASE m.class \in {"Count", "Gauge"} -> ValuePoints(m)
      [] m.class = "Counter" -> CounterPoints(m)
      [] m.class = "MonotonicCount" -> MonotonicPoints(m)
      [] m.class = "Histogram" -> HistogramPoints(m)
      [] m.class = "Rate" -> RatePoints(m)
      [] m.class = "Set" -> SetPoints(m)

\* Mutant: the counter it has seen last is forgotten.
ForgetsCounter(m) == [m EXCEPT !.prev = None, !.curr = None, !.count = None]

\* MonotonicCount.flush: without a count it returns before it changes anything.
MonotonicFlushed(m) ==
    IF m.count = None THEN m ELSE [m EXCEPT !.prev = m.curr, !.curr = None, !.count = None]

ValueFlushed(m) == [m EXCEPT !.value = None]
CounterFlushed(m) == [m EXCEPT !.value = 0]
HistogramFlushed(m) == [m EXCEPT !.count = 0, !.samples = <<>>]
RateFlushed(m) == [m EXCEPT !.samples = IF Len(@) < 2 THEN @ ELSE <<Last(@)>>]
SetFlushed(m) == [m EXCEPT !.values = {}]

\* What flush leaves of the metric.
Flushed(m) ==
    CASE m.class \in {"Count", "Gauge"} -> ValueFlushed(m)
      [] m.class = "Counter" -> CounterFlushed(m)
      [] m.class = "MonotonicCount" -> MonotonicFlushed(m)
      [] m.class = "Histogram" -> HistogramFlushed(m)
      [] m.class = "Rate" -> RateFlushed(m)
      [] m.class = "Set" -> SetFlushed(m)

-----------------------------------------------------------------------------
\* Whether m is a metric, sampled with whole numbers.
IsMetric(m) ==
    CASE m.class \in {"Count", "Gauge"} -> m.value = None \/ m.value \in Int
      [] m.class = "Counter" -> m.value \in Int
      [] m.class = "MonotonicCount" -> m.count = None \/ (m.count \in Nat /\ m.prev # None)
      [] m.class = "Histogram" -> m.count >= Len(m.samples)
      [] m.class = "Rate" -> \A i \in 2 .. Len(m.samples) : m.samples[i][1] >= m.samples[i - 1][1]
      [] m.class = "Set" -> m.values \subseteq Int
==============================================================================
