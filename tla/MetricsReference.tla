-------------------------- MODULE MetricsReference ---------------------------
(***************************************************************************)
(* What MetricsAggregator promises, without its metrics: a context is the  *)
(* samples it got since the last flush and the one before them, and a      *)
(* flush reports of each what its class says of these.                     *)
(***************************************************************************)
EXTENDS Integers, Sequences, FiniteSets, SequencesExt, Common

CONSTANTS
    Contexts, Interval, EXPIRY, Aggregates, Percentiles

VARIABLES
    now,
    class,   \* the class of a context's metric, None when it has none
    log,     \* its samples since the last flush
    before,  \* the last one before these, None when there is none
    last,    \* when it was sampled last, None when it was not
    points   \* what the step reports: suffixes and values

refVars == <<now, class, log, before, last, points>>

-----------------------------------------------------------------------------
(***************************************************************************)
(* What a flush is to report of a metric with samples ss after the sample  *)
(* b, as a predicate of the points pts.                                    *)
(***************************************************************************)
SumOf(ss, Number(_)) == Total([i \in 1 .. Len(ss) |-> Number(ss[i])])
ValuesOf(ss) == {ss[i].value : i \in 1 .. Len(ss)}

\* The samples with the one before them.
Since(b, ss) == (IF b = None THEN <<>> ELSE <<b>>) \o ss

\* By how much a counter rose between two samples; one that fell was reset.
Rise(x, y) == IF y.value > x.value THEN y.value - x.value ELSE 0
Rises(all) == Total([i \in 1 .. Len(all) - 1 |-> Rise(all[i], all[i + 1])])

\* x is the r-th smallest value of ss.
HasRank(ss, x, r) ==
    /\ Cardinality({i \in 1 .. Len(ss) : ss[i].value < x}) < r
    /\ Cardinality({i \in 1 .. Len(ss) : ss[i].value <= x}) >= r

\* x is the p-th percentile: its rank is one nearest to p hundredths of all, and that of
\* the largest if these are less than half a sample.
IsPercentile(ss, x, p) ==
    \E r \in 1 .. Len(ss) :
        /\ HasRank(ss, x, r)
        /\ \/ 2 * (100 * r - p * Len(ss)) \in -100 .. 100
           \/ r = Len(ss) /\ 2 * p * Len(ss) < 100

\* One aggregate, or percentile, of a histogram.
IsAggregate(ss, suffix, value) ==
    CASE suffix = <<"min">> -> value[1] \in ValuesOf(ss) /\ \A v \in ValuesOf(ss) : v >= value[1]
      [] suffix = <<"max">> -> value[1] \in ValuesOf(ss) /\ \A v \in ValuesOf(ss) : v <= value[1]
      [] suffix = <<"median">> -> IsPercentile(ss, value[1], 50)
      [] suffix = <<"avg">> -> value = <<SumOf(ss, LAMBDA x : x.value), Len(ss)>>
      [] suffix = <<"sum">> -> value = <<SumOf(ss, LAMBDA x : x.value), 1>>
      [] suffix = <<"count">> -> value = <<SumOf(ss, LAMBDA x : x.weight), Interval>>
      [] suffix[1] = "percentile" -> IsPercentile(ss, value[1], suffix[2])

\* The points of a histogram, by their suffixes.
PointNames == {<<a>> : a \in Aggregates} \cup {<<"percentile", p>> : p \in Percentiles}

Only(value) == {<<<<>>, value>>}

Promised(cl, b, ss, pts) ==
    LET all == Since(b, ss)
        n == Len(all)
    IN
    CASE cl = "Counter" -> pts = Only(<<SumOf(ss, LAMBDA x : x.value * x.weight), Interval>>)
      [] cl # "Counter" /\ ss = <<>> -> pts = {}
      [] cl = "Gauge" /\ ss # <<>> -> pts = Only(<<Last(ss).value, 1>>)
      [] cl = "Count" /\ ss # <<>> -> pts = Only(<<SumOf(ss, LAMBDA x : x.value), 1>>)
      [] cl = "Set" /\ ss # <<>> -> pts = Only(<<Cardinality(ValuesOf(ss)), 1>>)
      [] cl = "MonotonicCount" /\ ss # <<>> ->
            pts = IF n = 1 THEN {} ELSE Only(<<Rises(all), 1>>)
      [] cl = "Rate" /\ ss # <<>> ->
            IF n = 1 THEN pts = {}
            ELSE LET x == all[n - 1]
                     y == all[n]
                 IN  pts = IF y.time > x.time /\ y.value >= x.value
                           THEN Only(<<y.value - x.value, y.time - x.time>>) ELSE {}
      [] cl = "Histogram" /\ ss # <<>> ->
            /\ {pt[1] : pt \in pts} = PointNames
            /\ \A pt \in pts : IsAggregate(ss, pt[1], pt[2])

-----------------------------------------------------------------------------
Init ==
    /\ now = 0
    /\ class = [c \in Contexts |-> None]
    /\ log = [c \in Contexts |-> <<>>]
    /\ before = [c \in Contexts |-> None]
    /\ last = [c \in Contexts |-> None]
    /\ points = <<>>

Tick ==
    /\ now' > now
    /\ points' = <<>>
    /\ UNCHANGED <<class, log, before, last>>

\* A context keeps the class it was first given.
Known(c) ==
    /\ \A d \in Contexts \ {c} : class'[d] = class[d]
    /\ class'[c] # None
    /\ class[c] # None => class'[c] = class[c]

Submit(c) ==
    /\ Known(c)
    /\ Len(log'[c]) = Len(log[c]) + 1
    /\ log' = [log EXCEPT ![c] = Append(@, Last(log'[c]))]
    /\ Last(log'[c]).time = now
    /\ last' = [last EXCEPT ![c] = now]
    /\ points' = <<>>
    /\ UNCHANGED <<now, before>>

\* A point that is too old counts for nothing.
Discard(c) == Known(c) /\ points' = <<>> /\ UNCHANGED <<now, log, before, last>>

\* A context that was not sampled for EXPIRY seconds is forgotten.
Forgotten(c) == last[c] = None \/ now - last[c] > EXPIRY

Flush ==
    LET kept == {c \in Contexts : class[c] # None /\ ~Forgotten(c)} IN
    /\ DOMAIN points' = kept
    /\ \A c \in kept : Promised(class[c], before[c], log[c], points'[c])
    /\ class' = [c \in Contexts |-> IF c \in kept THEN class[c] ELSE None]
    /\ log' = [c \in Contexts |-> <<>>]
    /\ before' = [c \in Contexts |->
                    IF c \notin kept THEN None
                    ELSE IF log[c] = <<>> THEN before[c] ELSE Last(log[c])]
    /\ last' = [c \in Contexts |-> IF c \in kept THEN last[c] ELSE None]
    /\ UNCHANGED now

Next == Tick \/ Flush \/ \E c \in Contexts : Submit(c) \/ Discard(c)

Spec == Init /\ [][Next]_refVars
==============================================================================
