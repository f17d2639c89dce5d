-------------------------- MODULE CollectionProofs --------------------------
(***************************************************************************)
(* Proofs about what the AgentRunner does in its turns: how late a check   *)
(* starts and how long a flush waits (Collector), for any number of        *)
(* checks, intervals and durations; what is said of the host (Inventory),  *)
(* for any machine, interfaces and number of payloads; which errors the    *)
(* status page shows (StatusPage); and what two of the checks submit, that *)
(* of processes (ProcessCheck), for any processes and durations, and that  *)
(* of the management console (Hmc), for any servers and failures.          *)
(***************************************************************************)
EXTENDS Collector, Inventory, StatusPage, ProcessCheck, Hmc, FiniteSetTheorems, TLAPS

(***************************************************************************)
(* Times.                                                                  *)
(***************************************************************************)
\* How many checks there are.
LEMMA Counting ==
    /\ Len(Order) \in Nat
    /\ \A i \in 1 .. Len(Order) : Order[i] \in Instances
    /\ \A c \in Instances : \E i \in 1 .. Len(Order) : c = Order[i]
    /\ \A c \in Instances : Interval[c] \in Nat \ {0} /\ Interval[c] < Ages
    /\ SLEEP \in Nat \ {0} /\ META_INTERVAL \in Nat \ {0}
    /\ Ages \in Nat /\ MaxFailures \in Nat
BY CollectorAssumption DEF Instances

\* No check takes longer than the slowest.
LEMMA SlowestType ==
    Slowest \in Nat /\ \A d \in Durations : d \in Nat /\ d <= Slowest /\ d <= Ages
<1>1. PICK longest \in Durations : \A d \in Durations : d <= longest
  BY CollectorAssumption
<1>2. \A d \in Durations : d \in Nat /\ d <= Ages
  BY CollectorAssumption
<1>3. \A d \in Durations : longest >= d
  BY <1>1, <1>2
<1>4. Slowest \in Durations /\ \A d \in Durations : Slowest >= d
  BY <1>1, <1>3 DEF Slowest, Max
<1> QED
  BY <1>2, <1>4

\* The larger of two numbers.
LEMMA LargerOfTwo ==
    ASSUME NEW m \in Int, NEW n \in Int
    PROVE  Max({m, n}) \in Int /\ Max({m, n}) >= m /\ Max({m, n}) >= n
<1>1. \E x \in {m, n} : \A y \in {m, n} : x >= y
  OBVIOUS
<1> QED
  BY <1>1 DEF Max

\* The smaller of two numbers.
LEMMA SmallerOfTwo ==
    ASSUME NEW m \in Int, NEW n \in Int
    PROVE  /\ Min({m, n}) <= m /\ Min({m, n}) <= n
           /\ Min({m, n}) \in Int /\ (m >= 0 /\ n >= 0 => Min({m, n}) >= 0)
<1>1. \E x \in {m, n} : \A y \in {m, n} : x <= y
  OBVIOUS
<1> QED
  BY <1>1 DEF Min

\* Counted seconds grow by at most what passes.
LEMMA OlderBounds ==
    ASSUME NEW age \in 0 .. Ages, NEW d \in Nat
    PROVE  Older(age, d) \in 0 .. Ages /\ Older(age, d) <= age + d
BY Counting DEF Older

\* n of the slowest checks.
Slow(n) == n * Slowest

\* They take Slowest longer when there is one more.
LEMMA SlowSteps ==
    /\ \A n \in Int : Slow(n) \in Int /\ Slow(n + 1) = Slow(n) + Slowest
    /\ \A m \in Int, n \in Int : m <= n => Slow(m) <= Slow(n)
    /\ Slow(0) = 0
<1>1. Slowest \in Nat
  BY SlowestType
<1>2. ASSUME NEW n \in Int PROVE Slow(n) \in Int /\ Slow(n + 1) = Slow(n) + Slowest
  BY <1>1 DEF Slow
<1>3. ASSUME NEW m \in Int, NEW n \in Int, m <= n PROVE Slow(m) <= Slow(n)
  <2>1. (n - m) * Slowest >= 0
    BY <1>1, <1>3
  <2> QED
    BY <1>1, <2>1 DEF Slow
<1> QED
  BY <1>1, <1>2, <1>3 DEF Slow

\* What the failures of the metadata cost.
Lost(n) == n * (SLEEP + Slowest)

\* Each costs a sleep and a request.
LEMMA LostSteps ==
    /\ \A n \in Nat : Lost(n) \in Nat /\ Lost(n + 1) = Lost(n) + SLEEP + Slowest
    /\ Lost(0) = 0
<1>1. SLEEP + Slowest \in Nat
  BY SlowestType, Counting
<1>2. ASSUME NEW n \in Nat PROVE Lost(n) \in Nat /\ Lost(n + 1) = Lost(n) + (SLEEP + Slowest)
  BY <1>1 DEF Lost
<1> QED
  BY <1>1, <1>2, SlowestType, Counting DEF Lost

-----------------------------------------------------------------------------
(***************************************************************************)
(* The inductive invariant: how old everything may be at each place of a   *)
(* turn.                                                                   *)
(***************************************************************************)
Places == 1 .. Len(Order)

\* What a check may wait for before the others: its interval, or its own last run.
Own(i) == Max({Interval[Order[i]] - 1, Slowest})

\* A check that this turn has come to was left with its own; one that it has not come to has
\* waited for the checks after it, a push, a sleep, a request and the checks before it.
Punctual ==
    \A i \in Places :
        LET age == since[Order[i]] IN
        /\ pc = "checks" /\ next > i => age <= Own(i) + Slow(next - 1 - i)
        /\ pc = "push" => age <= Own(i) + Slow(Len(Order) - i)
        /\ pc = "sleep" => age <= Own(i) + Slow(Len(Order) + 1 - i) + Lost(failures)
        /\ pc = "metadata" =>
              age <= Own(i) + Slow(Len(Order) + 1 - i) + SLEEP + Lost(failures)
        /\ pc = "checks" /\ next <= i =>
              age <= Own(i) + Slow(Len(Order) + 1 - i + next) + SLEEP + Lost(failures)

\* The same for the aggregator, which the push flushes.
Flushed ==
    /\ pc = "sleep" => unflushed <= Slow(1) + Lost(failures)
    /\ pc = "metadata" => unflushed <= Slow(1) + SLEEP + Lost(failures)
    /\ pc = "checks" => unflushed <= Slow(1 + next) + SLEEP + Lost(failures)
    /\ pc = "push" => unflushed <= Slow(Len(Order) + 2) + SLEEP + Lost(failures)

\* The errors that are published after the checks are those of their last runs.
Recorded == failed \subseteq errors /\ (pc # "checks" => failed \subseteq status)

Inductive == CollectorTypeOK /\ Punctual /\ Flushed /\ Recorded

\* A check's own is at least a slowest run and what is short of its interval.
LEMMA OwnBounds ==
    ASSUME NEW i \in Places
    PROVE  /\ Own(i) \in Nat /\ Slowest <= Own(i)
           /\ Order[i] \in Instances /\ Interval[Order[i]] \in Nat
           /\ Interval[Order[i]] <= Own(i) + 1
<1>1. Order[i] \in Instances /\ Interval[Order[i]] \in Nat /\ Interval[Order[i]] - 1 \in Int
  BY Counting DEF Places
<1>2. /\ Own(i) \in Int /\ Own(i) >= Interval[Order[i]] - 1 /\ Own(i) >= Slowest
  <2> DEFINE rest == Interval[Order[i]] - 1
  <2>1. rest \in Int /\ Slowest \in Int
    BY <1>1, SlowestType
  <2> HIDE DEF rest
  <2>2. Max({rest, Slowest}) \in Int /\ Max({rest, Slowest}) >= rest /\ Max({rest, Slowest}) >= Slowest
    BY <2>1, LargerOfTwo
  <2> QED
    BY <2>2 DEF rest, Own
<1> QED
  BY <1>1, <1>2, SlowestType

\* When the agent starts, a check that never ran counts as due at most.
LEMMA InitiallyInductive == CollectorInit => Inductive
<1> SUFFICES ASSUME CollectorInit PROVE Inductive
  OBVIOUS
<1>1. PICK up \in 0 .. Ages : since = [c \in Instances |-> Min({up, Interval[c]})]
  BY DEF CollectorInit
<1>2. \A c \in Instances : Min({up, Interval[c]}) \in 0 .. Interval[c]
  <2> SUFFICES ASSUME NEW c \in Instances PROVE Min({up, Interval[c]}) \in 0 .. Interval[c]
    OBVIOUS
  <2>1. up \in Int /\ up >= 0 /\ Interval[c] \in Int /\ Interval[c] >= 0
    BY Counting
  <2> QED
    BY <2>1, SmallerOfTwo
<1>3. CollectorTypeOK
  <2>1. since \in [Instances -> 0 .. Ages]
    <3>1. \A c \in Instances : Min({up, Interval[c]}) \in 0 .. Ages
      <4> SUFFICES ASSUME NEW c \in Instances PROVE Min({up, Interval[c]}) \in 0 .. Ages
        OBVIOUS
      <4>1. Interval[c] \in Nat /\ Interval[c] < Ages /\ Ages \in Nat
        BY Counting
      <4> QED
        BY <1>2, <4>1
    <3> QED
      BY <1>1, <3>1
  <2> QED
    BY <2>1, Counting DEF CollectorInit, CollectorTypeOK
<1>4. Punctual
  <2> SUFFICES ASSUME NEW i \in Places
               PROVE  since[Order[i]] <= Own(i) + Slow(Len(Order) + 1 - i) + SLEEP + Lost(failures)
    BY DEF CollectorInit, Punctual
  <2>1. since[Order[i]] \in 0 .. Interval[Order[i]]
    BY <1>1, <1>2, OwnBounds
  <2>2. Len(Order) + 1 - i \in Nat
    BY Counting DEF Places
  <2>3. Slow(Len(Order) + 1 - i) \in Int /\ Slow(Len(Order) + 1 - i) >= 0
    BY <2>2, SlowSteps
  <2>4. Lost(failures) = 0 /\ SLEEP \in Nat /\ SLEEP >= 1
    BY Counting, LostSteps DEF CollectorInit
  <2> QED
    BY <2>1, <2>3, <2>4, OwnBounds
<1>5. Flushed
  <2>1. Slow(1) \in Int /\ Slow(1) >= 0
    BY SlowSteps
  <2> QED
    BY <2>1, Counting, LostSteps DEF CollectorInit, Flushed
<1>6. Recorded
  BY DEF CollectorInit, Recorded
<1> QED
  BY <1>3, <1>4, <1>5, <1>6 DEF Inductive

-----------------------------------------------------------------------------
(***************************************************************************)
(* The steps.                                                              *)
(***************************************************************************)
\* The types of what a step compares.
LEMMA AgeTypes ==
    ASSUME CollectorTypeOK
    PROVE  /\ \A i \in Places : since[Order[i]] \in 0 .. Ages /\ i \in 1 .. Len(Order)
           /\ unflushed \in 0 .. Ages /\ meta_since \in 0 .. Ages
           /\ failures \in Nat /\ next \in 1 .. Len(Order) + 1
           /\ Len(Order) \in Nat /\ SLEEP \in Nat /\ Ages \in Nat
BY Counting DEF CollectorTypeOK, Places

\* Seconds that pass make nothing older than by them.
LEMMA OlderFacts ==
    ASSUME CollectorTypeOK, NEW d \in Nat
    PROVE  /\ \A c \in Instances :
                 Older(since[c], d) \in 0 .. Ages /\ Older(since[c], d) <= since[c] + d
           /\ Older(meta_since, d) \in 0 .. Ages
           /\ Older(unflushed, d) \in 0 .. Ages /\ Older(unflushed, d) <= unflushed + d
<1>1. \A c \in Instances : since[c] \in 0 .. Ages
  BY DEF CollectorTypeOK
<1>2. unflushed \in 0 .. Ages /\ meta_since \in 0 .. Ages
  BY DEF CollectorTypeOK
<1> QED
  BY <1>1, <1>2, OlderBounds

\* The numbers that the bounds of a turn are made of.
LEMMA TurnTypes ==
    ASSUME CollectorTypeOK
    PROVE  /\ unflushed \in Int /\ SLEEP \in Int /\ Slowest \in Int /\ Slowest >= 0
           /\ Lost(failures) \in Int /\ Slow(1) \in Int
           /\ Slow(1) = Slowest /\ Slow(2) = Slow(1) + Slowest
<1>1. unflushed \in 0 .. Ages /\ failures \in Nat /\ SLEEP \in Nat
  BY AgeTypes
<1>2. unflushed \in Int
  BY <1>1, Counting
<1>3. Lost(failures) \in Int
  BY <1>1, LostSteps
<1>4. Slow(0 + 1) = Slow(0) + Slowest /\ Slow(1 + 1) = Slow(1) + Slowest /\ Slow(1) \in Int /\ Slow(0) = 0
  BY SlowSteps
<1>5. Slowest \in Int /\ Slowest >= 0
  BY SlowestType
<1> QED
  BY <1>1, <1>2, <1>3, <1>4, <1>5

\* And those of the bound of a check.
LEMMA PlaceTypes ==
    ASSUME CollectorTypeOK, NEW i \in Places
    PROVE  /\ Order[i] \in Instances /\ since[Order[i]] \in Int /\ since[Order[i]] >= 0
           /\ Own(i) \in Int /\ Own(i) >= Slowest
           /\ i \in Int /\ Len(Order) \in Int /\ i >= 1 /\ i <= Len(Order)
           /\ Slow(Len(Order) - i) \in Int /\ Slow(Len(Order) - i) >= 0
           /\ Slow(Len(Order) + 1 - i) = Slow(Len(Order) - i) + Slowest
           /\ Slow(Len(Order) + 1 - i + 1) = Slow(Len(Order) + 1 - i) + Slowest
<1>1. Order[i] \in Instances /\ Own(i) \in Nat /\ Slowest <= Own(i)
  BY OwnBounds
<1>2. Slowest \in Int
  BY SlowestType
<1>3. since[Order[i]] \in 0 .. Ages /\ i \in 1 .. Len(Order) /\ Len(Order) \in Nat /\ Ages \in Nat
  BY AgeTypes
<1>4. since[Order[i]] \in Int /\ since[Order[i]] >= 0 /\ i \in Int /\ i >= 1 /\ i <= Len(Order)
  BY <1>3
<1>5. Len(Order) - i \in Int /\ 0 <= Len(Order) - i /\ (Len(Order) - i) + 1 = Len(Order) + 1 - i
  BY <1>3
<1>6. /\ Slow(Len(Order) - i) \in Int /\ Slow(0) <= Slow(Len(Order) - i) /\ Slow(0) = 0
      /\ Slow((Len(Order) - i) + 1) = Slow(Len(Order) - i) + Slowest
  BY <1>5, SlowSteps
<1>7. Slow(Len(Order) + 1 - i + 1) = Slow(Len(Order) + 1 - i) + Slowest
  <2>1. Len(Order) + 1 - i \in Int
    BY <1>3
  <2> QED
    BY <2>1, SlowSteps
<1>8. Slow(Len(Order) + 1 - i) = Slow(Len(Order) - i) + Slowest
  BY <1>5, <1>6
<1> QED
  BY <1>1, <1>2, <1>3, <1>4, <1>6, <1>7, <1>8

\* Without a request the turn goes on at the first check.
LEMMA NoMetadataStep ==
    ASSUME Inductive, NoMetadata
    PROVE  Inductive'
<1> USE DEF Inductive
<1>1. CollectorTypeOK'
  BY AgeTypes DEF NoMetadata, CollectorTypeOK
<1>2. Punctual'
  <2> SUFFICES ASSUME NEW i \in Places
               PROVE  since[Order[i]] <= Own(i) + Slow(Len(Order) + 1 - i + 1) + SLEEP + Lost(failures)
    BY AgeTypes DEF NoMetadata, Punctual
  <2>1. since[Order[i]] <= Own(i) + Slow(Len(Order) + 1 - i) + SLEEP + Lost(failures)
    BY DEF NoMetadata, Punctual
  <2>2. /\ since[Order[i]] \in Int /\ Own(i) \in Int
        /\ Slow(Len(Order) + 1 - i) \in Int
        /\ Slow(Len(Order) + 1 - i + 1) = Slow(Len(Order) + 1 - i) + Slowest
    BY PlaceTypes, TurnTypes
  <2>3. SLEEP \in Int /\ Lost(failures) \in Int /\ Slowest \in Nat
    BY TurnTypes
  <2> QED
    BY <2>1, <2>2, <2>3
<1>3. Flushed'
  <2>1. unflushed <= Slow(1) + SLEEP + Lost(failures)
    BY DEF NoMetadata, Flushed
  <2>2. unflushed <= Slow(2) + SLEEP + Lost(failures)
    BY <2>1, TurnTypes
  <2> QED
    BY <2>2 DEF NoMetadata, Flushed
<1>4. Recorded'
  BY DEF NoMetadata, Recorded
<1> QED
  BY <1>1, <1>2, <1>3, <1>4

\* A request makes everything older by what it takes.
LEMMA MetadataStep ==
    ASSUME Inductive, NEW d \in Durations, Metadata(d)
    PROVE  Inductive'
<1> USE DEF Inductive
<1>1. d \in Nat /\ d <= Slowest /\ d <= Ages /\ Slowest \in Nat
  BY SlowestType
<1>2. /\ since' = [c \in Instances |-> Older(since[c], d)] /\ meta_since' = d
      /\ unflushed' = Older(unflushed, d) /\ pc = "metadata" /\ pc' = "checks" /\ next' = 1
      /\ UNCHANGED <<errors, status, failures, failed>>
  BY DEF Metadata
<1>3. CollectorTypeOK'
  <2>1. since' \in [Instances -> 0 .. Ages] /\ {meta_since', unflushed'} \subseteq 0 .. Ages
    BY <1>1, <1>2, OlderFacts, Counting
  <2>2. next' \in 1 .. Len(Order) + 1
    BY <1>2, Counting
  <2> QED
    BY <1>2, <2>1, <2>2 DEF CollectorTypeOK
<1>4. Punctual'
  <2> SUFFICES ASSUME NEW i \in Places
               PROVE  since'[Order[i]] <= Own(i) + Slow(Len(Order) + 1 - i + 1) + SLEEP + Lost(failures)
    BY <1>2, AgeTypes DEF Punctual
  <2>1. since[Order[i]] <= Own(i) + Slow(Len(Order) + 1 - i) + SLEEP + Lost(failures)
    BY <1>2 DEF Punctual
  <2>2. since'[Order[i]] \in Int /\ since'[Order[i]] <= since[Order[i]] + d
    <3>1. Order[i] \in Instances
      BY PlaceTypes
    <3>2. /\ Older(since[Order[i]], d) \in 0 .. Ages
          /\ Older(since[Order[i]], d) <= since[Order[i]] + d
      BY <1>1, <3>1, OlderFacts
    <3> QED
      BY <1>2, <3>1, <3>2, Counting
  <2>3. /\ since[Order[i]] \in Int /\ Own(i) \in Int
        /\ Slow(Len(Order) - i) \in Int
        /\ Slow(Len(Order) + 1 - i) = Slow(Len(Order) - i) + Slowest
        /\ Slow(Len(Order) + 1 - i + 1) = Slow(Len(Order) + 1 - i) + Slowest
    BY PlaceTypes
  <2>4. SLEEP \in Int /\ Lost(failures) \in Int /\ Slowest \in Int
    BY TurnTypes
  <2> DEFINE limit == Own(i) + Slow(Len(Order) + 1 - i) + SLEEP + Lost(failures)
  <2>5. limit \in Int /\ d \in Int
    BY <1>1, <2>3, <2>4
  <2>6. Own(i) + Slow(Len(Order) + 1 - i + 1) + SLEEP + Lost(failures) = limit + Slowest
    BY <2>3, <2>4
  <2> HIDE DEF limit
  <2>7. since[Order[i]] <= limit
    BY <2>1 DEF limit
  <2>8. since'[Order[i]] <= limit + Slowest
    BY <1>1, <2>2, <2>3, <2>4, <2>5, <2>7, SMTT(30)
  <2> QED
    BY <2>6, <2>8 DEF limit
<1>5. Flushed'
  <2>1. unflushed <= Slow(1) + SLEEP + Lost(failures)
    BY <1>2 DEF Flushed
  <2>2. unflushed' \in Int /\ unflushed' <= unflushed + d
    BY <1>1, <1>2, OlderFacts
  <2>3. unflushed' <= Slow(2) + SLEEP + Lost(failures)
    BY <1>1, <2>1, <2>2, TurnTypes
  <2> QED
    BY <1>2, <2>3 DEF Flushed
<1>6. Recorded'
  BY <1>2 DEF Recorded
<1> QED
  BY <1>3, <1>4, <1>5, <1>6

\* One that fails ends the turn, and counts.
LEMMA FailureStep ==
    ASSUME Inductive, NEW d \in Durations, MetadataFails(d)
    PROVE  Inductive'
<1> USE DEF Inductive
<1>1. d \in Nat /\ d <= Slowest /\ Slowest \in Nat
  BY SlowestType
<1>2. /\ since' = [c \in Instances |-> Older(since[c], d)] /\ meta_since' = Older(meta_since, d)
      /\ unflushed' = Older(unflushed, d) /\ pc = "metadata" /\ pc' = "sleep"
      /\ failures' = failures + 1 /\ failures < MaxFailures
      /\ UNCHANGED <<next, errors, status, failed>>
  BY DEF MetadataFails, Pass
<1>3. CollectorTypeOK'
  <2>1. since' \in [Instances -> 0 .. Ages] /\ {meta_since', unflushed'} \subseteq 0 .. Ages
    BY <1>1, <1>2, OlderFacts, Counting
  <2>2. failures' \in 0 .. MaxFailures
    BY <1>2, Counting DEF CollectorTypeOK
  <2> QED
    BY <1>2, <2>1, <2>2 DEF CollectorTypeOK
<1>4. Lost(failures') = Lost(failures) + SLEEP + Slowest /\ Lost(failures) \in Nat
  BY <1>2, AgeTypes, LostSteps
<1>5. Punctual'
  <2> SUFFICES ASSUME NEW i \in Places
               PROVE  since'[Order[i]] <= Own(i) + Slow(Len(Order) + 1 - i) + Lost(failures')
    BY <1>2 DEF Punctual
  <2>1. since[Order[i]] <= Own(i) + Slow(Len(Order) + 1 - i) + SLEEP + Lost(failures)
    BY <1>2 DEF Punctual
  <2>2. since'[Order[i]] \in Int /\ since'[Order[i]] <= since[Order[i]] + d
    <3>1. Order[i] \in Instances
      BY PlaceTypes
    <3>2. /\ Older(since[Order[i]], d) \in 0 .. Ages
          /\ Older(since[Order[i]], d) <= since[Order[i]] + d
      BY <1>1, <3>1, OlderFacts
    <3> QED
      BY <1>2, <3>1, <3>2, Counting
  <2>3. /\ since[Order[i]] \in Int /\ Own(i) \in Int
        /\ Slow(Len(Order) - i) \in Int
        /\ Slow(Len(Order) + 1 - i) = Slow(Len(Order) - i) + Slowest
        /\ Slow(Len(Order) + 1 - i + 1) = Slow(Len(Order) + 1 - i) + Slowest
    BY PlaceTypes
  <2>4. SLEEP \in Int /\ Lost(failures) \in Int /\ Slowest \in Int
    BY TurnTypes
  <2> DEFINE limit == Own(i) + Slow(Len(Order) + 1 - i) + SLEEP + Lost(failures)
  <2>5. limit \in Int /\ d \in Int
    BY <1>1, <2>3, <2>4
  <2>6. Own(i) + Slow(Len(Order) + 1 - i) + Lost(failures') = limit + Slowest
    BY <1>4, <2>3, <2>4
  <2> HIDE DEF limit
  <2>7. since[Order[i]] <= limit
    BY <2>1 DEF limit
  <2>8. since'[Order[i]] <= limit + Slowest
    BY <1>1, <2>2, <2>3, <2>4, <2>5, <2>7, SMTT(30)
  <2> QED
    BY <2>6, <2>8 DEF limit
<1>6. Flushed'
  <2>1. unflushed <= Slow(1) + SLEEP + Lost(failures)
    BY <1>2 DEF Flushed
  <2>2. unflushed' \in Int /\ unflushed' <= unflushed + d
    BY <1>1, <1>2, OlderFacts
  <2>3. unflushed' <= Slow(1) + Lost(failures')
    BY <1>1, <1>4, <2>1, <2>2, TurnTypes
  <2> QED
    BY <1>2, <2>3 DEF Flushed
<1>7. Recorded'
  BY <1>2 DEF Recorded
<1> QED
  BY <1>3, <1>5, <1>6, <1>7

\* The push empties the aggregator, and the failures count no more.
LEMMA PushStep ==
    ASSUME Inductive, NEW d \in Durations, Push(d)
    PROVE  Inductive'
<1> USE DEF Inductive
<1>1. d \in Nat /\ d <= Slowest /\ d <= Ages /\ Slowest \in Nat
  BY SlowestType
<1>2. /\ since' = [c \in Instances |-> Older(since[c], d)] /\ meta_since' = Older(meta_since, d)
      /\ unflushed' = d /\ pc = "push" /\ pc' = "sleep" /\ failures' = 0
      /\ UNCHANGED <<next, errors, status, failed>>
  BY DEF Push
<1>3. CollectorTypeOK'
  <2>1. since' \in [Instances -> 0 .. Ages] /\ {meta_since', unflushed'} \subseteq 0 .. Ages
    BY <1>1, <1>2, OlderFacts, Counting
  <2>2. failures' \in 0 .. MaxFailures
    BY <1>2, Counting DEF CollectorTypeOK
  <2> QED
    BY <1>2, <2>1, <2>2 DEF CollectorTypeOK
<1>4. Lost(failures') = 0
  BY <1>2, LostSteps
<1>5. Punctual'
  <2> SUFFICES ASSUME NEW i \in Places
               PROVE  since'[Order[i]] <= Own(i) + Slow(Len(Order) + 1 - i) + Lost(failures')
    BY <1>2 DEF Punctual
  <2>1. since[Order[i]] <= Own(i) + Slow(Len(Order) - i)
    BY <1>2 DEF Punctual
  <2>2. since'[Order[i]] \in Int /\ since'[Order[i]] <= since[Order[i]] + d
    <3>1. Order[i] \in Instances
      BY PlaceTypes
    <3>2. /\ Older(since[Order[i]], d) \in 0 .. Ages
          /\ Older(since[Order[i]], d) <= since[Order[i]] + d
      BY <1>1, <3>1, OlderFacts
    <3> QED
      BY <1>2, <3>1, <3>2, Counting
  <2>3. /\ since[Order[i]] \in Int /\ Own(i) \in Int
        /\ Slow(Len(Order) - i) \in Int
        /\ Slow(Len(Order) + 1 - i) = Slow(Len(Order) - i) + Slowest
        /\ Slow(Len(Order) + 1 - i + 1) = Slow(Len(Order) + 1 - i) + Slowest
    BY PlaceTypes
  <2>4. SLEEP \in Int /\ Lost(failures) \in Int /\ Slowest \in Int
    BY TurnTypes
  <2> QED
    BY <1>1, <1>4, <2>1, <2>2, <2>3, <2>4, SMTT(30)
<1>6. Flushed'
  <2>1. d <= Slow(1) + Lost(failures')
    BY <1>1, <1>4, TurnTypes
  <2> QED
    BY <1>2, <2>1 DEF Flushed
<1>7. Recorded'
  BY <1>2 DEF Recorded
<1> QED
  BY <1>3, <1>5, <1>6, <1>7

\* The sleep makes everything older by what it takes.
LEMMA SleepStep ==
    ASSUME Inductive, Sleep
    PROVE  Inductive'
<1> USE DEF Inductive
<1>1. /\ since' = [c \in Instances |-> Older(since[c], SLEEP)]
      /\ meta_since' = Older(meta_since, SLEEP) /\ unflushed' = Older(unflushed, SLEEP)
      /\ pc = "sleep" /\ pc' = "metadata"
      /\ UNCHANGED <<next, errors, status, failures, failed>>
  BY DEF Sleep, Pass
<1>2. SLEEP \in Nat
  BY Counting
<1>3. CollectorTypeOK'
  <2>1. since' \in [Instances -> 0 .. Ages] /\ {meta_since', unflushed'} \subseteq 0 .. Ages
    BY <1>1, <1>2, OlderFacts, Counting
  <2> QED
    BY <1>1, <2>1 DEF CollectorTypeOK
<1>4. Punctual'
  <2> SUFFICES ASSUME NEW i \in Places
               PROVE  since'[Order[i]] <= Own(i) + Slow(Len(Order) + 1 - i) + SLEEP + Lost(failures)
    BY <1>1 DEF Punctual
  <2> DEFINE limit == Own(i) + Slow(Len(Order) + 1 - i) + Lost(failures)
  <2>1. since[Order[i]] <= limit
    BY <1>1 DEF Punctual
  <2>2. Order[i] \in Instances
    BY PlaceTypes
  <2>3. since'[Order[i]] \in Int /\ since'[Order[i]] <= since[Order[i]] + SLEEP
    <3>1. /\ Older(since[Order[i]], SLEEP) \in 0 .. Ages
          /\ Older(since[Order[i]], SLEEP) <= since[Order[i]] + SLEEP
      BY <1>2, <2>2, OlderFacts
    <3> QED
      BY <1>1, <2>2, <3>1, Counting
  <2>4. /\ since[Order[i]] \in Int /\ Own(i) \in Int /\ Slow(Len(Order) - i) \in Int
        /\ Slow(Len(Order) + 1 - i) = Slow(Len(Order) - i) + Slowest
    BY PlaceTypes
  <2>5. Lost(failures) \in Int /\ Slowest \in Int
    BY TurnTypes
  <2>6. limit \in Int /\ Own(i) + Slow(Len(Order) + 1 - i) + SLEEP + Lost(failures) = limit + SLEEP
    BY <1>2, <2>4, <2>5
  <2> HIDE DEF limit
  <2>7. since'[Order[i]] <= limit + SLEEP
    BY <1>2, <2>1, <2>3, <2>4, <2>6
  <2> QED
    BY <2>6, <2>7
<1>5. Flushed'
  <2>1. unflushed <= Slow(1) + Lost(failures)
    BY <1>1 DEF Flushed
  <2>2. unflushed' \in Int /\ unflushed' <= unflushed + SLEEP
    BY <1>1, <1>2, OlderFacts, Counting
  <2>3. unflushed' <= Slow(1) + SLEEP + Lost(failures)
    BY <1>2, <2>1, <2>2, TurnTypes
  <2> QED
    BY <1>1, <2>3 DEF Flushed
<1>6. Recorded'
  BY <1>1 DEF Recorded
<1> QED
  BY <1>3, <1>4, <1>5, <1>6

\* The next check is run or skipped: its age is its own again, and that of the others has
\* grown by one run at most.
LEMMA CheckDone ==
    ASSUME Inductive, pc = "checks", pc' = "checks", next <= Len(Order), next' = next + 1,
           failures' = failures,
           \A i \in Places : since'[Order[i]] \in Int /\ since'[Order[i]] <= since[Order[i]] + Slowest,
           since'[Order[next]] <= Own(next),
           unflushed' \in Int, unflushed' <= unflushed + Slowest
    PROVE  Punctual' /\ Flushed'
<1> USE DEF Inductive
<1>1. next \in Int /\ next >= 1 /\ Len(Order) \in Int /\ next \in Places
  BY AgeTypes DEF Places
<1>2. Punctual'
  <2> SUFFICES ASSUME NEW i \in Places
               PROVE  /\ next + 1 > i => since'[Order[i]] <= Own(i) + Slow(next - i)
                      /\ next + 1 <= i =>
                            since'[Order[i]] <= Own(i) + Slow(Len(Order) + 1 - i + (next + 1))
                                                    + SLEEP + Lost(failures)
    BY <1>1, PlaceTypes DEF Punctual
  <2>1. /\ since'[Order[i]] \in Int /\ since'[Order[i]] <= since[Order[i]] + Slowest
        /\ since[Order[i]] \in Int /\ Own(i) \in Int /\ i \in Int
    BY PlaceTypes
  <2>2. Slowest \in Int /\ SLEEP \in Int /\ Lost(failures) \in Int
    BY TurnTypes
  <2>3. CASE i = next
    <3>1. Slow(next - i) = 0
      BY <1>1, <2>3, SlowSteps
    <3> QED
      BY <1>1, <2>1, <2>3, <3>1
  <2>4. CASE i < next
    <3>1. next - 1 - i \in Int /\ (next - 1 - i) + 1 = next - i
      BY <1>1, <2>1
    <3>2. Slow(next - i) = Slow(next - 1 - i) + Slowest /\ Slow(next - 1 - i) \in Int
      BY <3>1, SlowSteps
    <3>3. since[Order[i]] <= Own(i) + Slow(next - 1 - i)
      BY <1>1, <2>1, <2>4 DEF Punctual
    <3> DEFINE limit == Own(i) + Slow(next - 1 - i)
    <3>4. limit \in Int /\ Own(i) + Slow(next - i) = limit + Slowest
      BY <2>1, <2>2, <3>2, SMTT(30)
    <3> HIDE DEF limit
    <3>5. since'[Order[i]] <= limit + Slowest
      BY <2>1, <2>2, <3>3, <3>4 DEF limit
    <3>6. ~(next + 1 <= i)
      BY <1>1, <2>1, <2>4
    <3> QED
      BY <3>4, <3>5, <3>6
  <2>5. CASE i > next
    <3> DEFINE n == Len(Order) + 1 - i + next
               limit == Own(i) + Slow(n) + SLEEP + Lost(failures)
    <3>1. n \in Int /\ n + 1 = Len(Order) + 1 - i + (next + 1) /\ ~(next + 1 > i)
      BY <1>1, <2>1, <2>5
    <3>2. since[Order[i]] <= limit
      BY <1>1, <2>1, <2>5 DEF Punctual
    <3> HIDE DEF n
    <3>3. Slow(n + 1) = Slow(n) + Slowest /\ Slow(n) \in Int
      BY <3>1, SlowSteps
    <3>4. limit \in Int /\ Own(i) + Slow(n + 1) + SLEEP + Lost(failures) = limit + Slowest
      BY <2>1, <2>2, <3>3, SMTT(30)
    <3> HIDE DEF limit
    <3>5. since'[Order[i]] <= limit + Slowest
      BY <2>1, <2>2, <3>2, <3>4, SMTT(30)
    <3> QED
      BY <3>1, <3>4, <3>5
  <2> QED
    BY <1>1, <2>1, <2>3, <2>4, <2>5
<1>3. Flushed'
  <2>1. Slow(1 + (next + 1)) = Slow(1 + next) + Slowest /\ Slow(1 + next) \in Int
    <3>1. 1 + next \in Int /\ (1 + next) + 1 = 1 + (next + 1)
      BY <1>1
    <3> QED
      BY <3>1, SlowSteps
  <2>2. unflushed <= Slow(1 + next) + SLEEP + Lost(failures)
    BY DEF Flushed
  <2>3. unflushed' <= Slow(1 + (next + 1)) + SLEEP + Lost(failures)
    BY <2>1, <2>2, TurnTypes, SMTT(30)
  <2> QED
    BY <2>3 DEF Flushed
<1> QED
  BY <1>2, <1>3

\* A check that is not due has not waited for its interval.
LEMMA SkipStep ==
    ASSUME Inductive, NEW c \in Instances, Skip(c)
    PROVE  Inductive'
<1> USE DEF Inductive
<1>1. /\ pc = "checks" /\ next <= Len(Order) /\ c = Order[next] /\ ~Due(c) /\ next' = next + 1
      /\ UNCHANGED <<pc, since, meta_since, errors, status, failures, failed, unflushed>>
  BY DEF Skip, AtCheck
<1>2. next \in Places /\ next' \in 1 .. Len(Order) + 1
  BY <1>1, AgeTypes DEF Places
<1>3. CollectorTypeOK'
  BY <1>1, <1>2 DEF CollectorTypeOK
<1>4. since'[Order[next]] <= Own(next)
  <2>1. /\ since[Order[next]] \in Int /\ Interval[Order[next]] \in Int /\ Own(next) \in Int
        /\ Interval[Order[next]] <= Own(next) + 1
    BY <1>2, PlaceTypes, OwnBounds
  <2> QED
    BY <1>1, <2>1 DEF Due
<1>5. \A i \in Places : since'[Order[i]] \in Int /\ since'[Order[i]] <= since[Order[i]] + Slowest
  <2> SUFFICES ASSUME NEW i \in Places
               PROVE  since[Order[i]] \in Int /\ since[Order[i]] <= since[Order[i]] + Slowest
    BY <1>1
  <2>1. since[Order[i]] \in Int /\ Slowest \in Int /\ Slowest >= 0
    BY PlaceTypes, TurnTypes
  <2> QED
    BY <2>1
<1>6. unflushed' \in Int /\ unflushed' <= unflushed + Slowest
  BY <1>1, TurnTypes
<1>7. Punctual' /\ Flushed'
  BY <1>1, <1>4, <1>5, <1>6, CheckDone
<1>8. Recorded'
  BY <1>1 DEF Recorded
<1> QED
  BY <1>3, <1>7, <1>8

\* One that runs counts from before its run, and the others wait for it.
LEMMA RunStep ==
    ASSUME Inductive, NEW c \in Instances, NEW d \in Durations, NEW fails \in BOOLEAN, Run(c, d, fails)
    PROVE  Inductive'
<1> USE DEF Inductive
<1>1. /\ pc = "checks" /\ next <= Len(Order) /\ c = Order[next] /\ next' = next + 1
      /\ since' = [e \in Instances |-> IF e = c THEN d ELSE Older(since[e], d)]
      /\ meta_since' = Older(meta_since, d) /\ unflushed' = Older(unflushed, d)
      /\ UNCHANGED <<pc, status, failures>>
  BY DEF Run, AtCheck
<1>2. /\ errors' = (IF fails THEN errors \cup {c} ELSE errors)
      /\ failed' = (IF fails THEN failed \cup {c} ELSE failed \ {c})
  BY DEF Run, Noted
<1>3. next \in Places /\ next' \in 1 .. Len(Order) + 1
  BY <1>1, AgeTypes DEF Places
<1>4. d \in Nat /\ d <= Slowest /\ d <= Ages /\ Slowest \in Nat /\ Ages \in Nat
  BY SlowestType, Counting
<1>5. CollectorTypeOK'
  <2>1. since' \in [Instances -> 0 .. Ages] /\ {meta_since', unflushed'} \subseteq 0 .. Ages
    BY <1>1, <1>4, OlderFacts
  <2>2. errors' \subseteq Instances /\ failed' \subseteq Instances
    BY <1>2 DEF CollectorTypeOK
  <2> QED
    BY <1>1, <1>3, <2>1, <2>2 DEF CollectorTypeOK
<1>6. since'[Order[next]] <= Own(next)
  <2>1. since'[Order[next]] = d
    BY <1>1
  <2>2. Own(next) \in Int /\ Own(next) >= Slowest
    BY <1>3, PlaceTypes
  <2> QED
    BY <1>4, <2>1, <2>2
<1>7. \A i \in Places : since'[Order[i]] \in Int /\ since'[Order[i]] <= since[Order[i]] + Slowest
  <2> SUFFICES ASSUME NEW i \in Places
               PROVE  since'[Order[i]] \in Int /\ since'[Order[i]] <= since[Order[i]] + Slowest
    OBVIOUS
  <2>1. Order[i] \in Instances /\ since[Order[i]] \in Int /\ since[Order[i]] >= 0
    BY PlaceTypes
  <2>2. Older(since[Order[i]], d) \in 0 .. Ages /\ Older(since[Order[i]], d) <= since[Order[i]] + d
    BY <1>4, <2>1, OlderFacts
  <2>3. since'[Order[i]] = d \/ since'[Order[i]] = Older(since[Order[i]], d)
    BY <1>1, <2>1
  <2> QED
    BY <1>4, <2>1, <2>2, <2>3
<1>8. unflushed' \in Int /\ unflushed' <= unflushed + Slowest
  <2>1. Older(unflushed, d) \in 0 .. Ages /\ Older(unflushed, d) <= unflushed + d
    BY <1>4, OlderFacts
  <2> QED
    BY <1>1, <1>4, <2>1, TurnTypes, SMTT(30)
<1>9. Punctual' /\ Flushed'
  BY <1>1, <1>6, <1>7, <1>8, CheckDone
<1>10. Recorded'
  BY <1>1, <1>2 DEF Recorded
<1> QED
  BY <1>5, <1>9, <1>10

\* After the last check the errors are published.
LEMMA PublishStep ==
    ASSUME Inductive, Publish
    PROVE  Inductive'
<1> USE DEF Inductive
<1>1. /\ pc = "checks" /\ next > Len(Order) /\ pc' = "push" /\ status' = errors
      /\ UNCHANGED <<next, since, meta_since, errors, failures, failed, unflushed>>
  BY DEF Publish
<1>2. next = Len(Order) + 1 /\ Len(Order) \in Int
  BY <1>1, AgeTypes
<1>3. CollectorTypeOK'
  BY <1>1 DEF CollectorTypeOK
<1>4. Punctual'
  <2> SUFFICES ASSUME NEW i \in Places PROVE since[Order[i]] <= Own(i) + Slow(Len(Order) - i)
    BY <1>1 DEF Punctual
  <2>1. i \in Int /\ i <= Len(Order)
    BY PlaceTypes
  <2>2. next > i /\ next - 1 - i = Len(Order) - i
    BY <1>2, <2>1
  <2>3. since[Order[i]] <= Own(i) + Slow(next - 1 - i)
    BY <1>1, <2>2 DEF Punctual
  <2> QED
    BY <2>2, <2>3
<1>5. Flushed'
  <2>1. unflushed <= Slow(1 + next) + SLEEP + Lost(failures) /\ 1 + next = Len(Order) + 2
    BY <1>1, <1>2 DEF Flushed
  <2> QED
    BY <1>1, <2>1 DEF Flushed
<1>6. Recorded'
  BY <1>1 DEF Recorded
<1> QED
  BY <1>3, <1>4, <1>5, <1>6

\* Every step keeps the invariant.
LEMMA InductiveStep == Inductive /\ [CollectorNext]_collectorVars => Inductive'
<1> SUFFICES ASSUME Inductive, [CollectorNext]_collectorVars PROVE Inductive'
  OBVIOUS
<1>1. CASE NoMetadata
  BY <1>1, NoMetadataStep
<1>2. CASE \E d \in Durations : Metadata(d)
  BY <1>2, MetadataStep
<1>3. CASE \E d \in Durations : MetadataFails(d)
  BY <1>3, FailureStep
<1>4. CASE \E d \in Durations : Push(d)
  BY <1>4, PushStep
<1>5. CASE \E c \in Instances : Skip(c)
  BY <1>5, SkipStep
<1>6. CASE \E c \in Instances : RunSome(c)
  BY <1>6, RunStep DEF RunSome
<1>7. CASE Publish
  BY <1>7, PublishStep
<1>8. CASE Sleep
  BY <1>8, SleepStep
<1>9. CASE UNCHANGED collectorVars
  BY <1>9 DEF collectorVars, Inductive, CollectorTypeOK, Punctual, Flushed, Recorded
<1> QED
  BY <1>1, <1>2, <1>3, <1>4, <1>5, <1>6, <1>7, <1>8, <1>9 DEF CollectorNext

-----------------------------------------------------------------------------
(***************************************************************************)
(* The theorem.                                                            *)
(***************************************************************************)
\* Wherever the thread is in its turn, the bounds of the runs hold.
LEMMA InductiveImplies == Inductive => CollectorInv
<1> SUFFICES ASSUME Inductive PROVE CollectorInv
  OBVIOUS
<1> USE DEF Inductive
<1>1. next \in Int /\ next >= 1 /\ next <= Len(Order) + 1 /\ Len(Order) \in Int
  BY AgeTypes
<1>2. /\ SLEEP \in Int /\ SLEEP >= 0 /\ Lost(failures) \in Int /\ Lost(failures) >= 0
      /\ Lost(failures) = failures * (SLEEP + Slowest)
  BY AgeTypes, LostSteps DEF Lost
<1>3. pc \in {"metadata", "checks", "push", "sleep"}
  BY DEF CollectorTypeOK
<1>4. \A n \in Int : Turn(n) = SLEEP + Slow(n + 2)
  BY DEF Turn, Slow
<1>5. NeverLate
  <2> SUFFICES ASSUME NEW c \in Instances
               PROVE  since[c] <= Max({Interval[c] - 1, Slowest}) + Turn(Len(Order) - 1) + Lost(failures)
    BY <1>2 DEF NeverLate
  <2>1. PICK i \in Places : c = Order[i]
    BY Counting DEF Places
  <2>2. /\ since[c] \in Int /\ Own(i) \in Int /\ i \in Int /\ i >= 1 /\ i <= Len(Order)
    BY <2>1, PlaceTypes
  <2> DEFINE most == Slow(Len(Order) + 1)
  <2>3. most \in Int /\ \A n \in Int : n <= Len(Order) + 1 => Slow(n) \in Int /\ Slow(n) <= most
    BY <1>1, SlowSteps
  <2>4. Turn(Len(Order) - 1) = SLEEP + most
    <3>1. Len(Order) - 1 \in Int /\ (Len(Order) - 1) + 2 = Len(Order) + 1
      BY <1>1
    <3> QED
      BY <1>4, <3>1
  <2> HIDE DEF most
  <2>5. \A n \in Int : n <= Len(Order) + 1 /\ since[c] <= Own(i) + Slow(n) + SLEEP + Lost(failures)
                          => since[c] <= Own(i) + (SLEEP + most) + Lost(failures)
    BY <1>2, <2>2, <2>3, SMTT(30)
  <2>6. \A n \in Int : n <= Len(Order) + 1 /\ (\/ since[c] <= Own(i) + Slow(n)
                                               \/ since[c] <= Own(i) + Slow(n) + Lost(failures))
                          => since[c] <= Own(i) + Slow(n) + SLEEP + Lost(failures)
    BY <1>2, <2>2, <2>3
  <2>7. \E n \in Int : n <= Len(Order) + 1 /\ (\/ since[c] <= Own(i) + Slow(n)
                                               \/ since[c] <= Own(i) + Slow(n) + Lost(failures)
                                               \/ since[c] <= Own(i) + Slow(n) + SLEEP + Lost(failures))
    <3>1. CASE pc = "checks" /\ next > i
      <4>1. next - 1 - i \in Int /\ next - 1 - i <= Len(Order) + 1
        BY <1>1, <2>2
      <4> QED
        BY <2>1, <3>1, <4>1 DEF Punctual
    <3>2. CASE pc = "checks" /\ next <= i
      <4>1. Len(Order) + 1 - i + next \in Int /\ Len(Order) + 1 - i + next <= Len(Order) + 1
        BY <1>1, <2>2, <3>2
      <4> QED
        BY <2>1, <3>2, <4>1 DEF Punctual
    <3>3. CASE pc = "push"
      <4>1. Len(Order) - i \in Int /\ Len(Order) - i <= Len(Order) + 1
        BY <1>1, <2>2
      <4> QED
        BY <2>1, <3>3, <4>1 DEF Punctual
    <3>4. CASE pc \in {"sleep", "metadata"}
      <4>1. Len(Order) + 1 - i \in Int /\ Len(Order) + 1 - i <= Len(Order) + 1
        BY <1>1, <2>2
      <4> QED
        BY <2>1, <3>4, <4>1 DEF Punctual
    <3> QED
      BY <1>1, <1>3, <2>2, <3>1, <3>2, <3>3, <3>4
  <2> QED
    BY <2>1, <2>4, <2>5, <2>6, <2>7 DEF Own
<1>6. FlushedInTime
  <2> DEFINE most == Slow(Len(Order) + 2)
  <2>1. most \in Int /\ \A n \in Int : n <= Len(Order) + 2 => Slow(n) \in Int /\ Slow(n) <= most
    BY <1>1, SlowSteps
  <2>2. Slow(1) \in Int /\ Slow(1) <= most
    BY <1>1, <2>1
  <2>3. 1 + next \in Int /\ Slow(1 + next) \in Int /\ Slow(1 + next) <= most
    BY <1>1, <2>1
  <2> HIDE DEF most
  <2>4. unflushed \in Int
    BY TurnTypes
  <2>5. unflushed <= most + SLEEP + Lost(failures)
    <3>1. CASE pc = "sleep"
      BY <1>2, <2>1, <2>2, <2>4, <3>1 DEF Flushed
    <3>2. CASE pc = "metadata"
      BY <1>2, <2>1, <2>2, <2>4, <3>2 DEF Flushed
    <3>3. CASE pc = "checks"
      BY <1>2, <2>1, <2>3, <2>4, <3>3 DEF Flushed
    <3>4. CASE pc = "push"
      BY <3>4 DEF Flushed, most
    <3> QED
      BY <1>3, <3>1, <3>2, <3>3, <3>4
  <2>6. Turn(Len(Order)) = SLEEP + most
    BY <1>1, <1>4 DEF most
  <2> QED
    BY <1>2, <2>1, <2>5, <2>6 DEF FlushedInTime
<1>7. ErrorsPublished
  BY DEF Recorded, ErrorsPublished
<1> QED
  BY <1>5, <1>6, <1>7 DEF CollectorInv

\* For any checks, intervals and durations: how late a check starts at most, how long what
\* it submits waits for a flush at most, and that the errors of a turn are published.
THEOREM CollectorInvHolds == CollectorSpec => []CollectorInv
<1> QED
  BY InitiallyInductive, InductiveStep, InductiveImplies, PTL DEF CollectorSpec
-----------------------------------------------------------------------------
(***************************************************************************)
(* Inventory.  The loop over the interfaces.                               *)
(***************************************************************************)
\* Of some numbers there is a least.
LEMMA Least ==
    ASSUME NEW S, S \subseteq Nat, S # {}
    PROVE  \E b \in S : \A d \in S : b <= d
<1>1. PICK m \in S : TRUE
  OBVIOUS
<1> DEFINE R == StrictSubsetOrdering(0 .. m)
           F == FiniteSubsetsOf(0 .. m)
           T == {0 .. b : b \in {d \in S : d <= m}}
<1>2. IsWellFoundedOn(R, F)
  <2>1. IsFiniteSet(0 .. m)
    BY FS_Interval
  <2> QED
    BY FS_StrictSubsetOrderingWellFounded, <2>1
<1>3. T \subseteq F /\ T # {}
  <2>1. ASSUME NEW b \in S, b <= m PROVE 0 .. b \in F
    BY <2>1, FS_Interval DEF FiniteSubsetsOf
  <2> QED
    BY <2>1, <1>1
<1>4. PICK x \in T : \A y \in T : <<y, x>> \notin R
  <2> HIDE DEF R, F, T
  <2> QED
    BY <1>2, <1>3, WFMin
<1>5. PICK b \in S : b <= m /\ x = 0 .. b
  OBVIOUS
<1>6. ASSUME NEW d \in S, d < b PROVE FALSE
  <2>1. 0 .. d \in T /\ 0 .. d \subseteq 0 .. m /\ 0 .. b \subseteq 0 .. m
    BY <1>5, <1>6
  <2>2. 0 .. d \subseteq 0 .. b /\ 0 .. d # 0 .. b
    <3>1. b \in 0 .. b /\ b \notin 0 .. d
      BY <1>6
    <3> QED
      BY <3>1, <1>6
  <2>3. <<0 .. d, 0 .. b>> \in R
    BY <2>1, <2>2 DEF StrictSubsetOrdering
  <2> QED
    BY <2>1, <2>3, <1>4, <1>5
<1> QED
  BY <1>6

\* The first place is one of them and none is before it.
LEMMA FirstIs ==
    ASSUME NEW S, S \subseteq Nat \ {0}
    PROVE  /\ S = {} <=> FirstOf(S) = 0
           /\ S # {} => FirstOf(S) \in S
           /\ FirstOf(S) \in Nat
           /\ \A k \in S : (\A j \in S : k <= j) => FirstOf(S) = k
<1>1. CASE S = {}
  BY <1>1 DEF FirstOf
<1>2. CASE S # {}
  <2>1. S \subseteq Nat
    OBVIOUS
  <2>2. \E k \in S : \A j \in S : k <= j
    BY <1>2, <2>1, Least
  <2>3. FirstOf(S) \in S /\ \A j \in S : FirstOf(S) <= j
    BY <1>2, <2>2 DEF FirstOf
  <2>4. ASSUME NEW k \in S, \A j \in S : k <= j PROVE FirstOf(S) = k
    <3> DEFINE m == FirstOf(S)
    <3>1. m \in Nat /\ k \in Nat /\ m <= k /\ k <= m
      BY <2>1, <2>3, <2>4
    <3> HIDE DEF m
    <3>2. m = k
      BY <3>1
    <3> QED
      BY <3>2 DEF m
  <2> QED
    BY <1>2, <2>3, <2>4
<1> QED
  BY <1>1, <1>2

\* One place more is the first only if there was none.
LEMMA FirstStays ==
    ASSUME NEW k \in Nat \ {0}, NEW S, S \subseteq 1 .. k - 1
    PROVE  FirstOf(S \cup {k}) = IF FirstOf(S) = 0 THEN k ELSE FirstOf(S)
<1>1. S \subseteq Nat \ {0} /\ S \cup {k} \subseteq Nat \ {0} /\ \A j \in S : j <= k
  OBVIOUS
<1>2. CASE S = {}
  BY <1>1, <1>2, FirstIs
<1>3. CASE S # {}
  <2>1. PICK m \in S : \A j \in S : m <= j
    BY <1>1, <1>3, Least
  <2>2. FirstOf(S) = m /\ m # 0
    BY <1>1, <2>1, FirstIs
  <2>3. \A j \in S \cup {k} : m <= j
    BY <1>1, <2>1
  <2>4. FirstOf(S \cup {k}) = m
    BY <1>1, <2>1, <2>3, FirstIs
  <2> QED
    BY <2>2, <2>4
<1> QED
  BY <1>2, <1>3

Networks == [interfaces : Seq(Nat), ipv4 : Nat, ipv6 : Nat, mac : Nat]

\* The interfaces among the first n that are no loopback.
Real(addrs, n) == {k \in 1 .. n : ~addrs[k].loopback}

\* What the loop has found in the first n.
NetworkRight(net, addrs, n) ==
    /\ net \in Networks
    /\ net.ipv4 = FirstOf({k \in Real(addrs, n) : addrs[k].ipv4})
    /\ net.ipv6 = FirstOf({k \in Real(addrs, n) : addrs[k].ipv6})
    /\ net.mac = FirstOf({k \in Real(addrs, n) : HasMac(addrs[k])})
    /\ \A j \in 1 .. Len(net.interfaces) : net.interfaces[j] \in Real(addrs, n)
    /\ \A k \in Real(addrs, n) : \E j \in 1 .. Len(net.interfaces) : net.interfaces[j] = k

LEMMA NetworkBegins == ASSUME NEW addrs PROVE NetworkRight(NoNetwork, addrs, 0)
<1>1. Real(addrs, 0) = {}
  BY DEF Real
<1>2. /\ NoNetwork.interfaces = <<>> /\ Len(<<>>) = 0
      /\ NoNetwork.ipv4 = 0 /\ NoNetwork.ipv6 = 0 /\ NoNetwork.mac = 0
      /\ NoNetwork \in Networks
  BY DEF NoNetwork, Networks
<1>3. FirstOf({}) = 0
  BY DEF FirstOf
<1>4. /\ {k \in Real(addrs, 0) : addrs[k].ipv4} = {}
      /\ {k \in Real(addrs, 0) : addrs[k].ipv6} = {}
      /\ {k \in Real(addrs, 0) : HasMac(addrs[k])} = {}
  BY <1>1
<1>5. 1 .. Len(NoNetwork.interfaces) = {}
  BY <1>2
<1> QED
  BY <1>1, <1>2, <1>3, <1>4, <1>5 DEF NetworkRight

LEMMA NetworkGrows ==
    ASSUME NEW addrs, NEW k \in Nat \ {0}, NEW net, NetworkRight(net, addrs, k - 1)
    PROVE  NetworkRight(WithInterface(net, addrs, k), addrs, k)
<1>1. \A j \in 1 .. k : j = k \/ j \in 1 .. k - 1
  OBVIOUS
<1>2. CASE addrs[k].loopback
  <2>1. Real(addrs, k) = Real(addrs, k - 1)
    BY <1>1, <1>2 DEF Real
  <2>2. WithInterface(net, addrs, k) = net
    BY <1>2 DEF WithInterface
  <2> QED
    BY <2>1, <2>2 DEF NetworkRight
<1>3. CASE ~ addrs[k].loopback
  <2> DEFINE new == WithInterface(net, addrs, k)
             R == Real(addrs, k - 1)
  <2>1. Real(addrs, k) = R \cup {k} /\ R \subseteq 1 .. k - 1 /\ k \notin R
    BY <1>1, <1>3 DEF Real
  <2>2. /\ net \in Networks
        /\ net.ipv4 = FirstOf({j \in R : addrs[j].ipv4})
        /\ net.ipv6 = FirstOf({j \in R : addrs[j].ipv6})
        /\ net.mac = FirstOf({j \in R : HasMac(addrs[j])})
        /\ \A j \in 1 .. Len(net.interfaces) : net.interfaces[j] \in R
        /\ \A i \in R : \E j \in 1 .. Len(net.interfaces) : net.interfaces[j] = i
    BY DEF NetworkRight
  <2>3. /\ new.interfaces = Append(net.interfaces, k)
        /\ new.ipv4 = IF addrs[k].ipv4 /\ net.ipv4 = 0 THEN k ELSE net.ipv4
        /\ new.ipv6 = IF addrs[k].ipv6 /\ net.ipv6 = 0 THEN k ELSE net.ipv6
        /\ new.mac = IF HasMac(addrs[k]) /\ net.mac = 0 THEN k ELSE net.mac
        /\ new \in Networks
    BY <1>3, <2>2 DEF WithInterface, Networks
  <2> HIDE DEF new, R
  <2>4. new.ipv4 = FirstOf({j \in Real(addrs, k) : addrs[j].ipv4})
    <3> DEFINE S == {j \in R : addrs[j].ipv4}
    <3>1. S \subseteq 1 .. k - 1
      BY <2>1
    <3>2. {j \in Real(addrs, k) : addrs[j].ipv4} = IF addrs[k].ipv4 THEN S \cup {k} ELSE S
      BY <2>1
    <3>3. net.ipv4 = FirstOf(S)
      BY <2>2
    <3> HIDE DEF S
    <3> QED
      BY <2>3, <3>1, <3>2, <3>3, FirstStays
  <2>5. new.ipv6 = FirstOf({j \in Real(addrs, k) : addrs[j].ipv6})
    <3> DEFINE S == {j \in R : addrs[j].ipv6}
    <3>1. S \subseteq 1 .. k - 1
      BY <2>1
    <3>2. {j \in Real(addrs, k) : addrs[j].ipv6} = IF addrs[k].ipv6 THEN S \cup {k} ELSE S
      BY <2>1
    <3>3. net.ipv6 = FirstOf(S)
      BY <2>2
    <3> HIDE DEF S
    <3> QED
      BY <2>3, <3>1, <3>2, <3>3, FirstStays
  <2>6. new.mac = FirstOf({j \in Real(addrs, k) : HasMac(addrs[j])})
    <3> DEFINE S == {j \in R : HasMac(addrs[j])}
    <3>1. S \subseteq 1 .. k - 1
      BY <2>1
    <3>2. {j \in Real(addrs, k) : HasMac(addrs[j])} = IF HasMac(addrs[k]) THEN S \cup {k} ELSE S
      BY <2>1
    <3>3. net.mac = FirstOf(S)
      BY <2>2
    <3> HIDE DEF S
    <3> QED
      BY <2>3, <3>1, <3>2, <3>3, FirstStays
  <2>7. /\ \A j \in 1 .. Len(new.interfaces) : new.interfaces[j] \in R \cup {k}
        /\ \A i \in R \cup {k} : \E j \in 1 .. Len(new.interfaces) : new.interfaces[j] = i
    <3> DEFINE s == net.interfaces
    <3>1. s \in Seq(Nat) /\ new.interfaces = Append(s, k)
      BY <2>2, <2>3 DEF Networks
    <3>2. (\A j \in 1 .. Len(s) : s[j] \in R) /\ \A i \in R : \E j \in 1 .. Len(s) : s[j] = i
      BY <2>2
    <3> HIDE DEF s
    <3>3. /\ Len(Append(s, k)) = Len(s) + 1 /\ Len(s) \in Nat
          /\ Append(s, k)[Len(s) + 1] = k
          /\ \A j \in 1 .. Len(s) : Append(s, k)[j] = s[j]
      BY <3>1
    <3>4. ASSUME NEW j \in 1 .. Len(s) + 1 PROVE Append(s, k)[j] \in R \cup {k}
      <4>1. j \in 1 .. Len(s) \/ j = Len(s) + 1
        BY <3>3
      <4> QED
        BY <3>2, <3>3, <4>1
    <3>5. ASSUME NEW i \in R \cup {k} PROVE \E j \in 1 .. Len(s) + 1 : Append(s, k)[j] = i
      <4>1. CASE i = k
        BY <3>3, <4>1
      <4>2. CASE i \in R
        <5>1. PICK j \in 1 .. Len(s) : s[j] = i
          BY <3>2, <4>2
        <5> QED
          BY <3>3, <5>1
      <4> QED
        BY <4>1, <4>2
    <3> QED
      BY <3>1, <3>3, <3>4, <3>5
  <2> QED
    BY <2>1, <2>3, <2>4, <2>5, <2>6, <2>7 DEF NetworkRight, new
<1> QED
  BY <1>2, <1>3

\* The loop computes something after each interface.
LEMMA NetworkExists ==
    ASSUME NEW addrs, NEW n \in Nat
    PROVE  \E f : f = [k \in 0 .. n |-> IF k = 0 THEN NoNetwork ELSE WithInterface(f[k - 1], addrs, k)]
<1> DEFINE Runs(f, m) ==
               f = [k \in 0 .. m |-> IF k = 0 THEN NoNetwork ELSE WithInterface(f[k - 1], addrs, k)]
           S == {m \in 0 .. n : ~ \E f : Runs(f, m)}
<1>1. ASSUME S # {} PROVE FALSE
  <2>0. S \subseteq Nat
    OBVIOUS
  <2>1. PICK m \in S : \A j \in S : m <= j
    <3> HIDE DEF S
    <3> QED
      BY <1>1, <2>0, Least
  <2>2. m # 0
    <3>1. Runs([k \in 0 .. 0 |-> NoNetwork], 0)
      OBVIOUS
    <3> QED
      BY <3>1
  <2>3. m - 1 \in 0 .. n /\ m - 1 \notin S
    <3>1. m \in 0 .. n /\ m - 1 \in 0 .. n /\ ~ m <= m - 1
      BY <2>1, <2>2
    <3> HIDE DEF S
    <3> QED
      BY <3>1, <2>1
  <2>4. PICK f : Runs(f, m - 1)
    BY <2>3
  <2> DEFINE g == [k \in 0 .. m |-> IF k = m THEN WithInterface(f[m - 1], addrs, m) ELSE f[k]]
  <2>5. m \in Nat /\ m > 0
    BY <2>1, <2>2
  <2>6. \A k \in 0 .. m : g[k] = IF k = 0 THEN NoNetwork ELSE WithInterface(g[k - 1], addrs, k)
    <3> TAKE k \in 0 .. m
    <3>1. CASE k = m
      BY <3>1, <2>5
    <3>2. CASE k # m
      <4>1. k \in 0 .. m - 1 /\ (k # 0 => k - 1 \in 0 .. m - 1 /\ k - 1 # m)
        BY <3>2, <2>5
      <4>2. f[k] = IF k = 0 THEN NoNetwork ELSE WithInterface(f[k - 1], addrs, k)
        BY <2>4, <4>1
      <4> QED
        BY <3>2, <4>1, <4>2, <2>5
    <3> QED
      BY <3>1, <3>2
  <2>7. Runs(g, m)
    BY <2>6
  <2> QED
    BY <2>1, <2>7
<1>2. n \in 0 .. n
  OBVIOUS
<1> QED
  BY <1>1, <1>2

\* What the loop returns, for any list.
LEMMA NetworkFacts ==
    ASSUME NEW addrs, Len(addrs) \in Nat
    PROVE  NetworkRight(NetworkOf(addrs), addrs, Len(addrs))
<1> DEFINE n == Len(addrs)
           f == CHOOSE g : g = [k \in 0 .. n |-> IF k = 0 THEN NoNetwork ELSE WithInterface(g[k - 1], addrs, k)]
           S == {k \in 0 .. n : ~ NetworkRight(f[k], addrs, k)}
<1>1. f = [k \in 0 .. n |-> IF k = 0 THEN NoNetwork ELSE WithInterface(f[k - 1], addrs, k)]
  BY NetworkExists
<1>2. NetworkOf(addrs) = f[n]
  BY DEF NetworkOf
<1> HIDE DEF f
<1>3. ASSUME S # {} PROVE FALSE
  <2>0. S \subseteq Nat
    OBVIOUS
  <2>1. PICK k \in S : \A j \in S : k <= j
    <3> HIDE DEF S
    <3> QED
      BY <1>3, <2>0, Least
  <2>2. k # 0
    BY <1>1, NetworkBegins
  <2>3. k - 1 \in 0 .. n /\ k \in 0 .. n /\ k - 1 \notin S /\ k \in Nat \ {0}
    <3>1. k \in 0 .. n /\ k - 1 \in 0 .. n /\ ~ k <= k - 1 /\ k \in Nat \ {0}
      BY <2>1, <2>2
    <3> HIDE DEF S
    <3> QED
      BY <3>1, <2>1
  <2>4. f[k] = WithInterface(f[k - 1], addrs, k)
    BY <1>1, <2>2, <2>3
  <2>5. NetworkRight(f[k - 1], addrs, k - 1)
    BY <2>3
  <2>6. NetworkRight(f[k], addrs, k)
    BY <2>3, <2>4, <2>5, NetworkGrows
  <2> QED
    BY <2>1, <2>6
<1>4. n \in 0 .. n
  OBVIOUS
<1> QED
  BY <1>2, <1>3, <1>4
-----------------------------------------------------------------------------
(***************************************************************************)
(* Inventory.  The inductive invariant.                                    *)
(***************************************************************************)
HostWords == {"valid", "command", "socket", NoName}
Words == {"", "POWER8", "POWER9", "cpuinfo", "powerpc", "model", "uname"}
FactSets == [start : BOOLEAN, cpu : Words, processor : Words, hardware : Words,
             addrs : Seq(Interfaces), network : Networks]
Payloads == [host : HostWords, cpu : Words, processor : Words]

\* The places of a turn that has its arguments.
InTurn == {"stats", "cpu", "filesystem", "memory", "network", "platform", "send"}

InventoryShapes ==
    /\ InventoryTypeOK
    /\ facts \in FactSets /\ last \in Payloads
    /\ inv_pc \in InTurn => posts < MaxPosts

\* There was a payload if and only if the time is set, and a turn knows whether it is the
\* first: no other turn ends before it does.
StartKnown ==
    /\ meta_ts <=> posts # 0
    /\ inv_pc \in InTurn => (facts.start <=> posts = 0)

\* The answer of the command is kept, whatever it is; what a turn and what the last payload
\* say is that answer.
AnswerKept ==
    /\ prtconf_runs <= 1
    /\ prtconf = Unread <=> prtconf_runs = 0
    /\ machine.os = "aix" /\ machine.gohai =>
          /\ inv_pc \in InTurn \ {"stats", "cpu"} => prtconf # Unread /\ facts.cpu = prtconf.type
          /\ inv_pc = "send" => (facts.cpu # "" => facts.processor = facts.cpu)
          /\ posts > 0 => /\ prtconf # Unread /\ last.cpu = prtconf.type
                          /\ last.cpu # "" => last.processor = last.cpu

\* What the turn has found of the network.
NetworkKnown == NetworkRight(facts.network, facts.addrs, Len(facts.addrs))

InventoryInductive ==
    /\ InventoryShapes /\ StartKnown /\ StartupOnce /\ AnswerKept /\ HostAsConfigured
    /\ NetworkKnown

LEMMA NothingShaped ==
    /\ NothingYet \in FactSets /\ NothingYet.start = FALSE
    /\ NetworkRight(NothingYet.network, NothingYet.addrs, Len(NothingYet.addrs))
<1>1. /\ NothingYet.network = NoNetwork /\ NothingYet.addrs = <<>> /\ Len(<<>>) = 0
      /\ NothingYet.start = FALSE
  BY DEF NothingYet
<1>2. NetworkRight(NoNetwork, <<>>, 0)
  BY NetworkBegins
<1>3. NoNetwork \in Networks
  BY <1>2 DEF NetworkRight
<1>4. NothingYet \in FactSets
  BY <1>3 DEF NothingYet, FactSets, Words
<1> QED
  BY <1>1, <1>2, <1>4

LEMMA ListsShaped == ASSUME NEW addrs \in AddrLists PROVE addrs \in Seq(Interfaces)
<1>1. PICK n \in 0 .. MaxAddrs : addrs \in [1 .. n -> Interfaces]
  BY DEF AddrLists
<1>2. n \in Nat
  BY <1>1, InventoryAssumption
<1> QED
  BY <1>1, <1>2

LEMMA NamesShaped ==
    /\ HostNames \subseteq HostWords
    /\ \A name \in HostNames \ {NoName} : name = "valid" <=> machine.name = "valid"
BY InventoryAssumption DEF HostNames, HostWords

LEMMA InventoryInitially == InventoryInit => InventoryInductive
<1> SUFFICES ASSUME InventoryInit PROVE InventoryInductive
  OBVIOUS
<1>1. InventoryShapes
  <2>1. facts \in FactSets
    BY NothingShaped DEF InventoryInit
  <2>2. last \in Payloads /\ last.host = NoName
    BY DEF InventoryInit, Payloads, HostWords, Words
  <2>3. /\ inv_pc = "start" /\ machine \in Machines /\ aggregator_host = NoName /\ host = NoName
        /\ prtconf = Unread
    BY DEF InventoryInit
  <2>4. meta_ts \in BOOLEAN
    BY DEF InventoryInit
  <2>5. posts = 0 /\ startups = 0 /\ prtconf_runs = 0 /\ failed_turns = 0
    BY Zenon DEF InventoryInit
  <2>6. /\ posts \in 0 .. MaxPosts /\ startups \in 0 .. MaxPosts
        /\ prtconf_runs \in Nat /\ failed_turns \in 0 .. MaxFailed
    <3>1. MaxPosts \in Nat /\ MaxFailed \in Nat
      BY InventoryAssumption
    <3> QED
      BY ONLY <2>5, <3>1
  <2> QED
    BY <2>1, <2>2, <2>3, <2>4, <2>5, <2>6 DEF InventoryShapes, InventoryTypeOK, InTurn
<1>2. StartKnown /\ StartupOnce
  <2>1. inv_pc \notin InTurn
    BY DEF InventoryInit, InTurn
  <2> QED
    BY <2>1, Zenon DEF InventoryInit, StartKnown, StartupOnce
<1>3. AnswerKept
  <2>1. inv_pc = "start"
    BY DEF InventoryInit
  <2>2. posts = 0
    BY DEF InventoryInit
  <2>3. prtconf = Unread
    BY DEF InventoryInit
  <2>4. prtconf_runs = 0
    BY DEF InventoryInit
  <2>5. inv_pc \notin InTurn
    BY <2>1 DEF InTurn
  <2>6. ~ posts > 0
    BY <2>2
  <2>7. inv_pc # "send" /\ prtconf_runs <= 1
    BY <2>1, <2>4
  <2> QED
    BY <2>3, <2>4, <2>5, <2>6, <2>7, Zenon DEF AnswerKept
<1>4. HostAsConfigured
  BY DEF InventoryInit, HostAsConfigured
<1>5. NetworkKnown
  BY NothingShaped DEF InventoryInit, NetworkKnown
<1> QED
  BY <1>1, <1>2, <1>3, <1>4, <1>5 DEF InventoryInductive

\* What was found of the network stays, or the turn begins with nothing.
LEMMA NetworkStays ==
    ASSUME NetworkKnown, machine' = machine,
           \/ facts' = NothingYet
           \/ facts'.network = facts.network /\ facts'.addrs = facts.addrs
    PROVE  NetworkKnown'
<1>1. ASSUME NEW i PROVE HasMac(i)' <=> HasMac(i)
  BY DEF HasMac
<1>2. CASE facts' = NothingYet
  BY <1>1, <1>2, NothingShaped DEF NetworkKnown, NetworkRight, Real
<1>3. CASE facts'.network = facts.network /\ facts'.addrs = facts.addrs
  BY <1>1, <1>3 DEF NetworkKnown, NetworkRight, Real
<1> QED
  BY <1>2, <1>3

\* A turn that fails is forgotten.
LEMMA FailKeeps ==
    ASSUME InventoryInductive, inv_pc \in InTurn \cup {"turn"},
           Fail, UNCHANGED <<prtconf, prtconf_runs>>
    PROVE  InventoryInductive'
<1>1. /\ failed_turns < MaxFailed /\ failed_turns' = failed_turns + 1
      /\ inv_pc' = "turn" /\ host' = NoName /\ facts' = NothingYet
      /\ UNCHANGED <<machine, aggregator_host, meta_ts, last, posts, startups, prtconf, prtconf_runs>>
  BY DEF Fail, told
<1>2. InventoryShapes'
  BY <1>1, NothingShaped, InventoryAssumption
  DEF InventoryInductive, InventoryShapes, InventoryTypeOK, InTurn
<1>3. StartKnown' /\ StartupOnce'
  BY <1>1 DEF InventoryInductive, StartKnown, StartupOnce, InTurn
<1>4. AnswerKept'
  BY <1>1 DEF InventoryInductive, AnswerKept, InTurn
<1>5. HostAsConfigured'
  BY <1>1 DEF InventoryInductive, HostAsConfigured, InTurn
<1>6. NetworkKnown'
  BY <1>1, NetworkStays DEF InventoryInductive
<1> QED
  BY <1>2, <1>3, <1>4, <1>5, <1>6 DEF InventoryInductive

\* A turn that goes on says what was found so far, and has asked the command once.
LEMMA TurnGoesOn ==
    ASSUME InventoryInductive, inv_pc \in InTurn, inv_pc' \in InTurn,
           UNCHANGED <<machine, aggregator_host, host, meta_ts, last, posts, startups, failed_turns>>,
           facts' \in FactSets, facts'.start = facts.start,
           prtconf' \in Facts \cup {Unread}, prtconf_runs' \in Nat,
           AnswerKept', NetworkKnown'
    PROVE  InventoryInductive'
<1>1. InventoryShapes'
  BY DEF InventoryInductive, InventoryShapes, InventoryTypeOK, InTurn
<1>2. StartKnown' /\ StartupOnce'
  BY DEF InventoryInductive, StartKnown, StartupOnce
<1>3. HostAsConfigured'
  BY DEF InventoryInductive, HostAsConfigured, InTurn
<1> QED
  BY <1>1, <1>2, <1>3 DEF InventoryInductive

\* What GoOn leaves alone.
LEMMA GoOnFacts ==
    ASSUME NEW to, NEW collected, GoOn(to, collected)
    PROVE  /\ inv_pc' = to /\ facts' = collected
           /\ UNCHANGED <<machine, aggregator_host, host, meta_ts, last, posts, startups, failed_turns>>
BY DEF GoOn, told

\* The command answers once.
LEMMA PrtconfFacts ==
    ASSUME InventoryInductive, NEW f \in Facts, Prtconf(f)
    PROVE  /\ prtconf' = f /\ prtconf' # Unread
           /\ prtconf # Unread => f = prtconf
           /\ prtconf_runs' = 1
<1>1. f # Unread
  BY InventoryAssumption
<1>2. prtconf_runs \in Nat /\ prtconf_runs <= 1 /\ (prtconf = Unread <=> prtconf_runs = 0)
  BY DEF InventoryInductive, InventoryShapes, InventoryTypeOK, AnswerKept
<1> QED
  BY <1>1, <1>2 DEF Prtconf, Keep

LEMMA FirstNameKeeps ==
    ASSUME InventoryInductive, FirstName
    PROVE  InventoryInductive'
<1>1. PICK name \in HostNames :
         /\ aggregator_host' = name
         /\ inv_pc' = IF name = NoName THEN "exited" ELSE "turn"
  BY DEF FirstName
<1>2. UNCHANGED <<machine, host, prtconf, facts, meta_ts, last, posts, startups, prtconf_runs, failed_turns>>
  BY DEF FirstName, told
<1>3. /\ inv_pc' \in {"exited", "turn"} /\ name \in HostWords
      /\ name # NoName => (name = "valid" <=> machine.name = "valid")
  BY <1>1, NamesShaped
<1>4. InventoryShapes'
  BY <1>1, <1>2, <1>3 DEF InventoryInductive, InventoryShapes, InventoryTypeOK, HostWords, InTurn
<1>5. StartKnown' /\ StartupOnce' /\ AnswerKept'
  BY <1>2, <1>3 DEF InventoryInductive, StartKnown, StartupOnce, AnswerKept, InTurn
<1>6. HostAsConfigured'
  BY <1>1, <1>2, <1>3 DEF InventoryInductive, HostAsConfigured
<1>7. NetworkKnown'
  BY <1>2, NetworkStays DEF InventoryInductive
<1> QED
  BY <1>4, <1>5, <1>6, <1>7 DEF InventoryInductive

LEMMA TurnNameKeeps ==
    ASSUME InventoryInductive, TurnName
    PROVE  InventoryInductive'
<1>1. PICK name \in HostNames :
         IF name = NoName
         THEN Fail
         ELSE /\ host' = name /\ facts' = [NothingYet EXCEPT !.start = ~meta_ts]
              /\ inv_pc' = "stats"
              /\ UNCHANGED <<meta_ts, machine, aggregator_host, last, posts, startups, failed_turns>>
  BY DEF TurnName, StampLater, told
<1>2. inv_pc = "turn" /\ posts < MaxPosts /\ UNCHANGED <<prtconf, prtconf_runs>>
  BY DEF TurnName
<1>3. CASE name = NoName
  BY <1>1, <1>2, <1>3, FailKeeps
<1>4. CASE name # NoName
  <2>1. /\ host' = name /\ facts' = [NothingYet EXCEPT !.start = ~meta_ts] /\ inv_pc' = "stats"
        /\ UNCHANGED <<meta_ts, machine, aggregator_host, last, posts, startups, failed_turns, prtconf, prtconf_runs>>
    BY <1>1, <1>2, <1>4
  <2>2. /\ facts' \in FactSets /\ facts'.start = ~meta_ts
        /\ facts'.network = NothingYet.network /\ facts'.addrs = NothingYet.addrs
    <3>1. meta_ts \in BOOLEAN
      BY DEF InventoryInductive, InventoryShapes, InventoryTypeOK
    <3> QED
      BY <2>1, <3>1, NothingShaped DEF FactSets
  <2>3. name \in HostWords /\ (name = "valid" <=> machine.name = "valid")
    BY <1>4, NamesShaped
  <2>4. InventoryShapes'
    BY <1>2, <2>1, <2>2, <2>3 DEF InventoryInductive, InventoryShapes, InventoryTypeOK, HostWords, InTurn
  <2>5. StartKnown' /\ StartupOnce'
    <3>1. /\ meta_ts \in BOOLEAN /\ (meta_ts <=> posts # 0) /\ StartupOnce
      BY DEF InventoryInductive, InventoryShapes, InventoryTypeOK, StartKnown
    <3>2. /\ meta_ts' = meta_ts /\ posts' = posts /\ startups' = startups
          /\ facts'.start = ~meta_ts
      BY <2>1, <2>2
    <3> QED
      BY <3>1, <3>2, Zenon DEF StartKnown, StartupOnce
  <2>8. AnswerKept'
    BY <2>1 DEF InventoryInductive, AnswerKept, InTurn
  <2>6. HostAsConfigured'
    BY <1>2, <1>4, <2>1, <2>3 DEF InventoryInductive, HostAsConfigured
  <2>7. NetworkKnown'
    <3>1. ASSUME NEW i PROVE HasMac(i)' <=> HasMac(i)
      BY <2>1 DEF HasMac
    <3> QED
      BY <2>2, <3>1, NothingShaped DEF NetworkKnown, NetworkRight, Real
  <2> QED
    BY <2>4, <2>5, <2>6, <2>7, <2>8 DEF InventoryInductive
<1> QED
  BY <1>3, <1>4

LEMMA SystemStatsKeeps ==
    ASSUME InventoryInductive, SystemStats
    PROVE  InventoryInductive'
<1>1. inv_pc = "stats" /\ inv_pc \in InTurn /\ UNCHANGED <<prtconf, prtconf_runs>>
  BY DEF SystemStats, InTurn
<1>2. CASE Fail
  BY <1>1, <1>2, FailKeeps
<1>3. CASE GoOn(IF machine.gohai THEN "cpu" ELSE "send", facts)
  <2>1. /\ inv_pc' = IF machine.gohai THEN "cpu" ELSE "send"
        /\ facts' = facts
        /\ UNCHANGED <<machine, aggregator_host, host, meta_ts, last, posts, startups, failed_turns>>
    BY <1>3, GoOnFacts
  <2>2. NetworkKnown'
    BY <2>1, NetworkStays DEF InventoryInductive
  <2>3. AnswerKept'
    BY <1>1, <2>1 DEF InventoryInductive, AnswerKept, InTurn
  <2>4. inv_pc' \in InTurn
    BY <2>1 DEF InTurn
  <2> QED
    BY <1>1, <2>1, <2>2, <2>3, <2>4, TurnGoesOn DEF InventoryInductive, InventoryShapes, InventoryTypeOK
<1> QED
  BY <1>2, <1>3 DEF SystemStats

LEMMA CpuKeeps ==
    ASSUME InventoryInductive, CollectCpu
    PROVE  InventoryInductive'
<1>1. inv_pc = "cpu" /\ inv_pc \in InTurn /\ facts \in FactSets /\ prtconf_runs \in Nat
  BY DEF CollectCpu, InTurn, InventoryInductive, InventoryShapes, InventoryTypeOK
<1>2. \E model \in Words :
         /\ GoOn("filesystem", [facts EXCEPT !.cpu = model])
         /\ \/ machine.os # "aix" /\ UNCHANGED <<prtconf, prtconf_runs>>
            \/ \E f \in Facts : model = f.type /\ Prtconf(f)
  <2>1. CASE machine.os = "aix"
    <3>1. PICK f \in Facts : Prtconf(f) /\ GoOn("filesystem", [facts EXCEPT !.cpu = f.type])
      BY <2>1 DEF CollectCpu
    <3>2. f.type \in Words
      BY DEF Facts, Words
    <3> QED
      BY <3>1, <3>2
  <2>2. CASE machine.os # "aix"
    <3>1. PICK model \in {"", "cpuinfo"} : GoOn("filesystem", [facts EXCEPT !.cpu = model])
      BY <2>2 DEF CollectCpu
    <3>2. model \in Words
      BY DEF Words
    <3>3. UNCHANGED <<prtconf, prtconf_runs>>
      BY <2>2 DEF CollectCpu
    <3> QED
      BY <2>2, <3>1, <3>2, <3>3
  <2> QED
    BY <2>1, <2>2
<1>3. PICK model \in Words :
         /\ GoOn("filesystem", [facts EXCEPT !.cpu = model])
         /\ \/ machine.os # "aix" /\ UNCHANGED <<prtconf, prtconf_runs>>
            \/ \E f \in Facts : model = f.type /\ Prtconf(f)
  BY <1>2
<1>4. /\ inv_pc' = "filesystem" /\ facts' = [facts EXCEPT !.cpu = model]
      /\ UNCHANGED <<machine, aggregator_host, host, meta_ts, last, posts, startups, failed_turns>>
  BY <1>3, GoOnFacts
<1>5. /\ facts' \in FactSets /\ facts'.start = facts.start /\ facts'.cpu = model
      /\ facts'.network = facts.network /\ facts'.addrs = facts.addrs
  BY <1>1, <1>4 DEF FactSets
<1>6. NetworkKnown'
  BY <1>4, <1>5, NetworkStays DEF InventoryInductive
<1>7. inv_pc' \in InTurn
  BY <1>4 DEF InTurn
<1>8. CASE machine.os # "aix" /\ UNCHANGED <<prtconf, prtconf_runs>>
  <2>1. AnswerKept'
    BY <1>4, <1>8 DEF InventoryInductive, AnswerKept
  <2> QED
    BY <1>1, <1>4, <1>5, <1>6, <1>7, <1>8, <2>1, TurnGoesOn
    DEF InventoryInductive, InventoryShapes, InventoryTypeOK
<1>9. CASE \E f \in Facts : model = f.type /\ Prtconf(f)
  <2>1. PICK f \in Facts : model = f.type /\ Prtconf(f)
    BY <1>9
  <2>2. /\ prtconf' = f /\ prtconf' # Unread /\ prtconf_runs' = 1
        /\ prtconf # Unread => f = prtconf
    BY <2>1, PrtconfFacts
  <2>3. AnswerKept'
    <3>1. posts > 0 /\ machine.os = "aix" /\ machine.gohai => f = prtconf
      BY <2>2 DEF InventoryInductive, AnswerKept
    <3>2. /\ inv_pc' = "filesystem" /\ facts'.cpu = prtconf'.type /\ prtconf' # Unread
          /\ prtconf_runs' = 1 /\ prtconf' = f
          /\ machine' = machine /\ posts' = posts /\ last' = last
      BY <1>4, <1>5, <2>1, <2>2
    <3>3. prtconf_runs' <= 1 /\ (prtconf' = Unread <=> prtconf_runs' = 0)
      BY <3>2
    <3>4. machine.os = "aix" /\ machine.gohai /\ posts > 0 =>
             /\ prtconf' # Unread /\ last.cpu = prtconf'.type
             /\ last.cpu # "" => last.processor = last.cpu
      BY <3>1, <3>2 DEF InventoryInductive, AnswerKept
    <3>5. inv_pc' # "send"
      BY <3>2
    <3> QED
      BY <3>2, <3>3, <3>4, <3>5, Zenon DEF AnswerKept
  <2> QED
    BY <1>1, <1>4, <1>5, <1>6, <1>7, <2>2, <2>3, TurnGoesOn
<1> QED
  BY <1>3, <1>8, <1>9

\* The parts that ask neither for the processor nor for the network.
LEMMA OtherPartKeeps ==
    ASSUME InventoryInductive, CollectFilesystem \/ CollectMemory
    PROVE  InventoryInductive'
<1>1. /\ inv_pc \in {"filesystem", "memory"} /\ inv_pc \in InTurn
      /\ UNCHANGED <<prtconf, prtconf_runs>>
      /\ Fail \/ GoOn("memory", facts) \/ GoOn("network", facts)
  BY DEF CollectFilesystem, CollectMemory, InTurn
<1>2. CASE Fail
  BY <1>1, <1>2, FailKeeps
<1>3. CASE GoOn("memory", facts) \/ GoOn("network", facts)
  <2>1. /\ inv_pc' \in {"memory", "network"} /\ facts' = facts
        /\ UNCHANGED <<machine, aggregator_host, host, meta_ts, last, posts, startups, failed_turns>>
    BY <1>3, GoOnFacts
  <2>2. NetworkKnown'
    BY <2>1, NetworkStays DEF InventoryInductive
  <2>3. AnswerKept'
    BY <1>1, <2>1 DEF InventoryInductive, AnswerKept, InTurn
  <2>4. inv_pc' \in InTurn
    BY <2>1 DEF InTurn
  <2> QED
    BY <1>1, <2>1, <2>2, <2>3, <2>4, TurnGoesOn DEF InventoryInductive, InventoryShapes, InventoryTypeOK
<1> QED
  BY <1>1, <1>2, <1>3

LEMMA NetworkKeeps ==
    ASSUME InventoryInductive, CollectNetwork
    PROVE  InventoryInductive'
<1>1. inv_pc = "network" /\ inv_pc \in InTurn /\ UNCHANGED <<prtconf, prtconf_runs>>
  BY DEF CollectNetwork, InTurn
<1>2. CASE Fail
  BY <1>1, <1>2, FailKeeps
<1>3. ASSUME NEW addrs \in AddrLists,
             GoOn("platform", [facts EXCEPT !.addrs = addrs, !.network = NetworkOf(addrs)])
      PROVE  InventoryInductive'
  <2>1. /\ inv_pc' = "platform"
        /\ facts' = [facts EXCEPT !.addrs = addrs, !.network = NetworkOf(addrs)]
        /\ UNCHANGED <<machine, aggregator_host, host, meta_ts, last, posts, startups, failed_turns>>
    BY <1>3, GoOnFacts
  <2>2. addrs \in Seq(Interfaces) /\ Len(addrs) \in Nat
    BY ListsShaped
  <2>3. NetworkRight(NetworkOf(addrs), addrs, Len(addrs))
    BY <2>2, NetworkFacts
  <2>4. NetworkOf(addrs) \in Networks
    BY <2>3 DEF NetworkRight
  <2>5. /\ facts' \in FactSets /\ facts'.start = facts.start /\ facts'.cpu = facts.cpu
        /\ facts'.network = NetworkOf(addrs) /\ facts'.addrs = addrs
    <3>1. facts \in FactSets
      BY DEF InventoryInductive, InventoryShapes
    <3> QED
      BY <2>1, <2>2, <2>4, <3>1 DEF FactSets
  <2>6. NetworkKnown'
    <3>1. ASSUME NEW i PROVE HasMac(i)' <=> HasMac(i)
      BY <2>1 DEF HasMac
    <3> DEFINE net == NetworkOf(addrs)
    <3>2. NetworkRight(net, addrs, Len(addrs)) /\ facts'.network = net /\ facts'.addrs = addrs
      BY <2>3, <2>5
    <3> HIDE DEF net
    <3> QED
      BY <3>1, <3>2 DEF NetworkKnown, NetworkRight, Real
  <2>7. AnswerKept'
    BY <1>1, <2>1, <2>5 DEF InventoryInductive, AnswerKept, InTurn
  <2>8. inv_pc' \in InTurn
    BY <2>1 DEF InTurn
  <2> QED
    BY <1>1, <2>1, <2>5, <2>6, <2>7, <2>8, TurnGoesOn DEF InventoryInductive, InventoryShapes, InventoryTypeOK
<1> QED
  BY <1>2, <1>3 DEF CollectNetwork

LEMMA PlatformKeeps ==
    ASSUME InventoryInductive, CollectPlatform
    PROVE  InventoryInductive'
<1>1. inv_pc = "platform" /\ inv_pc \in InTurn /\ facts \in FactSets /\ prtconf_runs \in Nat
  BY DEF CollectPlatform, InTurn, InventoryInductive, InventoryShapes, InventoryTypeOK
<1>2. CASE machine.os # "aix"
  <2>1. PICK python \in Words : GoOn("send", [facts EXCEPT !.processor = python])
    BY <1>2 DEF CollectPlatform, Words
  <2>2. /\ inv_pc' = "send" /\ facts' = [facts EXCEPT !.processor = python]
        /\ UNCHANGED <<machine, aggregator_host, host, meta_ts, last, posts, startups, failed_turns>>
    BY <2>1, GoOnFacts
  <2>3. /\ facts' \in FactSets /\ facts'.start = facts.start
        /\ facts'.network = facts.network /\ facts'.addrs = facts.addrs
    BY <1>1, <2>2 DEF FactSets
  <2>4. UNCHANGED <<prtconf, prtconf_runs>>
    BY <1>2 DEF CollectPlatform
  <2>5. AnswerKept'
    BY <1>2, <2>2, <2>4 DEF InventoryInductive, AnswerKept
  <2>6. NetworkKnown' /\ inv_pc' \in InTurn
    BY <2>2, <2>3, NetworkStays DEF InventoryInductive, InTurn
  <2> QED
    BY <1>1, <2>2, <2>3, <2>4, <2>5, <2>6, TurnGoesOn DEF InventoryInductive, InventoryShapes, InventoryTypeOK
<1>3. CASE machine.os = "aix"
  <2>1. PICK f \in Facts, python \in Words, hardware \in Words :
           /\ Prtconf(f)
           /\ GoOn("send", [facts EXCEPT !.processor = IF f.type # "" THEN f.type ELSE python,
                                         !.hardware = hardware])
    <3>1. PICK python \in {"", "powerpc"}, uname \in BOOLEAN, f \in Facts :
             /\ Prtconf(f)
             /\ GoOn("send", [facts EXCEPT !.processor = IF f.type # "" THEN f.type ELSE python,
                                           !.hardware = IF f.model THEN "model"
                                                        ELSE IF uname THEN "uname" ELSE ""])
      BY <1>3 DEF CollectPlatform
    <3> DEFINE hardware == IF f.model THEN "model" ELSE IF uname THEN "uname" ELSE ""
    <3>2. hardware \in Words /\ python \in Words
      BY DEF Words
    <3> QED
      BY <3>1, <3>2
  <2> DEFINE processor == IF f.type # "" THEN f.type ELSE python
  <2>2. f.type \in Words /\ processor \in Words
    BY DEF Facts, Words
  <2>3. /\ inv_pc' = "send" /\ facts' = [facts EXCEPT !.processor = processor, !.hardware = hardware]
        /\ UNCHANGED <<machine, aggregator_host, host, meta_ts, last, posts, startups, failed_turns>>
    BY <2>1, GoOnFacts
  <2>4. /\ facts' \in FactSets /\ facts'.start = facts.start
        /\ facts'.cpu = facts.cpu /\ facts'.processor = processor
        /\ facts'.network = facts.network /\ facts'.addrs = facts.addrs
    <3> HIDE DEF processor
    <3> QED
      BY <1>1, <2>2, <2>3 DEF FactSets
  <2>5. /\ prtconf' = f /\ prtconf' # Unread /\ prtconf_runs' = 1
        /\ prtconf # Unread => f = prtconf
    BY <2>1, PrtconfFacts
  <2>6. AnswerKept'
    <3>1. machine.os = "aix" /\ machine.gohai => f = prtconf /\ facts.cpu = f.type
      BY <1>1, <2>5 DEF InventoryInductive, AnswerKept, InTurn
    <3>2. /\ inv_pc' = "send" /\ facts'.cpu = facts.cpu /\ facts'.processor = processor
          /\ prtconf' # Unread /\ prtconf_runs' = 1 /\ prtconf' = f
          /\ machine' = machine /\ posts' = posts /\ last' = last
      BY <2>3, <2>4, <2>5
    <3>3. prtconf_runs' <= 1 /\ (prtconf' = Unread <=> prtconf_runs' = 0)
      BY <2>5
    <3>4. machine.os = "aix" /\ machine.gohai /\ posts > 0 =>
             /\ prtconf' # Unread /\ last.cpu = prtconf'.type
             /\ last.cpu # "" => last.processor = last.cpu
      BY <3>1, <3>2 DEF InventoryInductive, AnswerKept
    <3>5. machine.os = "aix" /\ machine.gohai =>
             /\ prtconf' # Unread /\ facts'.cpu = prtconf'.type
             /\ facts'.cpu # "" => facts'.processor = facts'.cpu
      BY <3>1, <3>2
    <3> QED
      BY <3>2, <3>3, <3>4, <3>5, Zenon DEF AnswerKept
  <2>7. NetworkKnown' /\ inv_pc' \in InTurn
    BY <2>3, <2>4, NetworkStays DEF InventoryInductive, InTurn
  <2> QED
    BY <1>1, <2>3, <2>4, <2>5, <2>6, <2>7, TurnGoesOn
<1> QED
  BY <1>2, <1>3

LEMMA SendKeeps ==
    ASSUME InventoryInductive, Send
    PROVE  InventoryInductive'
<1>1. inv_pc = "send" /\ inv_pc \in InTurn /\ UNCHANGED <<prtconf, prtconf_runs>>
  BY DEF Send, InTurn
<1>2. CASE Fail
  BY <1>1, <1>2, FailKeeps
<1>3. CASE ~ Fail
  <2>1. /\ last' = [host |-> host, cpu |-> facts.cpu, processor |-> facts.processor]
        /\ posts' = posts + 1
        /\ startups' = startups + (IF facts.start THEN 1 ELSE 0)
        /\ meta_ts' = TRUE /\ inv_pc' = "turn" /\ host' = NoName /\ facts' = NothingYet
        /\ UNCHANGED <<machine, aggregator_host, failed_turns>>
    BY <1>3 DEF Send
  <2>2. /\ posts \in Nat /\ posts < MaxPosts /\ startups = IF posts = 0 THEN 0 ELSE 1
        /\ facts.start <=> posts = 0
    BY <1>1, InventoryAssumption
    DEF InventoryInductive, InventoryShapes, InventoryTypeOK, StartKnown, StartupOnce
  <2>3. posts' > 0 /\ posts' <= MaxPosts /\ posts' \in Nat /\ startups' = 1
    BY <2>1, <2>2, InventoryAssumption
  <2>4. last' \in Payloads /\ last'.host = host
    BY <2>1 DEF InventoryInductive, InventoryShapes, InventoryTypeOK, Payloads, FactSets, HostWords
  <2>5. InventoryShapes'
    BY <1>1, <2>1, <2>3, <2>4, NothingShaped, InventoryAssumption
    DEF InventoryInductive, InventoryShapes, InventoryTypeOK, InTurn, HostWords
  <2>6. StartKnown' /\ StartupOnce'
    BY <2>1, <2>3 DEF StartKnown, StartupOnce, InTurn
  <2>7. AnswerKept'
    BY <1>1, <2>1 DEF InventoryInductive, AnswerKept, InTurn
  <2>8. HostAsConfigured'
    BY <1>1, <2>1, <2>4 DEF InventoryInductive, HostAsConfigured
  <2>9. NetworkKnown'
    BY <2>1, NetworkStays DEF InventoryInductive
  <2> QED
    BY <2>5, <2>6, <2>7, <2>8, <2>9 DEF InventoryInductive
<1> QED
  BY <1>2, <1>3

LEMMA InventoryMoves ==
    ASSUME InventoryInductive, [InventoryNext]_inventoryVars
    PROVE  InventoryInductive'
<1>1. CASE UNCHANGED inventoryVars
  <2>1. UNCHANGED <<inv_pc, machine, aggregator_host, host, prtconf, facts, meta_ts, last, posts,
                    startups, prtconf_runs, failed_turns>>
    BY <1>1 DEF inventoryVars, told
  <2>2. NetworkKnown'
    BY <2>1, NetworkStays DEF InventoryInductive
  <2> QED
    BY <2>1, <2>2 DEF InventoryInductive, InventoryShapes, InventoryTypeOK, StartKnown, StartupOnce,
                      AnswerKept, HostAsConfigured
<1> QED
  BY <1>1, FirstNameKeeps, TurnNameKeeps, SystemStatsKeeps, CpuKeeps, OtherPartKeeps, NetworkKeeps,
     PlatformKeeps, SendKeeps DEF InventoryNext

\* For any machine, any list of interfaces and any number of turns and payloads: the first
\* payload, and no other, says that the agent has started; prtconf runs once, and every
\* payload says what it answered; the names are as configured; and the primary addresses
\* are the first.
THEOREM InventoryInvHolds == InventorySpec => []InventoryInv
<1>1. InventoryInductive /\ [InventoryNext]_inventoryVars => InventoryInductive'
  BY InventoryMoves
<1>2. InventoryInductive => InventoryInv
  <2> SUFFICES ASSUME InventoryInductive PROVE InventoryInv
    OBVIOUS
  <2>1. InventoryTypeOK /\ StartupOnce /\ HostAsConfigured
    BY DEF InventoryInductive, InventoryShapes
  <2>2. OneMachine
    BY DEF InventoryInductive, AnswerKept, OneMachine
  <2>3. PrimaryAddresses
    <3>1. ASSUME NEW k \in 1 .. Len(facts.addrs)
          PROVE  facts.addrs[k].loopback <=>
                    \A j \in 1 .. Len(facts.network.interfaces) : facts.network.interfaces[j] # k
      BY DEF InventoryInductive, NetworkKnown, NetworkRight, Real
    <3> QED
      BY <3>1 DEF InventoryInductive, NetworkKnown, NetworkRight, Real, PrimaryAddresses
  <2> QED
    BY <2>1, <2>2, <2>3 DEF InventoryInv
<1> QED
  BY InventoryInitially, <1>1, <1>2, PTL DEF InventorySpec
-----------------------------------------------------------------------------
(***************************************************************************)
(* StatusPage.                                                             *)
(***************************************************************************)
\* The second snapshot has an entry for every error of the first, and no other entry has one.
THEOREM ErrorsShown == PageSpec => ErrorsReachPage
<1>1. [PageNext]_pageVars =>
          [SnapAgent => {id \in DOMAIN page' : page'[id].error} = {Id(i) : i \in errors_seen}]_pageVars
  <2> SUFFICES ASSUME SnapAgent
               PROVE  {id \in DOMAIN page' : page'[id].error} = {Id(i) : i \in errors_seen}
    OBVIOUS
  <2>1. DOMAIN page' = Entries /\ \A id \in Entries : page'[id] = Entry(id)
    BY DEF SnapAgent
  <2>2. \A id \in Entries : page'[id].error <=> id = Id(id[1]) /\ id[1] \in errors_seen
    <3>1. \A id \in Entries : Entry(id).error = (id = Id(id[1]) /\ id[1] \in errors_seen)
      BY DEF Entry
    <3> QED
      BY <2>1, <3>1, Zenon
  <2>3. \A i \in errors_seen : Id(i) \in Entries /\ Id(i)[1] = i
    BY DEF Entries, Id
  <2> QED
    BY <2>1, <2>2, <2>3
<1> QED
  BY <1>1, PTL DEF PageSpec, ErrorsReachPage

-----------------------------------------------------------------------------
(***************************************************************************)
(* ProcessCheck.  Pids, births and starts.                                 *)
(***************************************************************************)
Processes == [match : BOOLEAN, denied : BOOLEAN, mine : BOOLEAN, parent : Nat, birth : Nat, start : Nat]

Typed ==
    /\ TypeOK
    /\ now \in Nat /\ born \in Nat
    /\ report.pids \subseteq Pids
    /\ dead_runs \in [Pids -> 0 .. 2]
    /\ \A p \in Alive : running[p] \in Processes /\ running[p].birth \in 1 .. born /\ running[p].start <= now
    /\ running = [p \in Pids |-> running[p]]

\* Between two runs a pid in the cache has a process, while the cache is to be used; and
\* no run counts a pid whose process was gone before the last one.
GoneIsNoticed ==
    /\ GoneCountedOnce
    /\ \A p \in Alive : dead_runs[p] = 0
    /\ phase = "children" /\ Source = "search_string" => pid_cache = pids
    /\ phase # "idle" /\ Source = "search_string" /\ ~setup.user => pid_cache = pids
    /\ phase = "idle" /\ Source = "search_string" /\ ~setup.user /\ ~RefreshPids =>
          \A p \in pid_cache : dead_runs[p] = 0
    /\ (phase \in {"children", "filter"} /\ ~setup.user) \/ phase = "state" => \A p \in pids : dead_runs[p] <= 1

Wanted(p) == running[p].match /\ ~running[p].denied

\* Who is on the list of those that denied access, and does not, came after the list was
\* made; and whoever is missing in the pid cache came after it, but for the time of that list.
MissingIsNew ==
    /\ \A p \in Alive \cap ad_cache :
          ~running[p].denied /\ ~RefreshDenied => running[p].start >= last_ad_cache_ts
    /\ \A p \in Alive :
          Source = "search_string" /\ ~RefreshPids /\ Wanted(p) /\ p \notin pid_cache =>
              running[p].start + AdDuration >= last_pid_cache_ts

\* A run has all that match and were there for both durations.
HasLongThere ==
    phase # "idle" /\ Source = "search_string" =>
        \A p \in Alive :
            Wanted(p) /\ (setup.user => running[p].mine) /\ now - running[p].start > PidDuration + AdDuration
            => p \in pids

\* An object that is that of the process was sampled in the last run.
ObjectsSampled ==
    \A p \in Alive : ~running[p].denied /\ process_cache[p] = running[p].birth => running[p].birth \in sampled

CheckInv == Typed /\ GoneIsNoticed /\ MissingIsNew /\ HasLongThere /\ ObjectsSampled

\* The durations are numbers.
LEMMA DurationsAreNumbers ==
    ASSUME setup \in Setups
    PROVE  /\ PidDuration \in Nat /\ AdDuration \in Nat /\ LongAgo \in Int /\ LongAgo < 0
           /\ setup.user \in BOOLEAN
           /\ setup.kinds \subseteq [match : BOOLEAN, denied : BOOLEAN, mine : BOOLEAN]
BY ProcessAssumption DEF PidDuration, AdDuration, LongAgo

\* A family of living processes lives.
LEMMA FamilyLives ==
    ASSUME NEW ps \in SUBSET Alive
    PROVE  Family(ps) \subseteq Alive
<1>1. Alive \in SUBSET Pids
  BY DEF Alive
<1> QED
  BY <1>1 DEF Family

LEMMA CheckInit == Init => CheckInv
<1> SUFFICES ASSUME Init PROVE CheckInv
  OBVIOUS
<1>1. setup \in Setups /\ Alive = {}
  BY DEF Init, Alive
<1>2. Typed
  BY <1>1, FS_EmptySet, ProcessAssumption, DurationsAreNumbers DEF Init, Typed, TypeOK, NoReport
<1> QED
  BY <1>1, <1>2 DEF Init, NoReport, CheckInv, GoneIsNoticed, GoneCountedOnce, MissingIsNew, HasLongThere, ObjectsSampled

\* A process starts: it is new, and its birth is that of no object.
LEMMA SpawnStep ==
    ASSUME CheckInv, UNCHANGED setup,
           NEW p \in Pids, NEW k \in setup.kinds, NEW parent \in Alive \cup {0}, Spawn(p, k, parent)
    PROVE  CheckInv'
<1> USE DEF CheckInv
<1>1. /\ setup \in Setups /\ setup' = setup /\ now \in Nat /\ born \in Nat
      /\ phase' = phase /\ pids' = pids /\ now' = now /\ born' = born + 1
      /\ UNCHANGED <<pid_cache, last_pid_cache_ts, ad_cache, last_ad_cache_ts, process_cache, report, sampled>>
      /\ dead_runs' = [dead_runs EXCEPT ![p] = 0]
  BY DEF Spawn, caches, Typed, TypeOK
<1>2. /\ running' = [running EXCEPT ![p] = running'[p]]
      /\ running'[p] \in Processes /\ running'[p].birth = born + 1 /\ running'[p].start = now
  <2>1. parent \in Nat
    <3>1. Alive \subseteq Pids
      BY DEF Alive
    <3>2. Pids \subseteq Nat
      BY ProcessAssumption
    <3> QED
      BY <3>1, <3>2
  <2> QED
    BY <1>1, <2>1, DurationsAreNumbers DEF Spawn, Typed, Processes
<1>3. /\ Alive' \subseteq Alive \cup {p}
      /\ \A q \in Alive' : q # p => q \in Alive /\ running'[q] = running[q] /\ dead_runs'[q] = dead_runs[q]
      /\ dead_runs'[p] = 0 /\ \A q \in Pids : dead_runs'[q] \in 0 .. dead_runs[q]
  <2>1. dead_runs' \in [Pids -> 0 .. 2] /\ \A q \in Pids : dead_runs'[q] = IF q = p THEN 0 ELSE dead_runs[q]
    BY <1>1 DEF Typed
  <2>2. \A q \in Pids : q # p => running'[q] = running[q]
    BY <1>2 DEF Typed
  <2>3. Alive' \subseteq Alive \cup {p}
    BY <2>2 DEF Alive
  <2>4. Alive' \subseteq Pids
    BY DEF Alive
  <2> QED
    BY <2>1, <2>2, <2>3, <2>4 DEF Typed
<1>4. /\ LongAgo' = LongAgo /\ PidDuration' = PidDuration /\ AdDuration' = AdDuration /\ Source' = Source
      /\ RefreshPids' = RefreshPids /\ RefreshDenied' = RefreshDenied
  BY <1>1 DEF LongAgo, PidDuration, AdDuration, Source, RefreshPids, RefreshDenied
<1>5. Typed'
  <2>1. TypeOK'
    BY <1>1, <1>4 DEF Typed, TypeOK
  <2>2. dead_runs' \in [Pids -> 0 .. 2]
    BY <1>1 DEF Typed
  <2>4. running' = [q \in Pids |-> running'[q]]
    BY <1>2 DEF Typed
  <2>3. \A q \in Alive' : running'[q] \in Processes /\ running'[q].birth \in 1 .. born' /\ running'[q].start <= now'
    BY <1>1, <1>2, <1>3 DEF Typed
  <2> QED
    BY <1>1, <2>1, <2>2, <2>3, <2>4 DEF Typed
<1>6. GoneIsNoticed'
  BY <1>1, <1>2, <1>3, <1>4 DEF GoneIsNoticed, GoneCountedOnce, Typed, TypeOK
<1>7. MissingIsNew'
  <2>1. now >= last_ad_cache_ts /\ now + AdDuration >= last_pid_cache_ts
    BY <1>1, DurationsAreNumbers DEF Typed, TypeOK
  <2>2. running'[p].start >= last_ad_cache_ts' /\ running'[p].start + AdDuration' >= last_pid_cache_ts'
    BY <1>1, <1>2, <1>4, <2>1
  <2>3. ASSUME NEW q \in Alive', q # p
        PROVE  /\ q \in ad_cache' /\ ~running'[q].denied /\ ~RefreshDenied' => running'[q].start >= last_ad_cache_ts'
               /\ Source' = "search_string" /\ ~RefreshPids' /\ Wanted(q)' /\ q \notin pid_cache' =>
                      running'[q].start + AdDuration' >= last_pid_cache_ts'
    BY <1>1, <1>3, <1>4, <2>3 DEF MissingIsNew, Wanted
  <2> QED
    BY <2>2, <2>3 DEF MissingIsNew
<1>8. HasLongThere'
  <2>1. ~(now' - running'[p].start > PidDuration' + AdDuration')
    BY <1>1, <1>2, <1>4, DurationsAreNumbers
  <2>2. ASSUME NEW q \in Alive', q # p
        PROVE  q \in Alive /\ running'[q] = running[q]
    BY <1>3, <2>2
  <2> QED
    BY <1>1, <1>4, <2>1, <2>2 DEF HasLongThere, Wanted
<1>9. ObjectsSampled'
  <2>1. process_cache[p] <= born
    BY DEF Typed, TypeOK
  <2> QED
    BY <2>1, <1>1, <1>2, <1>3 DEF ObjectsSampled
<1> QED
  BY <1>5, <1>6, <1>7, <1>8, <1>9

\* A process ends: those that go on only lose their parent.
LEMMA ExitStep ==
    ASSUME CheckInv, UNCHANGED setup, NEW p \in Pids, Exit(p)
    PROVE  CheckInv'
<1> USE DEF CheckInv
<1>1. /\ setup \in Setups /\ setup' = setup /\ now \in Nat /\ born \in Nat
      /\ UNCHANGED <<phase, pids, now, born, pid_cache, last_pid_cache_ts, ad_cache, last_ad_cache_ts,
                     process_cache, report, sampled, dead_runs>>
  BY DEF Exit, caches, history, Typed, TypeOK
<1>2. /\ running' = [q \in Pids |-> running'[q]]
      /\ Alive' \subseteq Alive
      /\ \A q \in Alive' : \/ running'[q] = running[q]
                           \/ running'[q] = [running[q] EXCEPT !.parent = 0]
  BY DEF Exit, Alive
<1>3. \A q \in Alive' :
          /\ running'[q] \in Processes
          /\ running'[q].birth = running[q].birth /\ running'[q].start = running[q].start
          /\ running'[q].match = running[q].match /\ running'[q].denied = running[q].denied
          /\ running'[q].mine = running[q].mine
  <2> SUFFICES ASSUME NEW q \in Alive'
               PROVE  LET r == running[q]
                          s == running'[q]
                      IN  /\ s \in Processes /\ s.birth = r.birth /\ s.start = r.start
                          /\ s.match = r.match /\ s.denied = r.denied /\ s.mine = r.mine
    OBVIOUS
  <2>1. running[q] \in Processes
    BY <1>2 DEF Typed
  <2>2. running'[q] = running[q] \/ running'[q] = [running[q] EXCEPT !.parent = 0]
    BY <1>2
  <2> QED
    BY <2>1, <2>2 DEF Processes
<1>4. /\ LongAgo' = LongAgo /\ PidDuration' = PidDuration /\ AdDuration' = AdDuration /\ Source' = Source
      /\ RefreshPids' = RefreshPids /\ RefreshDenied' = RefreshDenied
  BY <1>1 DEF LongAgo, PidDuration, AdDuration, Source, RefreshPids, RefreshDenied
<1>5. Typed'
  BY <1>1, <1>2, <1>3, <1>4 DEF Typed, TypeOK
<1>6. GoneIsNoticed'
  BY <1>1, <1>2, <1>3, <1>4 DEF GoneIsNoticed, GoneCountedOnce
<1>7. MissingIsNew'
  BY <1>1, <1>2, <1>3, <1>4 DEF MissingIsNew, Wanted
<1>8. HasLongThere'
  BY <1>1, <1>2, <1>3, <1>4 DEF HasLongThere, Wanted
<1>9. ObjectsSampled'
  BY <1>1, <1>2, <1>3 DEF ObjectsSampled
<1> QED
  BY <1>5, <1>6, <1>7, <1>8, <1>9

\* Time passes between the runs.
LEMMA TickStep ==
    ASSUME CheckInv, UNCHANGED setup, Tick
    PROVE  CheckInv'
<1> USE DEF CheckInv
<1>1. /\ setup \in Setups /\ setup' = setup /\ now \in Nat /\ born \in Nat /\ now' = now + 1 /\ phase = "idle"
      /\ UNCHANGED <<running, phase, pids, born, pid_cache, last_pid_cache_ts, ad_cache, last_ad_cache_ts,
                     process_cache, report, sampled, dead_runs>>
  BY DEF Tick, caches, history, Typed, TypeOK
<1>2. /\ LongAgo' = LongAgo /\ PidDuration' = PidDuration /\ AdDuration' = AdDuration /\ Source' = Source
      /\ Alive' = Alive
  BY <1>1 DEF LongAgo, PidDuration, AdDuration, Source, Alive
<1>3. /\ last_pid_cache_ts \in Int /\ last_ad_cache_ts \in Int
      /\ RefreshPids => RefreshPids'
      /\ RefreshDenied => RefreshDenied'
  BY <1>1, <1>2, DurationsAreNumbers DEF RefreshPids, RefreshDenied, Typed, TypeOK
<1>4. Typed'
  BY <1>1, <1>2, DurationsAreNumbers DEF Typed, TypeOK, Processes
<1>5. GoneIsNoticed'
  BY <1>1, <1>2, <1>3 DEF GoneIsNoticed, GoneCountedOnce
<1>6. MissingIsNew'
  <2>1. ASSUME NEW p \in Alive \cap ad_cache, ~running[p].denied, ~RefreshDenied'
        PROVE  running[p].start >= last_ad_cache_ts
    BY <1>3, <2>1 DEF MissingIsNew
  <2>2. ASSUME NEW p \in Alive, Source = "search_string", ~RefreshPids', Wanted(p), p \notin pid_cache
        PROVE  running[p].start + AdDuration >= last_pid_cache_ts
    BY <1>3, <2>2 DEF MissingIsNew
  <2> QED
    BY <1>1, <1>2, <2>1, <2>2 DEF MissingIsNew, Wanted
<1> QED
  BY <1>1, <1>2, <1>4, <1>5, <1>6 DEF HasLongThere, ObjectsSampled


\* A run begins: no process has become due to be forgotten by it.
LEMMA BeginFacts ==
    ASSUME CheckInv, setup' = setup, Begin, UNCHANGED world
    PROVE  /\ setup \in Setups /\ now \in Nat /\ born \in Nat /\ now' = now /\ born' = born /\ running' = running
           /\ phase = "idle" /\ Alive' = Alive
           /\ LongAgo' = LongAgo /\ PidDuration' = PidDuration /\ AdDuration' = AdDuration /\ Source' = Source
           /\ dead_runs' \in [Pids -> 0 .. 2]
           /\ \A p \in Pids : dead_runs[p] = 0 => dead_runs'[p] <= 1
           /\ \A p \in Alive : dead_runs'[p] = 0
           /\ \A p \in Alive : running[p] \in Processes /\ running[p].birth \in 1 .. born /\ running[p].start <= now
<1> USE DEF CheckInv
<1>1. /\ setup \in Setups /\ now \in Nat /\ born \in Nat /\ phase = "idle"
      /\ now' = now /\ born' = born /\ running' = running
  BY DEF Begin, world, Typed, TypeOK
<1>2. /\ Alive' = Alive /\ LongAgo' = LongAgo /\ PidDuration' = PidDuration /\ AdDuration' = AdDuration
      /\ Source' = Source
  BY <1>1 DEF Alive, LongAgo, PidDuration, AdDuration, Source
<1>3. dead_runs' = [p \in Pids |-> IF p \in Alive \/ dead_runs[p] = 2 THEN dead_runs[p] ELSE dead_runs[p] + 1]
  BY DEF Begin
<1>4. dead_runs' \in [Pids -> 0 .. 2] /\ \A p \in Pids : dead_runs[p] = 0 => dead_runs'[p] <= 1
  BY <1>3 DEF Typed
<1>5. Alive \subseteq Pids /\ \A p \in Alive : dead_runs'[p] = 0
  BY <1>3 DEF Alive, GoneIsNoticed
<1> QED
  BY <1>1, <1>2, <1>4, <1>5 DEF Typed

\* The pid of an option: the pid cache has no part in it.
LEMMA TakePidStep ==
    ASSUME CheckInv, setup' = setup, NEW pid \in Pids, TakePid(pid)
    PROVE  CheckInv'
<1> USE DEF CheckInv
<1>1. Begin /\ UNCHANGED world
  BY DEF TakePid
<1>2. /\ Source # "search_string" /\ pids' \subseteq Alive /\ phase' = "children"
      /\ UNCHANGED <<pid_cache, last_pid_cache_ts, ad_cache, last_ad_cache_ts, process_cache, report, sampled>>
  BY DEF TakePid, caches
<1>3. RefreshDenied' = RefreshDenied
  BY <1>1, <1>2, BeginFacts DEF RefreshDenied
<1>4. Typed'
  BY <1>1, <1>2, BeginFacts DEF Typed, TypeOK, Alive
<1>5. GoneIsNoticed'
  BY <1>1, <1>2, BeginFacts DEF GoneIsNoticed, GoneCountedOnce
<1>6. MissingIsNew'
  BY <1>1, <1>2, <1>3, BeginFacts DEF MissingIsNew
<1> QED
  BY <1>1, <1>2, <1>4, <1>5, <1>6, BeginFacts DEF HasLongThere, ObjectsSampled

\* The pid cache is used: it misses nobody who was there for both durations.
LEMMA FromCacheStep ==
    ASSUME CheckInv, setup' = setup, FromCache
    PROVE  CheckInv'
<1> USE DEF CheckInv
<1>1. Begin /\ UNCHANGED world
  BY DEF FromCache
<1>2. /\ Source = "search_string" /\ ~RefreshPids /\ pids' = pid_cache /\ phase' = "children"
      /\ UNCHANGED <<pid_cache, last_pid_cache_ts, ad_cache, last_ad_cache_ts, process_cache, report, sampled>>
  BY DEF FromCache, caches
<1>3. RefreshDenied' = RefreshDenied /\ RefreshPids' = RefreshPids
  BY <1>1, <1>2, BeginFacts DEF RefreshDenied, RefreshPids
<1>4. Typed'
  BY <1>1, <1>2, BeginFacts DEF Typed, TypeOK
<1>5. GoneIsNoticed'
  <2>1. pid_cache \subseteq Pids
    BY DEF Typed, TypeOK
  <2> QED
    BY <1>1, <1>2, <2>1, BeginFacts DEF GoneIsNoticed, GoneCountedOnce
<1>6. MissingIsNew'
  BY <1>1, <1>2, <1>3, BeginFacts DEF MissingIsNew, Wanted
<1>7. HasLongThere'
  <2>1. ASSUME NEW p \in Alive, Wanted(p), now - running[p].start > PidDuration + AdDuration
        PROVE  p \in pid_cache
    <3>1. running[p].start \in Nat /\ last_pid_cache_ts \in Int
      BY <1>1, BeginFacts, DurationsAreNumbers DEF Typed, TypeOK, Processes
    <3>2. now - last_pid_cache_ts <= PidDuration
      BY <1>1, <1>2, <3>1, BeginFacts, DurationsAreNumbers DEF RefreshPids
    <3>3. ~(running[p].start + AdDuration >= last_pid_cache_ts)
      BY <1>1, <2>1, <3>1, <3>2, BeginFacts, DurationsAreNumbers
    <3> QED
      BY <1>2, <2>1, <3>3 DEF MissingIsNew
  <2> QED
    BY <1>1, <1>2, <2>1, BeginFacts DEF HasLongThere, Wanted
<1> QED
  BY <1>1, <1>2, <1>4, <1>5, <1>6, <1>7, BeginFacts DEF ObjectsSampled

\* Whoever was there for longer than the list of those denied is looked at.
LEMMA ScanStep ==
    ASSUME CheckInv, setup' = setup, Scan
    PROVE  CheckInv'
<1> USE DEF CheckInv
<1>1. Begin /\ UNCHANGED world
  BY DEF Scan
<1>2. /\ Source = "search_string" /\ RefreshPids /\ ad_cache' = Denied
      /\ UNCHANGED <<process_cache, sampled>>
  BY DEF Scan
<1>3. Alive \subseteq Pids /\ Looked \subseteq Alive /\ Reached \subseteq Looked
      /\ last_pid_cache_ts \in Int /\ last_ad_cache_ts \in Int
  BY <1>1, BeginFacts, DurationsAreNumbers DEF Alive, Looked, Reached, Typed, TypeOK
<1>4. ad_cache' \subseteq Pids
  BY <1>2, <1>3 DEF Denied, DeniedOf, Typed, TypeOK
<1>5. CASE Raises
  <2>1. /\ phase' = "idle" /\ report' = NoReport
        /\ UNCHANGED <<pids, pid_cache, last_pid_cache_ts, last_ad_cache_ts>>
    BY <1>5 DEF Scan
  <2>2. RefreshDenied' = RefreshDenied /\ RefreshPids'
    BY <1>1, <1>2, <2>1, BeginFacts DEF RefreshDenied, RefreshPids
  <2>3. Typed'
    BY <1>1, <1>2, <1>4, <2>1, BeginFacts, FS_EmptySet DEF Typed, TypeOK, NoReport
  <2>4. GoneIsNoticed'
    BY <1>1, <1>2, <2>1, <2>2, BeginFacts DEF GoneIsNoticed, GoneCountedOnce, NoReport
  <2>5. MissingIsNew'
    <3>1. ~RefreshDenied => ad_cache' = ad_cache
      BY <1>2 DEF Denied
    <3> QED
      BY <1>1, <1>2, <2>1, <2>2, <3>1, BeginFacts DEF MissingIsNew
  <2> QED
    BY <1>1, <1>2, <2>1, <2>3, <2>4, <2>5, BeginFacts DEF HasLongThere, ObjectsSampled
<1>6. CASE ~Raises
  <2>1. /\ phase' = "children" /\ pids' = Matching /\ pid_cache' = Matching /\ last_pid_cache_ts' = now
        /\ last_ad_cache_ts' = DeniedTime /\ report' = report
    BY <1>6 DEF Scan
  <2>2. Matching \subseteq Alive /\ Reached = Looked
    BY <1>3, <1>6 DEF Matching, Reached
  <2>3. last_ad_cache_ts' \in Int /\ now - last_ad_cache_ts' <= AdDuration
    BY <1>1, <1>3, <2>1, BeginFacts, DurationsAreNumbers DEF DeniedTime, RefreshDenied
  <2>4. Typed'
    <3>1. TypeOK'
      BY <1>1, <1>2, <1>3, <1>4, <2>1, <2>2, BeginFacts DEF Typed, TypeOK, DeniedTime
    <3> QED
      BY <1>1, <2>1, <3>1, BeginFacts DEF Typed
  <2>5. GoneIsNoticed'
    BY <1>1, <1>2, <2>1, <2>2, BeginFacts DEF GoneIsNoticed, GoneCountedOnce
  \* Who matches, and is not counted, is on the list of those denied, which is not made anew.
  <2>6. ASSUME NEW p \in Alive, Wanted(p), p \notin Matching
        PROVE  /\ ~RefreshDenied /\ running[p].start >= last_ad_cache_ts
               /\ running[p].start + AdDuration >= now
    <3>1. p \notin Looked
      BY <2>2, <2>6 DEF Matching, DeniedOf, Wanted
    <3>2. ~RefreshDenied /\ p \in ad_cache
      BY <2>6, <3>1 DEF Looked
    <3>3. running[p].start >= last_ad_cache_ts
      BY <2>6, <3>2 DEF MissingIsNew, Wanted
    <3>4. running[p].start \in Nat /\ now - last_ad_cache_ts <= AdDuration
      BY <1>1, <1>3, <3>2, BeginFacts, DurationsAreNumbers DEF RefreshDenied, Processes
    <3> QED
      BY <1>1, <1>3, <3>2, <3>3, <3>4, BeginFacts, DurationsAreNumbers
  <2>7. MissingIsNew'
    <3>1. ASSUME NEW p \in Alive, p \in ad_cache', ~running[p].denied
          PROVE  ~RefreshDenied /\ p \in ad_cache
      BY <1>2, <2>2, <3>1 DEF Denied, DeniedOf, Looked
    <3>2. ~RefreshDenied => last_ad_cache_ts' = last_ad_cache_ts /\ (RefreshDenied' <=> RefreshDenied)
      BY <1>1, <2>1, BeginFacts DEF DeniedTime, RefreshDenied
    <3> QED
      BY <1>1, <1>2, <2>1, <2>6, <3>1, <3>2, BeginFacts DEF MissingIsNew, Wanted
  <2>8. HasLongThere'
    <3>1. ASSUME NEW p \in Alive, running[p].start + AdDuration >= now
          PROVE  ~(now - running[p].start > PidDuration + AdDuration)
      BY <1>1, <3>1, BeginFacts, DurationsAreNumbers DEF Processes
    <3> QED
      BY <1>1, <1>2, <2>1, <2>6, <3>1, BeginFacts DEF HasLongThere, Wanted
  <2> QED
    BY <1>1, <1>2, <2>1, <2>4, <2>5, <2>7, <2>8, BeginFacts DEF ObjectsSampled
<1> QED
  BY <1>5, <1>6

\* The children of those that are counted live.
LEMMA ChildrenStep ==
    ASSUME CheckInv, setup' = setup, Children
    PROVE  CheckInv'
<1> USE DEF CheckInv
<1>1. /\ setup \in Setups /\ now \in Nat /\ born \in Nat /\ phase = "children" /\ phase' = "filter"
      /\ UNCHANGED <<running, now, born, last_pid_cache_ts, ad_cache, last_ad_cache_ts, process_cache, report,
                     sampled, dead_runs>>
      /\ pid_cache' = IF Source = "search_string" THEN pids' ELSE pid_cache
  BY DEF Children, world, history, Typed, TypeOK
<1>2. /\ Alive' = Alive /\ LongAgo' = LongAgo /\ PidDuration' = PidDuration /\ AdDuration' = AdDuration
      /\ Source' = Source /\ RefreshPids' = RefreshPids /\ RefreshDenied' = RefreshDenied
  BY <1>1 DEF Alive, LongAgo, PidDuration, AdDuration, Source, RefreshPids, RefreshDenied
<1>3. pids \subseteq pids' /\ pids' \subseteq pids \cup Alive /\ Alive \subseteq Pids
  BY FamilyLives DEF Children, Alive
<1>4. Typed'
  BY <1>1, <1>2, <1>3 DEF Typed, TypeOK
<1>5. GoneIsNoticed'
  BY <1>1, <1>2, <1>3 DEF GoneIsNoticed, GoneCountedOnce
<1>6. MissingIsNew'
  BY <1>1, <1>2, <1>3 DEF MissingIsNew, GoneIsNoticed, Wanted
<1>7. HasLongThere'
  BY <1>1, <1>2, <1>3 DEF HasLongThere, Wanted
<1> QED
  BY <1>1, <1>2, <1>4, <1>5, <1>6, <1>7 DEF ObjectsSampled

\* Those of the user that live.
LEMMA FilterStep ==
    ASSUME CheckInv, setup' = setup, Filter
    PROVE  CheckInv'
<1> USE DEF CheckInv
<1>1. /\ setup \in Setups /\ now \in Nat /\ born \in Nat /\ phase = "filter" /\ phase' = "state"
      /\ UNCHANGED <<running, now, born, pid_cache, last_pid_cache_ts, ad_cache, last_ad_cache_ts, process_cache,
                     report, sampled, dead_runs>>
  BY DEF Filter, world, caches, history, Typed, TypeOK
<1>2. /\ Alive' = Alive /\ LongAgo' = LongAgo /\ PidDuration' = PidDuration /\ AdDuration' = AdDuration
      /\ Source' = Source /\ RefreshPids' = RefreshPids /\ RefreshDenied' = RefreshDenied
  BY <1>1 DEF Alive, LongAgo, PidDuration, AdDuration, Source, RefreshPids, RefreshDenied
<1>3. /\ pids' \subseteq pids
      /\ setup.user => pids' \subseteq Alive
      /\ ~setup.user => pids' = pids
      /\ \A p \in Alive \cap pids : ~running[p].denied /\ (setup.user => running[p].mine) => p \in pids'
  BY DEF Filter, DeniedOf
<1>4. Typed'
  BY <1>1, <1>2, <1>3 DEF Typed, TypeOK
<1>5. GoneIsNoticed'
  BY <1>1, <1>2, <1>3 DEF GoneIsNoticed, GoneCountedOnce
<1>6. MissingIsNew'
  BY <1>1, <1>2 DEF MissingIsNew, Wanted
<1>7. HasLongThere'
  BY <1>1, <1>2, <1>3 DEF HasLongThere, Wanted
<1> QED
  BY <1>1, <1>2, <1>4, <1>5, <1>6, <1>7 DEF ObjectsSampled

\* What a run submits: a process without which there is none any more resets the pid cache,
\* and the CPU time of an object that is not new is that of a process sampled before.
LEMMA StateStep ==
    ASSUME CheckInv, setup' = setup, State
    PROVE  CheckInv' /\ report'.pids = pids /\ report'.cpu \subseteq sampled
<1> USE DEF CheckInv
<1>1. /\ setup \in Setups /\ now \in Nat /\ born \in Nat /\ phase = "state" /\ phase' = "idle"
      /\ UNCHANGED <<running, now, born, pids, pid_cache, ad_cache, last_ad_cache_ts, dead_runs>>
  BY DEF State, world, Typed, TypeOK
<1>2. /\ Alive' = Alive /\ LongAgo' = LongAgo /\ PidDuration' = PidDuration /\ AdDuration' = AdDuration
      /\ Source' = Source /\ RefreshDenied' = RefreshDenied
  BY <1>1 DEF Alive, LongAgo, PidDuration, AdDuration, Source, RefreshDenied
<1>3. PICK shut \in SUBSET DeniedOf(pids \cap Alive), blind \in SUBSET DeniedOf(pids \cap Alive) :
        LET new == New \ {p \in blind : process_cache[p] # 0}
            missing == (pids \ Alive) \cup (shut \cap new)
            measured == pids \ missing
        IN  /\ process_cache' = [p \in Pids |->
                    IF p \notin pids THEN 0
                    ELSE IF p \in new \ shut THEN running[p].birth ELSE process_cache[p]]
            /\ last_pid_cache_ts' = AfterMissing(missing)
            /\ sampled' = {running[p].birth : p \in measured \ DeniedOf(measured)}
            /\ report' = [number |-> Cardinality(pids), status |-> Status(Cardinality(pids)), pids |-> pids,
                          cpu |-> {running[p].birth : p \in measured \ (new \cup DeniedOf(measured))}]
  BY DEF State
<1> DEFINE new == New \ {p \in blind : process_cache[p] # 0}
           missing == (pids \ Alive) \cup (shut \cap new)
           measured == pids \ missing
<1>4. /\ pids \subseteq Pids /\ Alive \subseteq Pids /\ new \subseteq pids \cap Alive
      /\ measured \subseteq pids \cap Alive
      /\ \A p \in pids \cap Alive : ~running[p].denied => p \in measured \ DeniedOf(measured) /\ p \notin shut
  BY DEF Typed, TypeOK, Alive, New, DeniedOf
<1>5. last_pid_cache_ts' = (IF missing = {} THEN last_pid_cache_ts ELSE LongAgo)
  BY <1>3 DEF AfterMissing
<1>6. missing # {} => RefreshPids'
  BY <1>1, <1>2, <1>5, DurationsAreNumbers DEF RefreshPids, LongAgo
<1>7. missing = {} => pids \subseteq Alive /\ last_pid_cache_ts' = last_pid_cache_ts /\ RefreshPids' = RefreshPids
  BY <1>1, <1>2, <1>5 DEF RefreshPids
<1>8. Typed'
  <2>1. process_cache' \in [Pids -> 0 .. born]
    <3>1. \A p \in Alive : running[p].birth \in 0 .. born
      BY <1>1 DEF Typed
    <3>2. \A p \in Pids : process_cache'[p] \in 0 .. born
      <4> SUFFICES ASSUME NEW p \in Pids PROVE process_cache'[p] \in 0 .. born
        OBVIOUS
      <4>1. process_cache'[p] \in {0, process_cache[p]} \/ (p \in Alive /\ process_cache'[p] = running[p].birth)
        BY <1>3, <1>4
      <4> QED
        BY <3>1, <4>1, <1>1 DEF Typed, TypeOK
    <3> QED
      BY <3>2, <1>3
  <2>2. report'.pids = pids /\ report'.number = Cardinality(pids) /\ report'.status \in {"OK", "WARNING", "CRITICAL"}
    BY <1>3 DEF Status
  <2>3. TypeOK'
    BY <1>1, <1>2, <1>4, <1>5, <2>1, <2>2 DEF Typed, TypeOK
  <2> QED
    BY <1>1, <1>2, <1>4, <2>2, <2>3 DEF Typed
<1>9. report'.pids = pids
  BY <1>3
<1>10. GoneIsNoticed'
  <2>1. GoneCountedOnce'
    BY <1>1, <1>9 DEF GoneIsNoticed, GoneCountedOnce
  <2> QED
    BY <1>1, <1>2, <1>6, <1>7, <2>1 DEF GoneIsNoticed
<1>11. MissingIsNew'
  BY <1>1, <1>2, <1>6, <1>7 DEF MissingIsNew, Wanted
<1>12. ObjectsSampled'
  <2>1. ASSUME NEW p \in Alive, ~running[p].denied, process_cache'[p] = running[p].birth
        PROVE  running[p].birth \in sampled'
    <3>1. p \in pids
      <4>1. running[p].birth \in 1 .. born /\ p \in Pids
        BY <1>4 DEF Typed
      <4>2. p \notin pids => process_cache'[p] = 0
        BY <1>3, <4>1
      <4> QED
        BY <1>1, <2>1, <4>1, <4>2
    <3>2. p \in measured \ DeniedOf(measured)
      BY <1>4, <2>1, <3>1
    <3> QED
      BY <1>3, <3>2
  <2> QED
    BY <1>1, <1>2, <2>1 DEF ObjectsSampled
<1>13. report'.cpu \subseteq sampled
  <2>1. ASSUME NEW p \in measured \ (new \cup DeniedOf(measured)) PROVE running[p].birth \in sampled
    <3>1. p \in pids \cap Alive /\ ~running[p].denied
      BY <1>4, <2>1 DEF DeniedOf
    <3>2. p \notin New
      BY <2>1, <3>1 DEF DeniedOf
    <3> QED
      BY <3>1, <3>2 DEF New, ObjectsSampled
  <2> QED
    BY <1>3, <2>1
<1> QED
  BY <1>1, <1>8, <1>10, <1>11, <1>12, <1>9, <1>13 DEF HasLongThere

\* A run ends by State.
LEMMA StateOnly ==
    ASSUME [Next]_vars, phase = "state", phase' = "idle"
    PROVE  State /\ UNCHANGED setup
BY DEF vars, Next, Spawn, Exit, Tick, TakePid, FromCache, Scan, Begin, Children, Filter

LEMMA CheckStep ==
    ASSUME CheckInv, [Next]_vars
    PROVE  CheckInv'
<1>1. CASE UNCHANGED vars
  BY <1>1 DEF CheckInv, vars, world, caches, history, Typed, TypeOK, Alive, LongAgo, PidDuration, AdDuration,
     Source, RefreshPids, RefreshDenied, GoneIsNoticed, GoneCountedOnce, MissingIsNew, HasLongThere, ObjectsSampled, Wanted
<1>2. CASE Next
  <2>1. ThePid \in Pids /\ FilePid \in Pids
    BY ProcessAssumption
  <2> QED
    BY <1>2, <2>1, SpawnStep, ExitStep, TickStep, TakePidStep, FromCacheStep, ScanStep, ChildrenStep, FilterStep,
       StateStep DEF Next
<1> QED
  BY <1>1, <1>2

\* The inductive invariant, for any processes, pids and durations.
THEOREM CheckInvHolds == Spec => []CheckInv
BY CheckInit, CheckStep, PTL DEF Spec

\* No run counts a process that was gone before the last one: find_pids may take it from
\* the pid cache once, and get_process_state then makes the cache too old to be used.
THEOREM ReportInvHolds == Spec => []ReportInv
<1>1. CheckInv => ReportInv
  BY DEF CheckInv, Typed, GoneIsNoticed, ReportInv
<1> QED
  BY <1>1, CheckInvHolds, PTL

\* Neither cache hides for long a process that is to be counted: whoever matches has been
\* there for no longer than both durations when a run leaves it out.
THEOREM FoundInTimeHolds == Spec => FoundInTime
<1>1. CheckInv /\ [Next]_vars =>
          [phase = "state" /\ phase' = "idle" /\ Source = "search_string" =>
              \A p \in Alive :
                  /\ running[p].match /\ ~running[p].denied /\ (setup.user => running[p].mine)
                  /\ now - running[p].start > PidDuration + AdDuration
                  => p \in report'.pids]_vars
  <2> SUFFICES ASSUME CheckInv, [Next]_vars, phase = "state", phase' = "idle", Source = "search_string",
                      NEW p \in Alive,
                      running[p].match, ~running[p].denied, setup.user => running[p].mine,
                      now - running[p].start > PidDuration + AdDuration
               PROVE  p \in report'.pids
    OBVIOUS
  <2>1. State /\ UNCHANGED setup
    BY StateOnly
  <2> QED
    BY <2>1, StateStep DEF CheckInv, HasLongThere, Wanted
<1> QED
  BY <1>1, CheckInvHolds, PTL DEF Spec, FoundInTime

\* A CPU time is of a process that the last run sampled, with the object it had then: the
\* pid of one that has ended never makes it that of another.
THEOREM SecondSample == Spec => CpuOfSecondSample
<1>1. CheckInv /\ [Next]_vars => [phase = "state" /\ phase' = "idle" => report'.cpu \subseteq sampled]_vars
  BY StateOnly, StateStep
<1> QED
  BY <1>1, CheckInvHolds, PTL DEF Spec, CpuOfSecondSample

\* What a run submits.
THEOREM RunsReportHolds == Spec => RunsReport
BY FoundInTimeHolds, SecondSample DEF RunsReport

-----------------------------------------------------------------------------
(***************************************************************************)
(* Hmc.                                                                    *)
(***************************************************************************)
\* The servers whose partitions are still to be sampled.
Ahead == left \cup (IF hmc_pc = "sample" /\ subsys = 1 THEN {server} ELSE {})

\* A run that lists the servers is the only one that samples them.
Sampling ==
    /\ ~refreshed => last_tm = {} /\ left = {} /\ extended = 0 /\ hmc_pc \notin {"servers", "sample"}
    /\ hmc_pc \in {"servers", "sample"} => \A s \in left, k \in 1 .. Len(SYSTEMS) : <<s, SYSTEMS[k]>> \notin last_tm
    /\ hmc_pc \in {"version", "refresh", "servers", "sample"} => version \in {Unbound, versions}
    /\ hmc_pc = "sample" =>
          version # Unbound /\ server \in HmcServers \ left /\ tags \cap HmcServers = {server}
    /\ extended <= Cardinality(HmcServers \ Ahead)

HmcInductive == HmcInv /\ Sampling

\* The subsystems, in their order.
LEMMA Systems ==
    /\ Len(SYSTEMS) = 5 /\ SYSTEMS[1] = "LPAR"
    /\ \A j, k \in 1 .. 5 : SYSTEMS[j] = SYSTEMS[k] => j = k
<1>1. Len(SYSTEMS) = 5
  BY DEF SYSTEMS
<1>2. /\ SYSTEMS[1] = "LPAR" /\ SYSTEMS[2] = "POOL" /\ SYSTEMS[3] = "PROCPOOL" /\ SYSTEMS[4] = "MEMPOOL"
      /\ SYSTEMS[5] = "SYS"
  BY DEF SYSTEMS
<1>3. \A k \in 1 .. 5 : k \in {1, 2, 3, 4, 5}
  OBVIOUS
<1> QED
  BY <1>1, <1>2, <1>3

\* Fewer servers ahead, fewer or as many that may have been sampled.
LEMMA FewerAhead ==
    ASSUME NEW A \in SUBSET HmcServers, NEW B \in SUBSET HmcServers, B \subseteq A
    PROVE  /\ Cardinality(HmcServers \ A) <= Cardinality(HmcServers \ B)
           /\ \A s \in A \ B : Cardinality(HmcServers \ A) + 1 <= Cardinality(HmcServers \ B)
           /\ Cardinality(HmcServers \ A) \in Nat /\ Cardinality(HmcServers \ B) \in Nat
           /\ Cardinality(HmcServers \ B) <= Cardinality(HmcServers) /\ Cardinality(HmcServers) \in Nat
<1>1. /\ IsFiniteSet(HmcServers) /\ IsFiniteSet(HmcServers \ B) /\ IsFiniteSet(HmcServers \ A)
      /\ HmcServers \ A \subseteq HmcServers \ B /\ HmcServers \ B \subseteq HmcServers
  BY HmcAssumption, FS_Subset
<1>2. ASSUME NEW s \in A \ B PROVE Cardinality(HmcServers \ A) + 1 <= Cardinality(HmcServers \ B)
  <2>1. (HmcServers \ A) \cup {s} \subseteq HmcServers \ B
    BY <1>1
  <2>2. Cardinality((HmcServers \ A) \cup {s}) = Cardinality(HmcServers \ A) + 1
    BY <1>1, FS_AddElement
  <2> QED
    BY <1>1, <2>1, <2>2, FS_Subset
<1> QED
  BY <1>1, <1>2, FS_Subset, FS_CardinalityType

\* Nothing is listed and nothing sampled.
LEMMA HmcStart == HmcInit => HmcInductive
<1> SUFFICES ASSUME HmcInit PROVE HmcInductive
  OBVIOUS
<1>1. Cardinality(HmcServers \ Ahead) \in Nat /\ Cardinality(HmcServers) \in Nat
  BY HmcAssumption, FS_Subset, FS_CardinalityType
<1>2. HmcTypeOK
  <2>1. hmc_runs \in 0 .. MaxHmcRuns /\ extended \in 0 .. Cardinality(HmcServers) /\ subsys \in 1 .. Len(SYSTEMS) + 1
    BY <1>1, Systems, HmcAssumption DEF HmcInit
  <2>2. {custom, refreshed} \subseteq BOOLEAN /\ {versions, version} \subseteq {0, 600, 700, 772, Unbound}
    BY DEF HmcInit
  <2> QED
    BY <2>1, <2>2 DEF HmcInit, HmcTypeOK
<1>3. ClientClosed /\ ManagedAsListed /\ OwnTags /\ SampledOnce
  BY DEF HmcInit, ClientClosed, ManagedAsListed, OwnTags, SampledOnce
<1>4. Sampling
  BY <1>1 DEF HmcInit, Sampling
<1> QED
  BY <1>2, <1>3, <1>4 DEF HmcInductive, HmcInv

\* A run that ends leaves its dictionaries.
LEMMA LeaveStep ==
    ASSUME HmcInductive, NEW how, Leave(how), hmc_pc # "idle", UNCHANGED <<instanceVars, sampling, points>>
    PROVE  HmcInductive'
<1> USE DEF HmcInductive, HmcInv
<1>1. /\ hmc_pc' = "idle" /\ client' = "closed"
      /\ UNCHANGED <<said, custom, version, listed, hmc_runs, versions, refreshed, managed, last_tm, extended, left,
                     server, subsys, tags, points>>
  BY DEF Leave, instanceVars, sampling
<1>2. HmcTypeOK'
  BY <1>1 DEF HmcTypeOK
<1>3. (ClientClosed /\ ManagedAsListed /\ OwnTags /\ SampledOnce)'
  BY <1>1 DEF ClientClosed, ManagedAsListed, OwnTags, SampledOnce
<1>4. extended' <= Cardinality(HmcServers \ Ahead')
  <2>1. Ahead \subseteq HmcServers /\ Ahead' \subseteq Ahead
    BY <1>1 DEF Ahead, Sampling, HmcTypeOK
  <2> QED
    <3>1. /\ Cardinality(HmcServers \ Ahead) <= Cardinality(HmcServers \ Ahead')
          /\ Cardinality(HmcServers \ Ahead) \in Nat /\ Cardinality(HmcServers \ Ahead') \in Nat
          /\ Cardinality(HmcServers) \in Nat
      BY <2>1, FewerAhead
    <3>2. extended \in Int /\ extended <= Cardinality(HmcServers \ Ahead)
      BY <3>1 DEF Sampling, HmcTypeOK
    <3> QED
      BY <1>1, <3>1, <3>2
<1>5. Sampling'
  BY <1>1, <1>4 DEF Sampling
<1> QED
  BY <1>2, <1>3, <1>5

\* Until the servers are listed nothing is sampled.
LEMMA BeforeRefreshStep ==
    ASSUME HmcInductive, BadConf \/ Connect \/ RunCustom \/ GetVersion
    PROVE  HmcInductive'
<1> USE DEF HmcInductive, HmcInv
<1>1. CASE BadConf
  <2>1. /\ UNCHANGED <<hmc_pc, client, said, custom, version, listed, versions, refreshed, managed, last_tm, extended,
                       left, server, subsys, tags, points>>
        /\ hmc_runs' \in 0 .. MaxHmcRuns
    BY <1>1, HmcAssumption DEF BadConf, instanceVars, sampling, HmcTypeOK
  <2>2. HmcTypeOK' /\ Ahead' = Ahead
    BY <2>1 DEF HmcTypeOK, Ahead
  <2> QED
    BY <2>1, <2>2 DEF ClientClosed, ManagedAsListed, OwnTags, SampledOnce, Sampling
<1>2. CASE Connect
  <2>1. /\ UNCHANGED <<custom, listed, versions, refreshed, managed, last_tm, extended, left, server, subsys, tags, points>>
        /\ hmc_runs' \in 0 .. MaxHmcRuns /\ version' = Unbound /\ hmc_pc = "idle"
        /\ \/ said' = "OK" /\ client' = "open" /\ hmc_pc' \in {"custom", "version"}
           \/ said' = "CRITICAL" /\ client' = "closed" /\ hmc_pc' = "idle"
    BY <1>2, HmcAssumption DEF Connect, instanceVars, sampling, HmcTypeOK
  <2>2. HmcTypeOK' /\ Ahead' = Ahead
    BY <2>1 DEF HmcTypeOK, Ahead
  <2> QED
    BY <2>1, <2>2 DEF ClientClosed, ManagedAsListed, OwnTags, SampledOnce, Sampling
<1>3. CASE RunCustom
  BY <1>3, LeaveStep DEF RunCustom
<1>4. CASE GetVersion
  <2>1. CASE versions = Unbound /\ Leave("raises") /\ UNCHANGED versions
    BY <1>4, <2>1, LeaveStep DEF GetVersion, instanceVars
  <2>2. CASE ~(versions = Unbound /\ Leave("raises") /\ UNCHANGED versions)
    <3>1. /\ UNCHANGED <<client, said, custom, listed, hmc_runs, refreshed, managed, last_tm, extended, left, server,
                         subsys, tags, points>>
          /\ hmc_pc = "version" /\ hmc_pc' = "refresh"
          /\ \/ versions = Unbound /\ versions' \in {0, 600, 700, 772} /\ version' = versions'
             \/ versions # Unbound /\ versions' = versions /\ version' = version
      BY <1>4, <2>2 DEF GetVersion, Goto, sampling
    <3>2. HmcTypeOK' /\ Ahead' = Ahead
      BY <3>1 DEF HmcTypeOK, Ahead
    \* The check has come from Connect, which forgets the version.
    <3>3. version' \in {Unbound, versions'}
      BY <3>1 DEF Sampling
    <3>4. SampledOnce'
      BY <3>1 DEF SampledOnce
    <3> QED
      BY <3>1, <3>2, <3>3, <3>4 DEF ClientClosed, ManagedAsListed, OwnTags, Sampling
  <2> QED
    BY <2>1, <2>2
<1> QED
  BY <1>1, <1>2, <1>3, <1>4

\* A refresh that comes to its end is the first: it finds what earlier ones have left, and
\* nothing is sampled yet.
LEMMA RefreshStep ==
    ASSUME HmcInductive, Refresh
    PROVE  HmcInductive'
<1> USE DEF HmcInductive, HmcInv
<1>1. /\ hmc_pc = "refresh"
      /\ UNCHANGED <<versions, extended, server, subsys, tags, points>>
  BY DEF Refresh
<1>2. CASE Leave("raises") /\ UNCHANGED <<refreshed, managed, left, last_tm>>
  BY <1>1, <1>2, LeaveStep DEF instanceVars, sampling
<1>3. ASSUME ~refreshed, Leave("raises"), managed' \subseteq HmcServers, last_tm' \subseteq last_tm, UNCHANGED <<refreshed, left>>
      PROVE  HmcInductive'
  <2>1. /\ hmc_pc' = "idle" /\ client' = "closed" /\ last_tm = {} /\ left = {} /\ extended = 0
        /\ UNCHANGED <<said, custom, version, listed, hmc_runs>>
    BY <1>3 DEF Leave, Sampling
  <2>2. HmcTypeOK'
    BY <1>1, <1>3, <2>1 DEF HmcTypeOK
  <2>3. (ClientClosed /\ ManagedAsListed /\ OwnTags /\ SampledOnce)'
    BY <1>1, <1>3, <2>1 DEF ClientClosed, ManagedAsListed, OwnTags, SampledOnce
  <2>4. extended' <= Cardinality(HmcServers \ Ahead')
    <3>1. Ahead' \subseteq HmcServers
      BY <1>3, <2>1 DEF Ahead
    <3>2. Cardinality(HmcServers \ Ahead') \in Nat
      BY <3>1, FewerAhead
    <3> QED
      BY <1>1, <2>1, <3>2
  <2> QED
    BY <1>1, <1>3, <2>1, <2>2, <2>3, <2>4 DEF Sampling
<1>4. ASSUME ~refreshed, NEW list \in SUBSET HmcServers, Forget(list) = {},
             managed' = managed \cup list, refreshed' = TRUE, listed' = list, left' = managed', hmc_pc' = "servers",
             UNCHANGED <<client, said, custom, version, hmc_runs, last_tm>>
      PROVE  HmcInductive'
  <2>1. managed' = list /\ last_tm = {} /\ extended = 0
    BY <1>4 DEF Forget, Sampling
  <2>2. HmcTypeOK'
    BY <1>1, <1>4, <2>1 DEF HmcTypeOK
  <2>3. (ClientClosed /\ ManagedAsListed /\ OwnTags /\ SampledOnce)'
    BY <1>1, <1>4, <2>1 DEF ClientClosed, ManagedAsListed, OwnTags, SampledOnce
  <2>4. extended' <= Cardinality(HmcServers \ Ahead')
    <3>1. Ahead' \subseteq HmcServers
      BY <1>4, <2>1 DEF Ahead
    <3>2. Cardinality(HmcServers \ Ahead') \in Nat
      BY <3>1, FewerAhead
    <3> QED
      BY <1>1, <2>1, <3>2
  <2>5. version' \in {Unbound, versions'}
    BY <1>1, <1>4 DEF Sampling
  <2> QED
    BY <1>1, <1>4, <2>1, <2>2, <2>3, <2>4, <2>5 DEF Sampling
<1>5. \A list \in SUBSET HmcServers : managed \cup list \subseteq HmcServers
  BY DEF HmcTypeOK
<1> QED
  BY <1>2, <1>3, <1>4, <1>5 DEF Refresh

\* The next server is sampled when this run knows the version.
LEMMA NextServerStep ==
    ASSUME HmcInductive, NextServer
    PROVE  HmcInductive'
<1> USE DEF HmcInductive, HmcInv
<1>1. PICK s \in left :
          /\ left' = left \ {s}
          /\ \/ /\ Leave("raises")
                /\ UNCHANGED <<server, subsys, tags>>
             \/ /\ Goto("servers")
                /\ UNCHANGED <<version, server, subsys, tags>>
             \/ /\ version # Unbound
                /\ server' = s
                /\ subsys' = 1
                /\ tags' = {s}
                /\ Goto("sample")
                /\ UNCHANGED version
  BY DEF NextServer
<1>2. /\ hmc_pc = "servers" /\ left \subseteq HmcServers /\ left' \subseteq HmcServers /\ s \in HmcServers \ left'
      /\ UNCHANGED <<versions, refreshed, managed, last_tm, extended, points, said, custom, version, listed, hmc_runs>>
  BY <1>1 DEF NextServer, instanceVars, Leave, Goto, HmcTypeOK
<1>3. \/ /\ hmc_pc' = "idle" /\ client' = "closed" /\ UNCHANGED <<server, subsys, tags>>
      \/ /\ hmc_pc' = "servers" /\ client' = client /\ UNCHANGED <<server, subsys, tags>>
      \/ /\ hmc_pc' = "sample" /\ client' = client /\ version # Unbound
         /\ server' = s /\ subsys' = 1 /\ tags' = {s}
  BY <1>1 DEF Leave, Goto
<1>4. HmcTypeOK'
  <2>1. subsys' \in 1 .. Len(SYSTEMS) + 1
    BY <1>3, Systems DEF HmcTypeOK
  <2> QED
    BY <1>2, <1>3, <2>1 DEF HmcTypeOK
<1>5. ClientClosed'
  BY <1>2, <1>3 DEF ClientClosed
<1>6. ManagedAsListed' /\ OwnTags'
  BY <1>1, <1>2 DEF ManagedAsListed, OwnTags
<1>7. SampledOnce'
  BY <1>1, <1>2, <1>3, Systems DEF SampledOnce, Sampling
<1>8. extended' <= Cardinality(HmcServers \ Ahead')
  <2>1. Ahead = left /\ Ahead' \subseteq left
    BY <1>1, <1>2, <1>3 DEF Ahead
  <2>2. /\ Cardinality(HmcServers \ Ahead) <= Cardinality(HmcServers \ Ahead')
        /\ Cardinality(HmcServers \ Ahead) \in Nat /\ Cardinality(HmcServers \ Ahead') \in Nat
        /\ Cardinality(HmcServers) \in Nat
    BY <1>2, <2>1, FewerAhead
  <2>3. extended \in Int /\ extended <= Cardinality(HmcServers \ Ahead)
    BY <2>2 DEF Sampling, HmcTypeOK
  <2> QED
    BY <1>2, <2>2, <2>3
<1>9. Sampling'
  BY <1>1, <1>2, <1>3, <1>8 DEF Sampling
<1> QED
  BY <1>4, <1>5, <1>6, <1>7, <1>9

\* The columns are extended once for a server.
LEMMA SampleStep ==
    ASSUME HmcInductive, Sample
    PROVE  HmcInductive'
<1> USE DEF HmcInductive, HmcInv
<1> DEFINE k == SYSTEMS[subsys]
<1>1. /\ hmc_pc = "sample" /\ subsys \in 1 .. 5 /\ refreshed
      /\ version = versions /\ version # Unbound /\ version \in {0, 600, 700, 772, Unbound}
      /\ server \in HmcServers \ left /\ left \subseteq HmcServers
      /\ tags \cap HmcServers = {server} /\ tags \subseteq HmcServers \cup Lpars
      /\ UNCHANGED <<versions, refreshed, managed, left, server, said, custom, version, listed, hmc_runs>>
  BY Systems DEF Sample, Leave, Goto, HmcTypeOK, SampledOnce, Sampling
<1>2. \/ hmc_pc' = "idle" /\ client' = "closed" /\ UNCHANGED <<last_tm, subsys, tags, points>>
      \/ /\ hmc_pc' = "sample" /\ client' = client /\ subsys' = subsys + 1
         /\ k = "LPAR" => version # 0
         /\ \/ UNCHANGED <<last_tm, tags, points>>
            \/ /\ last_tm' = last_tm \cup {<<server, k>>}
               /\ \E names \in SUBSET Lpars : tags' = Tagged(names)
               /\ points' = points \cup {<<server, tags'>>}
  BY DEF Sample, Leave, Goto, Columns
<1>3. /\ tags' \cap HmcServers = {server} /\ tags' \subseteq HmcServers \cup Lpars
      /\ points' \subseteq points \cup {<<server, tags'>>}
  BY <1>1, <1>2, HmcAssumption DEF Tagged
<1>4. Ahead \subseteq HmcServers /\ Ahead' \subseteq Ahead /\ (subsys = 1 => server \in Ahead \ Ahead')
  BY <1>1, <1>2 DEF Ahead
<1>5. extended' \in Nat /\ extended' <= Cardinality(HmcServers \ Ahead') /\ extended' <= Cardinality(HmcServers)
  <2>1. /\ Cardinality(HmcServers \ Ahead) <= Cardinality(HmcServers \ Ahead')
        /\ Cardinality(HmcServers \ Ahead) \in Nat /\ Cardinality(HmcServers \ Ahead') \in Nat
        /\ Cardinality(HmcServers) \in Nat /\ Cardinality(HmcServers \ Ahead') <= Cardinality(HmcServers)
        /\ subsys = 1 => Cardinality(HmcServers \ Ahead) + 1 <= Cardinality(HmcServers \ Ahead')
    BY <1>4, FewerAhead
  <2>2. extended \in Nat /\ extended <= Cardinality(HmcServers \ Ahead)
    BY <2>1 DEF Sampling, HmcTypeOK
  <2>3. extended' = extended \/ (subsys = 1 /\ extended' = extended + 1)
    <3>1. k = "LPAR" => subsys = 1
      BY <1>1, Systems
    <3> QED
      BY <3>1 DEF Sample, Columns
  <2> QED
    BY <2>1, <2>2, <2>3
<1>6. HmcTypeOK'
  <2>1. k \in {SYSTEMS[j] : j \in 1 .. Len(SYSTEMS)}
    BY <1>1, Systems
  <2>2. last_tm' \subseteq HmcServers \X {SYSTEMS[j] : j \in 1 .. Len(SYSTEMS)}
    BY <1>1, <1>2, <2>1 DEF HmcTypeOK
  <2>3. subsys' \in 1 .. Len(SYSTEMS) + 1
    BY <1>1, <1>2, Systems
  <2>4. extended' \in 0 .. Cardinality(HmcServers)
    BY <1>4, <1>5, FewerAhead
  <2> QED
    BY <1>1, <1>2, <1>3, <2>2, <2>3, <2>4 DEF HmcTypeOK
<1>7. ClientClosed' /\ ManagedAsListed'
  BY <1>1, <1>2 DEF ClientClosed, ManagedAsListed
<1>8. OwnTags'
  BY <1>3 DEF OwnTags
<1>9. SampledOnce'
  <2>1. hmc_pc' = "sample" => \A j \in subsys' .. Len(SYSTEMS) : <<server', SYSTEMS[j]>> \notin last_tm'
    <3> SUFFICES ASSUME hmc_pc' = "sample", NEW j \in subsys' .. Len(SYSTEMS)
                 PROVE  <<server, SYSTEMS[j]>> \notin last_tm'
      BY <1>1
    <3>1. j \in 1 .. 5 /\ j # subsys /\ j \in subsys .. Len(SYSTEMS)
      BY <1>1, <1>2, Systems
    <3>2. SYSTEMS[j] # k /\ <<server, SYSTEMS[j]>> \notin last_tm
      BY <1>1, <3>1, Systems DEF SampledOnce
    <3> QED
      BY <1>2, <3>2
  <2>2. \A s \in HmcServers : <<s, "LPAR">> \in last_tm' => versions' \notin {0, Unbound}
    BY <1>1, <1>2 DEF SampledOnce
  <2> QED
    BY <1>1, <2>1, <2>2 DEF SampledOnce
<1>10. Sampling'
  <2>1. \A s \in left', j \in 1 .. Len(SYSTEMS) : <<s, SYSTEMS[j]>> \notin last_tm'
    BY <1>1, <1>2 DEF Sampling
  <2> QED
    BY <1>1, <1>2, <1>3, <1>5, <2>1 DEF Sampling
<1> QED
  BY <1>6, <1>7, <1>8, <1>9, <1>10

\* The next server has a number of its own to begin with.
LEMMA SampledAllStep ==
    ASSUME HmcInductive, SampledAll
    PROVE  HmcInductive'
<1> USE DEF HmcInductive, HmcInv
<1>1. /\ hmc_pc = "sample" /\ hmc_pc' = "servers" /\ subsys # 1 /\ server' = NoServer
      /\ UNCHANGED <<client, said, custom, listed, hmc_runs, version, versions, refreshed, managed, last_tm, extended,
                     left, subsys, tags, points>>
  BY Systems DEF SampledAll, Goto, instanceVars
<1>2. HmcTypeOK' /\ Ahead' = Ahead
  BY <1>1 DEF HmcTypeOK, Ahead
<1>3. (ClientClosed /\ ManagedAsListed /\ OwnTags /\ SampledOnce)'
  BY <1>1 DEF ClientClosed, ManagedAsListed, OwnTags, SampledOnce
<1>4. Sampling'
  BY <1>1, <1>2 DEF Sampling
<1> QED
  BY <1>2, <1>3, <1>4

\* Every step.
LEMMA HmcStep ==
    ASSUME HmcInductive, [HmcNext]_hmcVars
    PROVE  HmcInductive'
<1>1. CASE UNCHANGED hmcVars
  BY <1>1 DEF hmcVars, instanceVars, sampling, HmcInductive, HmcInv, HmcTypeOK, ClientClosed, ManagedAsListed, OwnTags,
     SampledOnce, Sampling, Ahead
<1>2. CASE Console
  BY <1>2, LeaveStep DEF Console
<1> QED
  BY <1>1, <1>2, BeforeRefreshStep, RefreshStep, NextServerStep, SampleStep, SampledAllStep DEF HmcNext

\* For any servers, partitions and number of runs, whichever command fails: each run closes
\* its connection, the servers are those of one complete list, a sample carries the name of
\* its server and of no other, and nothing is sampled twice.
THEOREM HmcInvHolds == HmcSpec => []HmcInv
<1>1. HmcInductive => HmcInv
  BY DEF HmcInductive
<1> QED
  BY <1>1, HmcStart, HmcStep, PTL DEF HmcSpec
=============================================================================
