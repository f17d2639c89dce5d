------------------------------ MODULE Collector ------------------------------
(***************************************************************************)
(* The thread of the AgentRunner (agent.py): the host metadata, then the   *)
(* run_checks of the Collector (collector/collector.py), which runs every  *)
(* check that is due, then the push of what they submitted, then a sleep.  *)
(* The stop of the thread is part of AgentLifecycle.                       *)
(*                                                                         *)
(* Times are counted from the events they are compared with, so the clock  *)
(* needs no bound: the seconds since a check was last started stop at      *)
(* Ages, which no property can tell from more.                             *)
(***************************************************************************)
EXTENDS Integers, Sequences, FiniteSets, FiniteSetsExt

CONSTANTS
    Order,           \* the check instances, in the order of _check_instances
    Interval,        \* instance -> its min_collection_interval, clamped
    SLEEP,           \* min_collection_interval of the agent
    META_INTERVAL,   \* host_metadata_interval
    Durations,       \* how long a check, or the metadata, may take
    MaxFailures,     \* bound: failures of the metadata in a row
    Ages             \* bound: where counted seconds stop

Instances == {Order[i] : i \in 1 .. Len(Order)}

ASSUME CollectorAssumption ==
    /\ Order \in Seq(Instances)
    /\ Interval \in [Instances -> Nat \ {0}]
    /\ {SLEEP, META_INTERVAL} \subseteq Nat \ {0}
    /\ Ages \in Nat /\ \A c \in Instances : Interval[c] < Ages
    /\ Durations \subseteq 0 .. Ages /\ \E longest \in Durations : \A d \in Durations : d <= longest
    /\ MaxFailures \in Nat

VARIABLES
    pc,          \* where the thread is
    next,        \* the place in Order that run_checks has come to
    since,       \* seconds since _last_run_time of each instance
    meta_since,  \* seconds since _meta_ts, Ages when there is none
    errors,      \* _check_instance_errors: the instances with an error
    status,      \* runtime_errors as the status shows them
    failures,    \* history: failures of the metadata since the checks ran
    failed,      \* history: the instances whose last run failed
    unflushed    \* history: seconds since the aggregator was flushed

collectorVars == <<pc, next, since, meta_since, errors, status, failures, failed, unflushed>>

Older(age, d) == IF age + d < Ages THEN age + d ELSE Ages

\* d seconds pass.
Pass(d) ==
    /\ since' = [c \in Instances |-> Older(since[c], d)]
    /\ meta_since' = Older(meta_since, d)
    /\ unflushed' = Older(unflushed, d)

CollectorInit ==
    /\ pc = "metadata"
    /\ next = 1
    \* _last_run_time = 0: the time since boot, of which no more counts than makes it due
    /\ since \in {[c \in Instances |-> Min({up, Interval[c]})] : up \in 0 .. Ages}
    /\ meta_since = Ages
    /\ errors = {}
    /\ status = {}
    /\ failures = 0
    /\ failed = {}
    /\ unflushed = 0

-----------------------------------------------------------------------------
(***************************************************************************)
(* AgentRunner.collection                                                  *)
(***************************************************************************)
MetadataDue == meta_since >= META_INTERVAL

NoMetadata ==
    /\ pc = "metadata"
    /\ ~MetadataDue
    /\ pc' = "checks"
    /\ next' = 1
    /\ UNCHANGED <<since, meta_since, errors, status, failures, failed, unflushed>>

\* _meta_ts is the time at which the loop began.
Metadata(d) ==
    /\ pc = "metadata"
    /\ MetadataDue
    /\ pc' = "checks"
    /\ next' = 1
    /\ since' = [c \in Instances |-> Older(since[c], d)]
    /\ meta_since' = d
    /\ unflushed' = Older(unflushed, d)
    /\ UNCHANGED <<errors, status, failures, failed>>

\* An exception ends this turn of the loop: the checks are not run.
MetadataFails(d) ==
    /\ pc = "metadata"
    /\ MetadataDue
    /\ failures < MaxFailures
    /\ failures' = failures + 1
    /\ pc' = "sleep"
    /\ Pass(d)
    /\ UNCHANGED <<next, errors, status, failed>>

\* Mutant: what the checks submitted is kept for a later turn.
PushNothing(d) ==
    /\ pc = "push"
    /\ pc' = "sleep"
    /\ Pass(d)
    /\ failures' = 0
    /\ UNCHANGED <<next, errors, status, failed>>

\* serialize_and_push flushes the aggregator first, whether or not it fails later.
Push(d) ==
    /\ pc = "push"
    /\ pc' = "sleep"
    /\ since' = [c \in Instances |-> Older(since[c], d)]
    /\ meta_since' = Older(meta_since, d)
    /\ unflushed' = d
    /\ failures' = 0
    /\ UNCHANGED <<next, errors, status, failed>>

Sleep ==
    /\ pc = "sleep"
    /\ pc' = "metadata"
    /\ Pass(SLEEP)
    /\ UNCHANGED <<next, errors, status, failures, failed>>

-----------------------------------------------------------------------------
(***************************************************************************)
(* Collector.run_checks                                                    *)
(***************************************************************************)
AtCheck(c) == pc = "checks" /\ next <= Len(Order) /\ c = Order[next]

\* Mutant: the check waits for more than its interval.
PastInterval(c) == since[c] > Interval[c]

Due(c) == since[c] >= Interval[c]

Skip(c) ==
    /\ AtCheck(c)
    /\ ~Due(c)
    /\ next' = next + 1
    /\ UNCHANGED <<pc, since, meta_since, errors, status, failures, failed, unflushed>>

\* What _check_instance_errors holds after a run of c.
Noted(c, fails) == IF fails THEN errors \cup {c} ELSE errors

\* The run of a check takes d seconds and fails or not: AgentCheck.run returns the
\* exception.  Either way _last_run_time is the time before it.
Run(c, d, fails) ==
    /\ AtCheck(c)
    /\ Due(c)
    /\ next' = next + 1
    /\ since' = [e \in Instances |-> IF e = c THEN d ELSE Older(since[e], d)]
    /\ meta_since' = Older(meta_since, d)
    /\ unflushed' = Older(unflushed, d)
    /\ errors' = Noted(c, fails)
    /\ failed' = IF fails THEN failed \cup {c} ELSE failed \ {c}
    /\ UNCHANGED <<pc, status, failures>>

\* Mutant: the errors are published before the checks have run.
PublishNothing ==
    /\ pc = "checks"
    /\ next > Len(Order)
    /\ pc' = "push"
    /\ UNCHANGED <<next, since, meta_since, errors, status, failures, failed, unflushed>>

Publish ==
    /\ pc = "checks"
    /\ next > Len(Order)
    /\ pc' = "push"
    /\ status' = errors
    /\ UNCHANGED <<next, since, meta_since, errors, failures, failed, unflushed>>

RunSome(c) == \E d \in Durations, fails \in BOOLEAN : Run(c, d, fails)

CollectorNext ==
    \/ NoMetadata
    \/ \E d \in Durations : Metadata(d) \/ MetadataFails(d) \/ Push(d)
    \/ \E c \in Instances : Skip(c) \/ RunSome(c)
    \/ Publish \/ Sleep

CollectorSpec == CollectorInit /\ [][CollectorNext]_collectorVars

-----------------------------------------------------------------------------
CollectorTypeOK ==
    /\ pc \in {"metadata", "checks", "push", "sleep"}
    /\ next \in 1 .. Len(Order) + 1
    /\ since \in [Instances -> 0 .. Ages]
    /\ {meta_since, unflushed} \subseteq 0 .. Ages
    /\ {errors, status, failed} \subseteq SUBSET Instances
    /\ failures \in 0 .. MaxFailures

Slowest == Max(Durations)

\* How long a turn of the loop may take when n checks run in it.
Turn(n) == SLEEP + (n + 2) * Slowest

\* However its turns fall, a check starts less than a turn of all the others after it
\* is due, or after its last run has ended if that took longer than the interval, and a
\* sleep and a metadata request later for every failure of the metadata.
NeverLate ==
    \A c \in Instances :
        since[c] <= Max({Interval[c] - 1, Slowest}) + Turn(Len(Order) - 1)
                        + failures * (SLEEP + Slowest)

\* The aggregator is flushed in time for ExpiryHolds of MetricsAggregator:
\* turns without metadata and their checks lie between two flushes.
FlushedInTime == unflushed <= Turn(Len(Order)) + failures * (SLEEP + Slowest)

\* After run_checks the status has the error of every check whose last run failed.
ErrorsPublished == pc # "checks" => failed \subseteq status

\* The turns of the collection keep their time, and publish the errors of their checks.
CollectorInv == CollectorTypeOK /\ NeverLate /\ FlushedInTime /\ ErrorsPublished
==============================================================================
