----------------------------- MODULE StatusPage -----------------------------
(***************************************************************************)
(* The list of checks on the status page.  The API thread                  *)
(* (api/handlers.py) builds it from two snapshots, one of the collector's  *)
(* status and a later one of the aggregator's, while the collection thread *)
(* runs checks and flushes (collector/collector.py,                        *)
(* aggregator/aggregator.py).                                              *)
(*                                                                         *)
(* Which checks are due is left open here; Collector has the intervals.    *)
(***************************************************************************)
EXTENDS Integers, FiniteSets, FiniteSetsExt

CONSTANTS
    PageInstances, \* the check instances
    Named,         \* those with a name in their configuration
    Contexts,      \* bound: the metric contexts an instance may submit
    MaxRuns        \* bound: runs of all instances

ASSUME StatusAssumption == Named \subseteq PageInstances /\ MaxRuns \in Nat \ {0}

VARIABLES
    step,            \* where the collection thread is
    ran,             \* the instances that have had their chance in this turn
    runs,            \* total_runs of each instance
    instance_errors, \* _check_instance_errors
    sources,         \* aggregator: instance -> contexts it ever submitted
    checks,          \* aggregator: service_check_sources
    events,          \* aggregator: event_sources
    info,            \* what the statistics of aggregator and collector hold of these
    handler,         \* whether the API thread is between its snapshots
    errors_seen,     \* the runtime_errors of the first snapshot
    page             \* the last page: instance id -> what it shows

collection == <<step, ran, runs, instance_errors, sources, checks, events, info>>
api == <<handler, errors_seen, page>>
pageVars == <<collection, api>>

Zero == [i \in PageInstances |-> 0]

PageInit ==
    /\ step = "checks"
    /\ ran = {}
    /\ runs = Zero
    /\ instance_errors = {}
    /\ sources = [i \in PageInstances |-> {}]
    /\ checks = Zero
    /\ events = Zero
    /\ info = [sources |-> Zero, checks |-> Zero, events |-> Zero, errors |-> {}]
    /\ handler = "idle"
    /\ errors_seen = {}
    /\ page = << >>

-----------------------------------------------------------------------------
(***************************************************************************)
(* The collection thread                                                   *)
(***************************************************************************)
NotDue(i) ==
    /\ step = "checks" /\ i \notin ran
    /\ ran' = ran \cup {i}
    /\ UNCHANGED <<step, runs, instance_errors, sources, checks, events, info, api>>

\* Instance i submits metrics, a service check and an event, or not, and fails or not.
RunInstance(i, contexts, sc, ev, fails) ==
    /\ step = "checks" /\ i \notin ran
    /\ MapThenSumSet(LAMBDA j : runs[j], PageInstances) < MaxRuns
    /\ ran' = ran \cup {i}
    /\ runs' = [runs EXCEPT ![i] = @ + 1]
    /\ sources' = [sources EXCEPT ![i] = @ \cup contexts]
    /\ checks' = [checks EXCEPT ![i] = @ + sc]
    /\ events' = [events EXCEPT ![i] = @ + ev]
    /\ instance_errors' = IF fails THEN instance_errors \cup {i} ELSE instance_errors
    /\ UNCHANGED <<step, info, api>>

PublishErrors ==
    /\ step = "checks" /\ ran = PageInstances
    /\ step' = "flush"
    /\ info' = [info EXCEPT !.errors = instance_errors]
    /\ UNCHANGED <<ran, runs, instance_errors, sources, checks, events, api>>

FlushMetrics ==
    /\ step = "flush"
    /\ step' = "flush_service_checks"
    /\ info' = [info EXCEPT !.sources = [i \in PageInstances |-> Cardinality(sources[i])]]
    /\ UNCHANGED <<ran, runs, instance_errors, sources, checks, events, api>>

FlushServiceChecks ==
    /\ step = "flush_service_checks"
    /\ step' = "flush_events"
    /\ info' = [info EXCEPT !.checks = checks]
    /\ checks' = Zero
    /\ UNCHANGED <<ran, runs, instance_errors, sources, events, api>>

FlushEvents ==
    /\ step = "flush_events"
    /\ step' = "checks"
    /\ ran' = {}
    /\ info' = [info EXCEPT !.events = events]
    /\ events' = Zero
    /\ UNCHANGED <<runs, instance_errors, sources, checks, api>>

-----------------------------------------------------------------------------
(***************************************************************************)
(* The API thread: AgentStatusHandler.get and process_agent_info           *)
(***************************************************************************)
SnapCollector ==
    /\ handler = "idle"
    /\ handler' = "agent"
    /\ errors_seen' = info.errors
    /\ UNCHANGED <<collection, page>>

\* The instance id, with the name if there is one; that of an event has none.
Id(i) == <<i, i \in Named>>
EventId(i) == <<i, FALSE>>

Submitters(counts) == {i \in PageInstances : counts[i] > 0}

\* Mutant: an error only goes to an entry that is there.
EntriesOfSubmitters ==
    {Id(i) : i \in Submitters(info.sources) \cup Submitters(info.checks)}
        \cup {EventId(i) : i \in Submitters(info.events)}

Entries ==
    {Id(i) : i \in Submitters(info.sources) \cup Submitters(info.checks) \cup errors_seen}
        \cup {EventId(i) : i \in Submitters(info.events)}

Entry(id) ==
    LET i == id[1] IN
    [metrics |-> IF id = Id(i) THEN info.sources[i] ELSE 0,
     service_checks |-> IF id = Id(i) THEN info.checks[i] ELSE 0,
     events |-> IF id = EventId(i) THEN info.events[i] ELSE 0,
     error |-> id = Id(i) /\ i \in errors_seen]

SnapAgent ==
    /\ handler = "agent"
    /\ handler' = "idle"
    /\ page' = [id \in Entries |-> Entry(id)]
    /\ UNCHANGED <<collection, errors_seen>>

PageNext ==
    \/ \E i \in PageInstances :
        \/ NotDue(i)
        \/ \E contexts \in SUBSET Contexts, sc, ev \in 0 .. 1, fails \in BOOLEAN :
              RunInstance(i, contexts, sc, ev, fails)
    \/ PublishErrors \/ FlushMetrics \/ FlushServiceChecks \/ FlushEvents
    \/ SnapCollector \/ SnapAgent

PageSpec == PageInit /\ [][PageNext]_pageVars

-----------------------------------------------------------------------------
\* An instance whose error was published before the request began is on the page with
\* it, and no entry without a failure has one.
ErrorsReachPage ==
    [][SnapAgent =>
        {id \in DOMAIN page' : page'[id].error} = {Id(i) : i \in errors_seen}]_pageVars
=============================================================================
