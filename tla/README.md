# A specification of the Datadog Unix Agent

TLA+ modules of the parts of the agent that keep state, TLC configurations that
check them on small instances, and proofs, for every instance, of nearly all that these runs
check of safety: of the Forwarder, the aggregators, the Serializer and the Collector, of
the way from a check to the intake, the Daemon and the agent's life cycle, the configurations and
the loading of checks, the inventory, the status page, dogstatsd's packets, the HTTP wrapper, the
process and hmc checks and the flare command. All source paths are relative to `src/`.

1. [The system](#1-the-system): components, state, interactions, what is hard
2. [Modules](#2-modules): what stands for what
3. [Runs](#3-runs): what each checks, its bounds, what it shows
4. [Fairness](#4-fairness)
5. [Proofs](#5-proofs)
6. [Disagreements](#6-disagreements-between-code-and-text) between code and text
7. [What is not modelled](#7-what-is-not-modelled)
8. [Plan](#8-plan)

To check a run: `tlc -config <cfg> <module>`; the pairs are in section 3. To check
the proofs: `tlapm` on each of `ForwarderProofs.tla`, `BucketAggregatorProofs.tla`,
`BucketThreadsProofs.tla`, `MetricsProofs.tla`, `CollectionProofs.tla`, `ProcessProofs.tla`,
`PipelineProofs.tla` and `InputProofs.tla`.

## 1. The system

The agent is one Python process with these threads:

    main            Agent.run: loads everything, starts the threads, joins them
    SignalHandler   reads a pipe, stops the components one after the other
    AgentRunner     metadata, run_checks, serialize_and_push, sleep; for ever
    APIServer       tornado loop, serves the status page
    Workers, RetryWorker   the threads of the Forwarder
    dogstatsd Server, Reporter   receive datagrams; flush them (if enabled)

They meet in three places: the **aggregators** (checks and packets write, a push
reads and clears), the **Forwarder's queues** (pushes write, Workers read), and
the **status** objects that the API reads. Only the queues have locks.

| component (source) | state | operations | what is hard | what makes it correct |
|---|---|---|---|---|
| Forwarder (`forwarder/`) | `input_queue`, `retry_queue` of 100, the RetryWorker's list, `next_flush` and `nb_try` of a transaction, exit events, counters | `submit_v1_*`, Worker loop, RetryWorker loop, `start`, `stop` | full queues, an intake that is away, stop in the middle of a POST | no payload lost without a logged end, or sent by two threads, or before its back-off is over; what has no room is dropped from the oldest end |
| MetricsBucketAggregator (`aggregator/`) | `metric_by_bucket`, `last_sample_time_by_context`, the cache `current_bucket`/`current_mbc`, `metric_count` | `submit_metric`, `flush` | two threads and no lock; late samples; zeroes of counters | a sample is reported once, in its bucket |
| MetricsAggregator and metric types (`aggregator/`) | `metrics` by context, `sources`, `metric_count`, per-class values | `submit_metric`, `flush` | expiry; classes that bridge flushes | a flush reports what the class promises of the samples since the last |
| Agent process (`agent.py`, `utils/signals.py`, `api/server.py`, `dogstatsd/`) | threads, the pipe, `_stop_flag`, `_event`, `_ioloop`, `should_run` | start, signal, stop of each component, join | a signal at any moment of a start; a component that fails | it ends, and leaves nothing running |
| Daemon (`utils/daemon.py`) | the pidfile, processes | `start`, `stop`, `restart`, exit handler | check then act on a file; crashes | one instance, named by the pidfile |
| AgentRunner and Collector (`agent.py`, `collector/collector.py`) | `_last_run_time`, errors, the time of the metadata | a turn: metadata, due checks, push, sleep | slow and failing checks | a check runs when it is due, its error is shown |
| Serializer (`serialize/serialize.py`) with the lists of events and service checks | the lists, counters | three flushes, three encodings, three submissions | one kind that cannot be encoded; the server appends meanwhile | nothing leaves twice; a loss has a cause |
| Check loading (`collector/`) | classes, loader errors, instances, signatures, intervals | `load_check_classes`, `instantiate_checks` | three loaders, each with its failures; equal signatures | the first loader wins, each instance once, at its interval |
| Check configurations (`config/providers/`) | configs per check, errors | `collect`, `collect_check_configs` | order of a directory, defaults, a second call | defaults only without the user's file |
| Agent configuration (`config/config.py`) | data, defaults, search paths | `load`, `env_override`, `get` | `load` calls itself; bindings in the order of a set | environment over file over default |
| Status page (`api/handlers.py`) | none; two snapshots | build the list of checks | both are taken while checks run | a published error is on the page |
| Process check (`checks/bundled/process`) | pid cache, denied pids, psutil objects | `check` | pids end and are reused between runs | what is there is found, what is gone is not counted |
| HTTP wrapper (`utils/http.py`, `utils/network.py`) | the shared wrapper, the environment | `get_shared_requests`, `post` | unlocked first use, state in the environment | every request takes the configured way |
| dogstatsd packets (`dogstatsd/server.py`, parsers in `aggregator/`) | counters, contexts and their class | `submit_packets` | a line that raises in the middle | what is submitted is what was meant |
| Host name, metadata and inventory (`utils/hostname.py`, `metadata/`) | the name, the cache of `prtconf`, `_meta_ts` | look up the name, collect, submit | commands that fail or answer differently each time | each payload tells of one machine, the start is announced once |
| hmc check (`checks/bundled/hmc`) | versions, managed servers, last samples, fields of the class | `check`: connect, version, refresh, sample | a run that ends after any command leaves its part | no connection stays open; what is sampled was listed |
| ibm_was check (`checks/bundled/ibm_was`) | none between runs; a tree of statistics | request, parse, descend | depth, nested categories, values that raise | a run that returns has submitted every statistic under the tags of its way |
| flare command (`utils/flare.py`) | an archive in a directory of its own | pack, ask, upload, remove | a log that rotates, files that change meanwhile | what stayed is in it; it is kept until the intake has it |
| Stand-alone dogstatsd (`dogstatsd_server.py`) | none of its own | starts three of the threads above | - | not modelled |
| Core checks, disk, lparstats, helpers, packaging | see section 7 | | | |

The hazards of this code, each at its line and with the properties that would
catch it, are in `PROJECT.json` under `hazards`.

## 2. Modules

One module per component. The names of the code are kept where TLA+ allows;
where two components meet in one run their specifications carry a prefix
(`DaemonInit`, `LifecycleNext`). Definitions that are alternatives to others with
a plausible error are marked "Mutant" and are used by no specification: with one
put in the place of the definition that follows it, the property that `PROJECT.json` names fails.

`Forwarder` - A transaction is the number of its construction, since only
`created_at` and identity matter. `hand[w]` is what a Worker has taken from the
queue, `sub[p]` what a caller is about to put. Each `get`, `put_nowait`, POST and
test of an exit event is a step; sort, requeue of the due and cut of the list are
as many steps as the code takes with other threads between them. `link` is the
intake: up, or down with any answer that is retried, or with no answer although it has
taken the payload. `fate` and `copies` are histories: how a transaction ended, and how often the
intake took it. `Delivery` is the promise without queues, threads and back-offs: a
payload ends once, and a second copy comes only from an attempt whose answer was
lost. `Promise == INSTANCE Delivery`; the mapping is the identity on both histories.

`BucketAggregator` - `submit_metric` is one step and `flush` one step per bucket.
The value of a metric is the set of samples in it, so a sample that counts twice
or never is visible. `BucketThreads` - the same two operations statement by
statement, with the reads and writes that the two threads share; dictionaries are
places in `heap`, so that a thread can hold one that the other has deleted.

`MetricTypes` - the seven classes as functions from a state and a sample to a
state, and from a state to what a flush gives. `MetricsAggregator` - contexts,
sources and expiry on top. `MetricsReference` - what a flush promises, stated on
the sequence of samples since the last flush, without the classes' running values.
The detailed module refines it: `Reference == INSTANCE MetricsReference WITH ...`
maps its samples, and `ImplementsReference == Reference!Spec` is checked.

`AgentLifecycle` - the program counters of the seven threads (the Forwarder's are
one), the pipe and its descriptors, the flags with which they stop each other.
`Daemon` - processes with a command each, between whose file accesses and kills
the others' fall; a crash of an agent at any moment. An agent is `up` once its API has its loop or has
failed; a signal to one that is not may end it, or stop all but the API, and only one that comes later is `heeded`.

`Collector` - a turn of the AgentRunner as the steps of its loop, with ages instead of a clock.
`Serializer` - lists, the three stages of a push, the encodings that may fail, and
for dogstatsd the server's thread that holds a list while the Reporter replaces it. What the code does
with the number of events is as many steps as the threads see: the append, the read and the write of
`event_count += 1` (`aggregator.py:323`, `:263`), and in `flush_events` the swap of the list, the sum and the reset
(`:376`, `:385`, `:386`).
`Pipeline` - Collector, Serializer and the forwarder on one thread: a check that runs
submits, the push at the end of the turn takes the kinds out one after the other,
encodes them and hands over three payloads. The forwarder is there by its promise, Delivery, so
that what is shown of the pipeline holds of any forwarder that implements it.
`Passage` is what a check is promised for an item from end to end: it waits, leaves with the
others of its kind in one payload, and arrives or is dropped once. Pipeline
refines it: `place` is computed from the payload an item is in and how that ended.
`StatusPage` - the collection thread's writes of the state that two snapshots read.

`AgentConfig`, `ConfigFiles`, `CheckLoading` - the three phases of a start, each a
sequential program over an environment that differs from behaviour to behaviour.
`Inventory` - the name of the host and the parts of the metadata in the order in which they
are collected; each command of the system may fail, or answer otherwise than before.

`ProcessCheck` - processes that start, end, deny and reuse pids, and one instance of
the check among them. `Hmc` - a run as the sequence of its commands, over a
console that may fail at each; the dictionaries stay for the next run. `IbmWas` - documents as
trees, the descent of `process_stats` as an operator with the depth of the tree as its bound, and a
definition of the ways through the tree to compare it with.
`Flare` - the places that are packed, `os.walk` over them, one file at a time, the
upload; beside it an agent that rotates its log in two steps and people who edit files. `HttpRequests` - threads that ask for the wrapper,
make it and send. `Dogstatsd` - datagrams as sequences of symbols, one of which is a byte that is no UTF-8; a
select loop that drops what a datagram raises and ends on an OSError; the decoding of a whole datagram before its first
line; the three parsers; the contexts of the current bucket, whose classes are chosen anew in the next; and what raises.

`Common` has the value `None` and `Total`, Python's `sum`. `ForwarderProofs`, `BucketAggregatorProofs`,
`BucketThreadsProofs`, `MetricsProofs`, `CollectionProofs` (Collector, Inventory, StatusPage, ProcessCheck
and Hmc), `ProcessProofs` (Daemon and AgentLifecycle), `PipelineProofs` (Serializer, Pipeline and Flare) and
`InputProofs` (AgentConfig, CheckLoading, ConfigFiles, HttpRequests and Dogstatsd) have the theorems (section 5).

The `MC` modules give constants their values. Six of them put components **side
by side** so that one run of TLC checks several: `MCProcess` (Daemon,
AgentLifecycle), `MCCollection` (Collector, Serializer, StatusPage, Inventory), `MCStartup`
(AgentConfig, ConfigFiles, CheckLoading), `MCNetwork` (Dogstatsd, HttpRequests,
Flare), `MCProcessCheck` (ProcessCheck, Hmc, IbmWas) and `MCBucketThreads` (BucketThreads,
Pipeline). A variable `part` chooses one of the components and the others
rest in an initial state, so the behaviours of such a run are the union of those
of its components and not their product. That loses nothing here, since these
modules have no variable in common; the components that do share state, those of the
collection thread, are composed in Pipeline. What one component relies on in another is
stated at its border: `FlushedInTime` of Collector bounds the time between two flushes, which
`ExpiryHolds` of MetricsAggregator takes as its premise; `SignalEndsAgent`
of AgentLifecycle says that a signal that finds the API's loop, or its thread ended, ends the agent, which is what Daemon
takes as its fairness; of an agent that was signaled before, Daemon assumes nothing. Where one component runs in several environments, a variable that never
changes chooses one: `workload` (MetricsAggregator), `setup` (ProcessCheck),
`traffic` (Dogstatsd), `settings` (HttpRequests).

## 3. Runs

All times, capacities and intervals are scaled down. What has to survive is their
order: a back-off that is longer than a flush interval, a list that is shorter than what
arrives, an expiry between one and two flush intervals, a pid cache that is
older than a process. Each bound is a constant, named in the module's
CONSTANTS as a bound; the clocks of the Forwarder, the Collector and of the
process's threads need none, since they count down to the next event or up to a cap.

| run | module, cfg | properties |
|---|---|---|
| `forwarder_safety` | MCForwarder, Forwarder_safety.cfg | ForwarderInv, OnePlace, RespectBackoff, ImplementsDelivery, NewestFirst |
| `forwarder_liveness` | MCForwarder, Forwarder_liveness.cfg | ImplementsDelivery, RetryListDrains, EventuallySettled, StopEndsThreads |
| `buckets` | MCBucketAggregator, Buckets.cfg | Conserved, Consistent, CountersKeepPace, ExpiryHolds |
| `threads` | MCBucketThreads, Threads.cfg | Consistent, NothingLostAlone, ImplementsPassage |
| `metrics` | MCMetricsAggregator, Metrics.cfg | Consistent, ImplementsReference, ExpiryHolds |
| `process` | MCProcess, Process.cfg | DaemonInv, LifecycleInv, StopEndsAgent, EndsWhenTold |
| `collection` | MCCollection, Collection.cfg | CollectorInv, SerializerInv, InventoryInv, FailsForACause, EventsLeave, ErrorsReachPage |
| `startup` | MCStartup, Startup.cfg | ConfigInv, LoadingInv, CollectsWhatIsNew |
| `process_check` | MCProcessCheck, ProcessCheck.cfg | ReportInv, HmcInv, WasInv, RunsReport |
| `network` | MCNetwork, Network.cfg | DogstatsdInv, Understood, HttpInv, FlareInv |
| `daemon_instance` | MCDaemon, Daemon_instance.cfg | OneInstance, violated |
| `dogstatsd_text` | MCDogstatsd, Dogstatsd_text.cfg | TextInSetsOnly, violated |

An invariant named `...Inv` or `Consistent` is the conjunction of its module's type
invariant with the state predicates that are defined above it.

**forwarder_safety.** Two Workers, two submitters, two payloads, two tries, queues
and retry list of one. One place per queue is the tightest they can be: with two
payloads and the RetryWorker's requeue every `put_nowait` can find its queue full, and the cut
of the list drops. Two Workers fail at once, and two threads may submit
while the RetryWorker flushes. A payload is always in exactly one of the six places
it can be in; a POST never comes before its back-off is over; a flush takes what is due from the newest to the
oldest and drops a payload only while the input queue is full, and the cut of the list drops one only when the
list keeps as many as it may, all of them newer; an end is final; the counters agree with the ends;
each payload keeps the promise of Delivery. It is not promised that the newest survive: a due payload that finds the queue full
is dropped, and if a Worker makes room the moment after, an older one gets in. Copies at the intake are not counted in this run (`MaxCopies` = 0).
The threads and payloads are interchangeable except for a payload's number;
the symmetry set holds threads only.

**forwarder_liveness.** One Worker, one submitter, two payloads, interval one and no symmetry.
Copies are counted here: a POST whose answer is lost may have been taken, and is sent again. No
payload is starved in the retry list although newer ones go first, all of them are
answered or dropped once the intake stays up, and `stop()` ends every thread even
in the middle of a POST or a flush.

**buckets.** A counter, a gauge and the packet count over three complete buckets of
two seconds, two samples, a flush every two seconds that may be late, expiry at
three, so that a counter is reported as zero once and then expires. Every sample stays in the bucket of its time until it is
reported for that bucket or dropped for its age, and no bucket comes back
after its flush. `CountersKeepPace` speaks of buckets that are flushed; a second in
which nothing is sampled has no bucket, and no zero (section 6).

**threads.** Two samples of the server, three buckets, two flushes, each
with its packet count. The threads interleave at every shared access, so samples
**are** lost and misplaced; what holds all the same is that none is reported twice,
that no two buckets share a dictionary and that the Reporter's thread does not
die. `NothingLostAlone` shows that the losses come from the races only.
Beside them, the way from a check to the intake: a metric, a service check and an
event, each of which may lack an encoding, six payloads, which are enough for one push in full and
the next in part with the metadata and payloads of dogstatsd in between, and a
metadata submission that may fail. An item leaves in one payload, in its turn or a later one;
a turn sends three payloads or none; and only a value without encoding makes one lose items. What a payload's
end is does not matter for that, so there are two.

**metrics.** One context with samples of any type, up to four of them over four seconds,
or two contexts of two check instances with points that may be too old. Four samples are the fewest
with which a monotonic count, a rate or a histogram has a flush between samples of both kinds, and a
reset. The percentiles are 0, 10, 50 and 95 hundredths: with up to four samples the code rounds the rank of the
first two below one, which means the largest sample, and that of the median and the 50th to either
neighbour (section 6). The points that may be too old are negative. The reference asks for a sample whose rank is as near as there is, and says where the
largest is reported instead.

**process.** Daemon: one agent that runs, a stop or restart of it and one more command, in every combination, up to a renaming
of the processes, and with a crash at any moment; three processes are the fewest with which a restart meets another command.
While each command waits for the one before, and for the agent that one has stopped, there is one agent and the pidfile names
it; an agent that a signal has stopped in part stays, so a command that comes while it is there has not waited
(`overlap`). A stop ends the agent whose pid it has read if the agent's API was up by then, which is the premise of
`StopEndsAgent`; without it the formula is false of the code (section 6).
Agent: two SIGTERMs at any moment, an API or dogstatsd socket that may fail.
The AgentRunner begins no collection after its stop, main leaves with the
Forwarder stopped and dogstatsd told to stop, and a signal whose handler finds the
API's loop, or a dead API thread, ends the process. A signal
handled before the loop is there does not, and the property excludes it (section 6).

**collection.** Collector: three checks due at every turn, every second and every
third; each lasts zero or two, may fail, and the metadata may fail twice in a row. The bounds on
lateness and on the time between flushes are formulas of the constants, not
numbers fitted to the run: a check is late by at most a turn in which all others are as
slow as they can be, and a sleep and the slowest submission for each failure of the metadata. A
run that lasts two is longer than the shortest interval, and then the next one waits for its end
and not for the interval. Ages are counted up to 24, beyond the largest bound. Serializer: four items of three kinds whose values can be
encoded, decoded or neither, in the agent and with dogstatsd's threads. A turn fails
only for a value that is neither; a service check that cannot be encoded loses no event;
events that were appended leave. `EventsCounted`: the statistic and the count have every event of dogstatsd once, wherever the swap of
the list falls, as long as no `+=` of the server and no sum and reset of a flush fall into one another. Where they do
(`raced`), events are counted twice or not at all (section 6), and the property says nothing. Status page: a named and an unnamed instance, a
page at any moment of two turns. Inventory: every system with and without its
tools, with a valid, an invalid or no configured name, two interfaces of every kind, two payloads and two failed turns.
The start is announced once however many turns fail before; `prtconf` runs once, so
the parts of a payload agree; a valid configured name is everywhere, an invalid one nowhere; the
primary addresses are those of the first interfaces that have one.

**startup.** AgentConfig: four kinds of `datadog.yaml` in three
directories, 48 environments, laid over in any order. ConfigFiles: four files with every
content, one change between calls, two orders of the directory. CheckLoading:
every outcome of three loaders for two checks with two equal and two colliding
signatures, and every combination of an instance's, an init_config's and a class's
interval from below to above each limit.

**process_check.** Three processes on two pids and five instances: by name; by name
without ignoring denials; with children and thresholds; by pid file and user; by pid.
Times run beyond the sum of the caches' durations where both are used, so that each cache expires
while the other still holds and `FoundInTime` has its bound to keep (up to five).
hmc: a console that lists up to two servers with a partition, fails at any command, and three
runs, so that one can fail in the middle and the next finds what it left. No run leaves a connection; the servers
sampled are those of one complete listing; tags that pile up stay with their server; no pair of a
server and a subsystem is sampled twice (section 6). ibm_was: documents down to four levels and up to three
children wide, a category inside another, values that are missing or no numbers, and queries
that add categories, replace their prefix or have fewer keys than the tree has levels.
A run that returns has submitted each statistic under the names on its way, one that raises a part of them. The run
keeps nothing for the next, so there is one.

**network.** dogstatsd: one message of each shape that the schemas allow, with texts that look like
another part of a packet, and two datagrams of three lines of which one may be bad. What is submitted of a datagram is what
its lines give, in order, up to the first that cannot be parsed or is refused (`InOrder`), and
what a line gives is what the client meant by it (`Understood`). A line that raises loses the rest of its own
datagram and of no other, and the counters count what was submitted all the same. Both say of a datagram with a byte that is
no UTF-8, or of any when `utf8_decoding` is off, that nothing of it is submitted, the good lines before that byte included; what a client
means is meant in UTF-8. A sample is refused for its type, or for the class that a sample of its context has given the metric in
any bucket so far: a new bucket may begin between two samples, and chooses the class anew. One message has two host tags.
HTTP: every place where proxies and no_proxy rules are set, two threads at
the first request, hosts above, at and below a rule, three kinds of payload; in one setting there is no proxy at all.
Flare: the default places, where that of additional checks is inside that of the
configuration, with a file that is not text, one rotation and one edit at any moment. The archive
has every file that stayed, in one version, as often as it has places above it; it is
removed only after the intake acknowledged it and sent only with consent.

**daemon_instance** and **dogstatsd_text** check what a message and a comment of the
code say, and find that it does not hold (section 6).

CHECK_DEADLOCK is off where the system may stop: an agent that has ended, a
configuration that is loaded, a bounded workload that is used up.

## 4. Fairness

Only threads that the operating system schedules, and calls that end, are fair.

* Forwarder: every Worker, the RetryWorker, a `put` that was begun, `stop` once it was
  called, and time. A POST ends because it has a timeout (`transaction.py:70`).
  Not fair: Submit, Stop, and Outage. `EventuallySettled` assumes that the intake comes back
  for good, and says so in the formula.
* AgentLifecycle: each thread. Not fair: a signal, a failing socket.
* Daemon: the commands, and the end of an agent that was signaled once its API was up (`heeded`), which is
  `SignalEndsAgent`: the handler then finds the loop, or that the API's thread has ended. Not fair: the end of an agent
  that was signaled before, which the code leaves running for ever (section 6), the API's coming up, a crash, a new command.
* Serializer: the Reporter's or AgentRunner's turn, and an append and a count that the
  server's thread has begun. `EventsLeave` excludes turns that fail for ever before the events' stage.

All of it is weak fairness: each thread owns its next step, and nothing but that step disables it.
The other modules have no liveness property and no fairness.

## 5. Proofs

For every value of the constants that satisfies the assumptions of the module:

| module | theorem | statement |
|---|---|---|
| ForwarderProofs | TypeCorrect | `Spec => []TypeOK` |
| | ForwarderInvHolds | `Spec => []ForwarderInv` |
| | OnePlaceHolds | `Spec => []OnePlace` |
| | BackoffRespected | `Spec => []RespectBackoff` |
| | EndsOnceHolds | `Spec => EndsOnce` |
| | DeliveryImplemented | `Spec => ImplementsDelivery` |
| | NewestFirstHolds | `Spec => NewestFirst` |
| BucketAggregatorProofs | BucketsConsistent | `Spec => []Consistent` |
| | SamplesConserved | `Spec => []Conserved` |
| | PaceKept | `Spec => CountersKeepPace` |
| | ExpiryRespected | `Spec => ExpiryHolds` |
| BucketThreadsProofs | ThreadsConsistent | `Spec => []Consistent` |
| | AloneNothingLost | `Spec => []NothingLostAlone` |
| MetricsProofs | ConsistentHolds | `Spec => []Consistent` |
| | ExpiryHolding | `Spec => ExpiryHolds` |
| | Implements | `Spec => ImplementsReference` |
| CollectionProofs | CollectorInvHolds | `CollectorSpec => []CollectorInv` |
| | InventoryInvHolds | `InventorySpec => []InventoryInv` |
| | ErrorsShown | `PageSpec => ErrorsReachPage` |
| | ReportInvHolds | `Spec => []ReportInv`, of ProcessCheck |
| | RunsReportHolds | `Spec => RunsReport`, of ProcessCheck |
| | HmcInvHolds | `HmcSpec => []HmcInv` |
| ProcessProofs | DaemonInvHolds | `DaemonSpec => []DaemonInv` |
| | LifecycleInvHolds | `LifecycleSpec => []LifecycleInv` |
| PipelineProofs | SerializerInvHolds | `SerializerSpec => []SerializerInv` |
| | FailsForACauseHolds | `SerializerSpec => FailsForACause` |
| | PassageImplemented | `PipelineSpec => ImplementsPassage`, if no way to end is called `none` |
| | FlareInvHolds | `FlareSpec => []FlareInv` |
| InputProofs | ConfigInvHolds | `ConfigSpec => []ConfigInv` |
| | LoadingInvHolds | `LoadingSpec => []LoadingInv` |
| | CollectsWhatIsNewHolds | `FilesSpec => CollectsWhatIsNew` |
| | HttpInvHolds | `HttpSpec => []HttpInv` |
| | DogstatsdInvHolds | `DogstatsdSpec => []DogstatsdInv` |

### Forwarder

*Assumptions* (`ForwarderAssumption`). Queues hold one or more, intervals are positive, `MaxTry` is so large
that the longest back-off is reached by it, `None` is no number.

*Types.* `TypeInv` is `TypeOK` with `Pc`, which ties a Worker's place to what is in its hand; without
it, a Worker at its POST could have no payload.

*OnePlace* speaks of the places as a function and is not inductive: nothing in
it keeps a number from being constructed twice. `PlaceInv` adds `Fresh` (a payload is `none`
exactly as long as its number is above `created`) and says the rest pairwise: `Single` (no place
has one twice), `AllApart` (no two places share one) and `Kept` (live if and only if it is
in one of them). `OnePlaceForm` shows that this implies `OnePlace`. Every action moves a payload
from one place to another or ends it; the queue lemmas (`PutProperties`, `GetProperties`) say what it
takes along.

*RespectBackoff* needs `Rested`: wherever a POST can take a payload from, its back-off is over. The
step that establishes it is the flush, which moves only what is due; the tick only lowers the rest.

*ForwarderInv.* A counter is the number of payloads with an end, up to its cap. `EndedGrows`:
when one more payload ends, the set that is counted gains that element and no other, which needs
`PlaceInv`, since the payload must have been live before.

*EndsOnce* follows from `PlaceInv` step by step. *NewestFirst* says of a drop that there was no room: for the
flush, that the queue is full follows from what `put_nowait` can raise, and that no newer payload is still due from the order of
the list. For the cut, `NewestKeepsNewest` shows that what is kept is newer, by the cardinalities of what lies above two
payloads, and `NewestKeepsEnough` that as many are kept as the list may have: the newest of `n` payloads are `n`, which
needs a newest and an oldest of a finite set (`NewestExists`, `OldestExists`), from the well-foundedness of inclusion.

*ImplementsDelivery.* Initial states map to initial states, and `PromiseStep` shows for
each action that it is a Submit, an Attempt, a Drop or a stutter. Submit in order comes from `Fresh`; that an
attempt is on a live payload, and that a drop hits live payloads only, from `Kept`.

### BucketAggregator

*Assumptions* (`BucketAssumption`). The intervals are positive, the expiry is a number and may be zero, the packet count is a
gauge, a context is no counter and gauge at once.

`BucketStart` is what the arithmetic of `time - time % interval` comes to for any interval: a time
is in its bucket, and two different buckets are an interval apart. All else speaks of
buckets as numbers.

Neither Consistent nor Conserved is inductive. `Inductive` says first what a metric can be
(`Sound`): its samples are of its context and its bucket, none later than the sample time, in a gauge only
the last one; one without sample time is left by a sample that raised. `Held` is the converse, that a sample
that is held is in its metric. `Clock` and `PointsPast` order the buckets by the flush: those that are complete
have been looked at or will be by the flush under way, and a point is of a bucket before all that are
left; so a bucket cannot come back after its points, although samples keep arriving between two
buckets of a flush. *CountersKeepPace* needs `Pace`: a counter with a reported sample is in
`last_sample_time_by_context` with that time or a later one, unless the time is past the expiry. A sample that raised makes an exception,
since the metric it leaves behind ends the flush of its bucket (section 6).

### BucketThreads

Places in the heap, buckets, samples and flushes are any number; there are the two threads of the code.
What goes wrong in a race limits what can be inductive: with both threads inside, the cache may name one
bucket and hold another's dictionary, or one that was deleted. `OnePlace` holds all the same: a
sample is in one dictionary at most, and what `Counter.sample` has read is written to the dictionary it was
read in. `Once` adds that a reported sample is in none of the dictionaries that a later flush can
reach (`Ahead`), nor about to be written to one. With `Fresh` (a sample under way is nowhere) this gives that no
sample is reported twice, however the statements fall.

`Alone` and `Kept` are the invariant of behaviours without overlap: at each statement, what a
thread has looked up is what is there, and a stored sample is in the dictionary of its bucket. That a flush takes the earliest
bucket needs a least element of a set of numbers (`Least`), which follows from the well-foundedness of
inclusion on finite sets, applied to the intervals `0 .. b`.

### MetricsAggregator

*Assumptions* (`AggregatorAssumption`, `MetricTypesAssumption`). Values are integers of either sign, weights positive (a
check's sample has the weight 1), `None` is no
sample, class or number, the percentiles are those that `config/config.py` lets through, 0 to 99 hundredths.
The workloads are any set of such, each with its bounds.

*Invariant.* `MetricsInv` relates each metric to `log` and `before`, its samples since the last flush and
the one before them. `Agrees` has a case per class: a gauge keeps the last, a counter the weighed total, a
rate the pairs of time and value, with the one before; a monotonic count the last value and the rises. Why the sample before must
be in it: a rate and a monotonic count report of `n` samples and the one that the last flush left them.
`HoldsSamples` adds that a metric with samples was sampled since the last flush, which is what keeps it from
expiring unreported in time; `Counted`, that the statistic `metric_count` is the cardinality of
the set of all samples that wait; `Timely`, that the samples of a context are in the order of the clock.

*Sums without induction.* `Total` is a recursive function, and the theorem of induction is
out of reach. `TotalUnits` counts instead: a total is the cardinality of a set of units, `n` for
each number `n`, and if it were not, there would be a least prefix where it is not (`Least`). So do
`PartialSums`, and `NaturalTotalPermuted`: a total does not change with the order, as that set does not change its size.
A total of integers is the difference of two such totals, of what is gained and what is lost (`TotalSplits`).

*Sorting.* The model takes a sorted sequence as `CHOOSE`; `Sorts` shows there is one, by insertion into
the sorted prefix (`Insertion`), again from a least counterexample. `RankOfSorted` says which value is at
place `r`, and `RoundedToHalves` and `RoundedToHundreds` how far the code's `round` is from the exact rank.

*ImplementsReference.* The mapping gives each context the class and the last sample time of its metric, and the
histories as they are. A call that is too old or whose class raises maps to Discard, one that samples to Submit, a flush
to Flush, time to Tick. The `...Promised` lemmas show, class by class, that what
`Agrees` says is kept makes `flush` return what the reference asks for.

What the proof taught: the reference used to ask for *the* median and *the* percentile, and TLC had not been given
those for which the code reports another sample. Both are in the run now, and the reference states
the rounding (section 3). `Accounted` was a fold and is a cardinality, so it can be reasoned about.

### Serializer

An item is in the aggregator's list of its kind, in the list of the turn, or in the server's
hand. `Inductive` says that it is in one of them at a time (`Apart`), in the list of its kind
(`OfKind`), that a kind whose stage has not come has nothing in the turn (`NotYet`), and where the
list is that the server's thread holds (`Late`): it may be the one that the turn has taken, and an
append to it lands in the turn only while that list is still to be encoded. Without `Late` an append
after the encoding would put an item into a turn that can no longer send it.

*EventsCounted* is an equation of the statistic, the count and the events appended, and needs two facts beside it (`Counted`). As long as
nothing raced, what `+=` has read is what the count is, or its write would undo a reset; and a tally is under way
only in the events' own stage, so no push ends within it. That a step of one thread falls into the other's is
recorded by the step that does so, hence each step of the four has to keep the equation or set `raced`
(`CountStep`), and the swap of the list and the append, which move items, leave it alone.

### Collector

`NeverLate` and `FlushedInTime` bound ages at every moment; the invariant has to say how old
a check may be at each place of the turn (`Punctual`): when it has been passed, its own longest
wait (`Own`, the larger of its interval less one and of the slowest run) and as many slowest runs as there were steps since; before it, the same with
the sleep and with what the failures of the metadata have cost. One turn later both forms agree. `Flushed` does the
same for the metrics that wait, `Recorded` says that an error is published when the turn is past its checks.

### Inventory

*Assumptions* (`InventoryAssumption`). The bounds are numbers, `Unread` is no answer of the command, `NoName` no
name. Machines and interfaces are any.

*StartupOnce* needs `StartKnown`: `_meta_ts` is set if and only if there was a payload, so a turn that fails, however
often, leaves the next one to say that the agent has started. *OneMachine* needs `AnswerKept`: past the
processor the answer of the command is in the cache, even when it is blank, and the turn's cpu is that answer; the
platform, which asks again, gets the same. *PrimaryAddresses* speaks of a loop: `NetworkRight` says what it has found in the
first `n` interfaces, `NetworkGrows` that one more keeps it so, and `NetworkFacts` that it holds at the
end, again by a least counterexample; since the loop is a recursive function, `NetworkExists` shows first that there is one.

### Daemon

`DaemonInv` speaks of behaviours where each command waits for the one before and for the agent
that it stopped (`~overlap`). Then `Alone` (one command and one agent), `StartsAlone` (a start that passed its check has
no other process beside it, and nobody removes its file), `Named` (the pidfile names the agent until a
command that has read it is about to signal it) and `HasRead` (what a command has read is the agent's
number) hold together; none is inductive by itself. An agent that was signaled and stays is alive, so whoever comes next has not waited;
`SignaledRan` says that the agents that are up or signaled are among those that run, a kill that ends one at once included.

### Agent life cycle

`LifecycleInv` says that the AgentRunner begins no collection after it was told to stop, and that the process
leaves with the Forwarder stopped and dogstatsd told to stop. By then the signal handler has been
through all components, or through a part of them a second time; `StopOrder` ties
`stopping`, its place in the list, to what each component has been told: since the AgentRunner was told to stop, the
handler has stopped all others, or has yet to reach them for the first time. `RunnerPlaces` keeps the
AgentRunner from a collection after its stop but for the one under way, and `Joined` orders main's
joins: the AgentRunner has ended before the main thread stops the handler. The order of the components is that of `agent.py`, and
the proof depends on it.

### Pipeline

`PipeInv` takes the Serializer's `Inductive` and its step lemmas as they are, and adds what the
thread and the payloads contribute. `InPush`: outside a push the serializer is at rest, and a payload is
submitted only when all is encoded. `Emptied`: since the checks run in the same thread, what was flushed
stays complete. `OneParcel`: an item is in one payload at most. `CarriedSoFar`: of the items that the serializer still
has, those in a payload are the ones of the kinds submitted so far; this is what makes a push that fails lose
only items that are in none. `PlacesFollow` turns the `Place` of an item into its payload's fate or the
serializer's state, and for each action a lemma (`SubmitMoves`, `SendMoves`, `EndMoves`,
`ForwarderMoves`, `NothingMoves`) names the step of Passage it is. The hypothesis keeps a payload that has ended from being taken
for one that was not submitted; the ways to end of Forwarder satisfy it. Together with DeliveryImplemented, the
promise holds end to end.

### AgentConfig

*Assumptions* (`ConfigAssumption`). A file is `None` or has sections, each `None` or a mapping, and `None` is
no mapping; what a file has outside of its sections is in `Top`; a conf_path, wherever it is said, is
empty or in `Dirs`, which is any set. An option is a pair.

What ConfigInv says of the options holds only at `loaded`. `LaidOver` says it at every binding of the
environment: an option whose turn has come has its text, one that is pending has either, since the second round of
the search may find nothing and leave the data of the first, with all that was laid over them.
Since laying an option over a section that the file lacks fills it with the defaults, `SectionsKept` is needed
beside it: the data have no section that is `None` but those of the file, so only they make `load` raise. A
conf_path is a directory wherever it comes from (`ConfPathNames`), so the search paths stay paths.

### CheckLoading

*Assumptions* (`LoadingAssumption`). The checks, instances, outcomes of the loaders and settings are
any; the global minimum is a number; instances of the same check and configuration have the same hash, but others may too.

`LoadFound` says of each loader what it has left: an error as long as it was asked, and a class only if it was the last.
*FirstClassWins* follows, since a loader with a class is asked only if all before it had none, and so does
*MissingAreShown*: a check without a class was looked for everywhere, and its second error is there, or makes the
page fail. *EachSignatureOnce* needs `LoadMade`: the signatures are those of the instances with an
interval, and every instance that `instantiate_checks` is through with has its own there, no class, or failed.
*IntervalAsConfigured* compares two searches, of the code among four values with the `or` of the first, and
of the property; `FirstNumber` goes through what each setting may be.

### Check configurations

*Assumptions* (`FilesAssumption`). The paths are finitely many, and each belongs to one check or to none; the
directory is walked in some order that has each path once.

*CollectsWhatIsNew* says what a call adds to what is there. `FilesInductive` remembers the disk of
the last call: whatever it found for a check (`Wanted`) is in the check's list, in whatever order it came. A second call with
the same files then finds each of them in the list and adds none. Before the first call the list is empty, so a default is in
it after the call if and only if the user has no valid file.

### HTTP wrapper

*Assumptions* (`HttpAssumption`). What the environment has is a list of rules; in a list of
`datadog.yaml` a text may still have commas, and comes apart when it is written to the environment; the local hosts are rules other than `*`. Threads, hosts and settings are any.

Writing the environment changes what the next thread reads there, so *SameProxies* is not obvious for a
second thread that makes a wrapper of its own. `HttpInductive` says that `no_proxy` in the environment is what the
process was started with or the configured rules, and that what a thread is about to write gives the configured rules when it is split;
`SameRules` shows that to choose from the written environment, and to append the local hosts once more, changes
nothing. This is where the test for hosts that are there already is needed. *DirectAsConfigured* then compares the search through the rules with the
existence of one that applies.

### dogstatsd packets

*Assumptions* (`DogstatsdAssumption`, `TextAssumption`). A number without a point is a number; the traffic says whether it is decoded
and forwarded; a datagram is a sequence of lines and a line of symbols. Which lines there are, and what the parsers make of them, is left open: the proof uses of `Parsed` only that it
gives metrics, or one event or service check, or `None` (`ParsedShape`).

`Halfway` says where the server is in its last datagram: for some `k`, the first `k` lines were parsed, and
what was submitted, with the samples that are pending, is what they give. `AllDone` says of the others that they were
submitted in full or up to a sample that was refused. Of a datagram that is not decoded as a whole there is never a line
(`ReadsOnly`). The hard part is that this stays so: whether a sample is refused depends on the
contexts, which other datagrams add to and a new bucket empties. `Sources` ties them to what was received: the class of a
metric is that of the type of some sample of its context, in this datagram or an earlier one. So a refusal has a cause among
the datagrams up to its own (`Unsubmittable`), and since these stay as they are (`DueStays`), so does the cause
(`StillUnsubmittable`, `DoneForGood`), whatever later datagrams and buckets make of the contexts. `Counting` finds each counter as the number of the places of its calls (`PlaceAdded`, `NoPlaceAdded`).

`FlattenSeq` is a recursive function, like `Total` above. `FlattenExists` shows that there is one, `FlattenPartial` gives
its partial results, and what holds of all of them follows from a least counterexample.

### Status page

*ErrorsReachPage* compares the entries that the second snapshot makes with the errors of the first. An entry has an error only
if it is the one that `Id` gives its instance, and each instance of an error has that entry (`Entries`), since
the list of entries starts from the errors, not from the instances that have run by now.

### Process check

*Assumptions* (`ProcessAssumption`). Pids are positive, the configured pid and that of the file are among them; an instance has at
least one of its three sources; the durations are numbers.

`CheckInv` has a part for each claim. `GoneIsNoticed`: no pid that a run counts was gone before the last run (`dead_runs`), and
one that stays in a cache that is still to be used was there when that run ended. `MissingIsNew`: a process
that is on the list of denials, and denies nothing, came after that list was made; one that matches and is not in the pid cache came
after the cache, but for the life of the list. `HasLongThere` follows when the run looks for its pids: whoever was there for both
durations is found, which is *FoundInTime*. The bound is the sum of the two, since a pid may have to leave the list of
denials before the next refresh of the cache can find it. `ObjectsSampled`: the object that is kept for a pid was
made for the process that has the pid now, or for one that is gone and is replaced; hence
*CpuOfSecondSample*. A pid that is reused between two runs is what makes each of them necessary.

### hmc

*Assumptions* (`HmcAssumption`). Servers are finitely many, and no partition has the name of a server.

*HmcInv* is inductive with `Sampling`: before the first complete refresh nothing was sampled and
the run has not come to its servers; a server that is left has no sample of any subsystem; the version is unbound or that of the
console; the tags have one server, that of the step. That a pair of server and subsystem is not sampled again holds because
the run that lists the servers is the only one that reaches them, a second one having raised by then (section 6). The columns
of the class are extended once a server at the most, `extended <= Cardinality(HmcServers \ Ahead)`.

### Flare

*Assumptions* (`FlareAssumption`). A file is in one directory; the subdirectories of one are finitely many,
different, and of no other; none is below itself. The places that are packed are any sequence of files and directories, one inside another or
the same again.

*ArchiveComplete* counts how often a file is in the archive. `RightArchive(W)` keeps that count by a set: for some `W`, the
directories that were walked or are, a file that stayed has been packed, or will be, once for each of `W` that is
above it. That an `os.walk` meets each file once needs `WalkApart`: the directories that are still to be listed have nothing
below them in common, nor with the files at hand. It follows from the tree (`ApartNoFile`, and the lemmas about `DirsBelow`). Files that come, go or rotate
meanwhile are in `changed`, of which nothing is claimed. *SentOrKept* is inductive with `StepKnows`, which
ties each step of the command to what it has learned.

### Only model-checked

* The liveness properties (RetryListDrains, EventuallySettled, StopEndsThreads, StopEndsAgent, EndsWhenTold and
  EventsLeave): fairness and ENABLED are out of the prover's reach.
* WasInv: the searches of IbmWas compute over trees with recursive operators, and the prover has
  neither those nor induction over data.
* Understood: that the parsers give back what a client has put into a line is a statement about searches
  over every line, again by induction over data. The proof of DogstatsdInv does not depend on it.
* The two properties that are violated (section 6).

## 6. Disagreements between code and text

Two have a run that shows a behaviour:

* `daemon_instance`: `restart` starts the new agent as soon as `os.kill` has returned
  (`utils/daemon.py:146`), and two starts can both pass the check of the
  pidfile; then two agents run, although `utils/daemon.py:103` says "Not starting,
  another instance is already running".
* `dogstatsd_text`: a text of type `s` is sampled by the class of the first type of its context in its bucket
  (`aggregator/aggregator.py:482`), a histogram when that was `h`, although `:35` allows text for sets only. The run
  ends there. By reading, the flush of that histogram, which sorts its samples, raises (`aggregator/types.py:239`), and
  so does each flush after it, until the metric is older than `expiry_seconds` and dropped (`aggregator.py:520`).

The others are in the models as the code has them, and the properties above are stated so that they
say what the code does promise (a dash where no text speaks of it):

| where | the code | the text |
|---|---|---|
| `forwarder/transaction.py:94` | an answer of 400, 403, 404 or 413 counts as success | `:47` "Returns True on success" |
| `aggregator/aggregator.py:511` | zeroes only for buckets that have a sample | `:492` "Counters keep reporting "0" for expiry_seconds" |
| `aggregator/aggregator.py:520` | a metric without sample time is left by a sample that raises | `:521` "This should never happen" |
| `aggregator/aggregator.py:479` | the cache may point to another bucket's dictionary | `:471` keeps "track of the buckets" |
| `aggregator/aggregator.py:483` | an unknown type raises for a new context only | `tests/test_aggregator.py:534` |
| `aggregator/aggregator.py:376` | the list is replaced unlocked: an event appended to the old one after its encoding is lost | - |
| `aggregator/aggregator.py:263`, `:385` | `event_count += 1` is unlocked: around a reset it counts the events of that flush again, between the sum and the reset its own not at all | `templates/status.jinja:119` "Total Event Count" |
| `aggregator/aggregator.py:263` | only packets are counted, so the agent's count of its checks' events stays 0 | `templates/status.jinja:88` "Events Flushed" |
| `aggregator/aggregator.py:250` | only AttributeError is caught: a byte that is no UTF-8 loses the whole datagram | - |
| `aggregator/types.py:244` | the median of 3 is the smallest | `:251` reports a median |
| `aggregator/types.py:274` | the 10th percentile of 2 is the largest | `config/config.py:246` |
| `config/config.py:241` | a percentile below 0.01 is cut to 0, and 0 reports the largest sample | `:246` "must be float in ]0;1[" |
| `aggregator/types.py:359` | a rate of the last two samples | `:326` "over each flush interval" |
| `api/server.py:49`, `utils/signals.py:106` | a signal before the API's loop stops all but the API, and the process stays; the AttributeError is taken for a missing method | `README.md:154`, `signals.py:107` |
| `utils/daemon.py:227` | the exit handler removes whatever pidfile is there, a successor's too | `:212` |
| `collector/collector.py:240` | an error is not cleared by a later success | `templates/status.jinja:43` |
| `collector/collector.py:212` | the time is set after a run that failed, too | "update after successful run" |
| `collector/collector.py:111` | equal hashes count as equal instances | `:112` "identical signature" |
| `collector/collector.py:128` | an infinite interval raises | `:130` "falling back" |
| `collector/core_loader.py:85`, `:129` | AttributeError instead of an error; an error for every name not found | `:38`, `:37` |
| `collector/check_loader.py:36` | a module without a check makes every status request fail | `templates/status.jinja:99` |
| `api/handlers.py:95`, `:134`, `:157`, `:195` | instances that submit nothing are not listed; counts are of all time or of the last flush; named instances have two entries | `templates/status.jinja:28`, `:46`, `:48` |
| `config/config.py:127` | the first path with a file wins again | `:123` "override the default conf_path" |
| `agent.py:234`, `:263` | a value of the environment stays text: a sum raises, 'false' is true | `README.md:161` |
| `process.py:295` | pid before pid_file before search_string | its `README.md:36` |
| `process.py:118` | a denied pid is looked at again | its `conf.yaml.example:7` |
| `process.py:330`, `:409` | the status counts pids of the list that have gone; with a user a change is not seen | its `README.md:76`, `conf.yaml.example:3` |
| `utils/http.py:323` | two threads may each make a wrapper | `:310` "initialized once" |
| `utils/http.py:39` | the commas of a no_proxy text are split in the end | `utils/network.py:86` |
| `hmc.py:241` | `_refresh_period` is set nowhere: every run after a complete refresh raises, so a server is sampled in one run only | its `README.md:7` "Collect usage metrics" |
| `hmc.py:238`, `:268` | `version` is unbound when the dictionary has it | `:237` asks whether it has |
| `hmc.py:364`, `:407` | fields of the class are extended by every sample, and tags pile up over samples | "get tags" |
| `metadata.py:37` | `platform.dist` is gone from Python 3.8, so on Linux each turn fails before `run_checks` | `agent.py:78` |
| `gohai.py:43`, `:124`, `:393` | a failed `prtconf` is kept; "Linux" is compared with `linux` | `:15`, `:122` |
| `hostname.py:55`, `:75` | `/bin/hostname`, not validated | `:65` "'hostname -f'", `:90` "not RFC1123 compliant" |
| `agent.py:71` | `json.dumps` for the log raises before `submit_metadata` can try its second encoding | `serialize/serialize.py:118` |
| `ibm_was.py:78` | lxml's error is another class and escapes; `can_connect` has said OK | `:80` "Unable to parse" |
| `ibm_was.py:152`, `:155` | no timeout; a read that times out reports no service check | - |
| `ibm_was.py:173` | a query with the prefix of a default category changes that category's tags and units | - |
| `ibm_was.py:183`, `:133` | `collect_thread_pools_stats`; names in lower case with underscores | its `conf.yaml.example:30`, `:53` |
| `flare.py:48` | the directory stays when the host name cannot be found | `:166` |
| `flare.py:76`, `agent.py:178`, `:182` | the checks are inside `conf_path`, their files are packed twice | - |
| `flare.py:118`, `agent.py:193` | an archive that is too large or was refused ends the command with exit code 0 and no message on the terminal | - |
| `flare.py:160` | JSON that is no object raises after a successful upload | `:162` |
| `dogstatsd/server.py:105` | a datagram with a line that raises is not forwarded | `:48` |
| `dogstatsd/server.py:109` | select.error is OSError in Python 3: any that select, recv or send raises, but EINTR, ends the server | - |
| `agent.py:70` | the metadata look the host's name up anew each time; it may differ from that of the aggregator, taken at the start | - |
| `hmc.py:301`, `:464` | paramiko's output is bytes in Python 3, where a text pattern or separator raises; the model takes it for text | - |

## 7. What is not modelled

* *Data.* Bodies, names, tags and headers of payloads; the layout of the status
  page; times and tags of points; log messages.
* *Stand-alone dogstatsd* (`dogstatsd_server.py`): its threads are those of the
  agent. It cannot start as it is, since `dogstatsd/helpers.py:55` passes an argument
  that Forwarder does not take.
* *Core checks* and the bundled `disk` and `lparstats`: each reads and submits, and
  keeps nothing between runs, so there is no state to check. As they are,
  `disk.py:111` reads `partition.mount`, which does not exist, when a `mount_point_whitelist` is set;
  `network.py:19` calls packets sent "in".
* *AgentCheck's* rewriting of names and the types of tags (`checks/agent_check.py:177`).
* *PidFile* (`utils/pidfile.py`): the choice of the directory, a temporary one when the
  usual one cannot be written.
* *Flare*: the expressions that redact a line, and `flare -l`. *Metadata*: sizes and versions, which are copied.
* *hmc*: the columns of a version, since no run reads a second sample. *ibm_was*: HTTP options, two of the four categories.
* `Config.set` and `reset` (tests only), nested prefixes of the environment, the histogram options' validation.
* SSL settings, timeouts, the default Content-Type and the flare's wrapper of `utils/http.py`.
* *dogstatsd*: the flush of a metric that was given texts. *Event counts*: the count by source and the statistics of
  service checks, which are set and not summed; `set_stat('events')`, which shows the last flush only.
* Platform, logs, string helpers: functions without state.
* Packaging and development tools.

Each component's note in `PROJECT.json` says what it leaves out.

## 8. Plan

The order so far: Forwarder and its proofs, the two aggregators, the life
cycle, Daemon, Collector, Serializer, loading and status, configuration, process check, HTTP,
dogstatsd; then Delivery and its refinement, the composition of the collection thread, hmc, the
inventory, the flare command and ibm_was, and the proofs about Serializer, Collector, Daemon and Pipeline; then the proofs about
the aggregators, with the refinement of MetricsReference, about the life cycle, about the start and about the inventory; last
those about the status page, the process and hmc checks, the flare command, check configurations, the HTTP wrapper and dogstatsd's packets.

Every safety property of a run now has a theorem, but for WasInv and Understood. What is left is to model more:
the times of points, the validation of histogram options, and several places of check configurations.
