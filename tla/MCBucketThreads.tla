--------------------------- MODULE MCBucketThreads ---------------------------
(***************************************************************************)
(* Two cases of threads that hand over to each other, side by side and     *)
(* chosen by part: dogstatsd's two threads in one aggregator, with two     *)
(* flushes over three buckets, so that a flush finds both a complete       *)
(* bucket and one still being filled; and the way of a metric, a service   *)
(* check and an event from a check to the intake: one push in full and the *)
(* next in part, the metadata, and payloads of dogstatsd in between.  How  *)
(* an item arrives or is dropped is one end each: Passage knows only one.  *)
(***************************************************************************)
EXTENDS BucketThreads, TLC

CONSTANTS check, metric, service_check, event, NoItem

VARIABLES
    part,
    turn, next, since, meta_since, errors, status, failures, failed, unflushed,
    dogstatsd, content, lists, held, held_list, stage, encoding, flushed,
    counting, count_read, tally, event_count, events_total, appended, raced,
    payload_fate, copies, parcel, sent, given

Pipe == INSTANCE Pipeline WITH
    Order <- <<check>>, Interval <- (check :> 1), SLEEP <- 1, META_INTERVAL <- 2,
    Durations <- {0}, MaxFailures <- 1, Ages <- 3,
    Items <- {metric, service_check, event},
    KindOf <- (metric :> "metrics" @@ service_check :> "service_checks" @@ event :> "events"),
    Contents <- {"text", "map", "object"}, MaxEvents <- 1,
    Transactions <- 1 .. 6, Final <- {"accepted", "truncated"},
    MaxCopies <- 0,
    pc <- turn, fate <- payload_fate

ImplementsPassage == Pipe!ImplementsPassage

pipeVars == <<turn, next, since, meta_since, errors, status, failures, failed, unflushed,
              dogstatsd, content, lists, held, held_list, stage, encoding, flushed,
              counting, count_read, tally, event_count, events_total, appended, raced,
              payload_fate, copies, parcel, sent, given>>

ThreadsInit ==
    /\ Init /\ Pipe!PipelineInit
    /\ \/ part = "aggregator" /\ \A c \in {check} : since[c] = 1
       \/ part = "pipeline"

AggregatorProceeds == part = "aggregator" /\ Next /\ UNCHANGED <<part, pipeVars>>
PipelineProceeds == part = "pipeline" /\ Pipe!PipelineNext /\ UNCHANGED <<part, vars>>

ThreadsSpec ==
    ThreadsInit /\ [][AggregatorProceeds \/ PipelineProceeds]_<<part, vars, pipeVars>>
==============================================================================
