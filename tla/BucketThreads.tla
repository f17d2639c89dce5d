---------------------------- MODULE BucketThreads ----------------------------
(***************************************************************************)
(* The same aggregator, statement by statement: submit_metric runs on the  *)
(* dogstatsd server's thread and, for the packet count, on the Reporter's, *)
(* flush on the Reporter's, and no lock is held.  Each step is one read or *)
(* write of an attribute or a dictionary both threads use.                 *)
(*                                                                         *)
(* A dictionary of metrics is a number, its place in heap: the cache       *)
(* current_mbc and a submit_metric under way can still hold one that flush *)
(* has deleted from metric_by_bucket.  A time is the number of its bucket. *)
(* The server's samples are of one context, a counter.                     *)
(***************************************************************************)
EXTENDS Integers, Sequences, Functions

CONSTANTS
    MaxTime,      \* bound: buckets 0 .. MaxTime
    MaxSamples,   \* bound: samples of the server
    MaxFlushes,   \* bound: flushes of the Reporter
    None          \* current_bucket = None

ASSUME ThreadsAssumption ==
    /\ MaxTime \in Nat /\ MaxSamples \in Nat /\ MaxFlushes \in Nat
    /\ None \notin Int

Threads == {"server", "reporter"}
Times == 0 .. MaxTime
Samples == 1 .. MaxSamples

\* The packet count is sample 0; the server's are Samples.
Contexts == {"server", "reporter"}

VARIABLES
    now,
    heap,             \* dictionary -> context -> the samples in its metric
    metric_by_bucket, \* bucket -> dictionary
    current_bucket,
    current_mbc,
    pc,               \* where each thread is in submit_metric
    bucket,           \* bucket_start_timestamp of each thread
    mbc,              \* metric_by_context of each thread
    value,            \* what Counter.sample has read of its metric
    fpc,              \* where the Reporter is in its loop
    todo, flushes,
    submitted,        \* history: samples begun by the server
    home,             \* history: the bucket of the time of each sample
    fate,             \* history: "none", "begun", "stored", "reported" or "error"
    reported_for,     \* history: the buckets a sample was reported for, in order
    overlap,          \* history: both threads were in the aggregator at once
    raised            \* history: an exception left send_packet_count

cache == <<current_bucket, current_mbc>>
flushVars == <<fpc, todo, flushes>>
history == <<submitted, home, fate, reported_for>>
vars == <<now, heap, metric_by_bucket, cache, pc, bucket, mbc, value, flushVars,
          history, overlap, raised>>

\* Mutant: no new dictionary, the last one is used again.
LastDict == heap

\* {}: the next dictionary is a new, empty one.
NewDict == Append(heap, <<>>)

InSubmit(t) == pc[t] # "idle"
Flushing == fpc \notin {"wait", "count"}

\* Whether a step that begins an operation finds the other thread in one.
NoteOverlap(other) == overlap' = (overlap \/ other)

-----------------------------------------------------------------------------
Init ==
    /\ now = 0
    /\ heap = <<<<>>>>
    /\ metric_by_bucket = <<>>
    /\ current_bucket = None /\ current_mbc = 1
    /\ pc = [t \in Threads |-> "idle"]
    /\ bucket = [t \in Threads |-> 0]
    /\ mbc = [t \in Threads |-> 1]
    /\ value = {}
    /\ fpc = "wait" /\ todo = {} /\ flushes = 0
    /\ submitted = 0
    /\ home = [s \in Samples |-> 0]
    /\ fate = [s \in Samples |-> "none"]
    /\ reported_for = [s \in Samples |-> <<>>]
    /\ overlap = FALSE
    /\ raised = FALSE

Tick ==
    /\ now < MaxTime
    /\ now' = now + 1
    /\ UNCHANGED <<heap, value, metric_by_bucket, cache, pc, bucket, mbc,
                   flushVars, history, overlap, raised>>

(***************************************************************************)
(* submit_metric.                                                          *)
(***************************************************************************)

Goto(t, label) == pc' = [pc EXCEPT ![t] = label]

\* The server has a sample; it computes the bucket of the present time.
Receive ==
    /\ pc["server"] = "idle"
    /\ submitted < MaxSamples
    /\ submitted' = submitted + 1
    /\ home' = [home EXCEPT ![submitted + 1] = now]
    /\ fate' = [fate EXCEPT ![submitted + 1] = "begun"]
    /\ bucket' = [bucket EXCEPT !["server"] = now]
    /\ Goto("server", "compare")
    /\ NoteOverlap(InSubmit("reporter") \/ Flushing)
    /\ UNCHANGED <<now, value, heap, metric_by_bucket, cache, mbc, flushVars,
                   reported_for, raised>>

\* Reporter.run: send_packet_count, which submits a sample of its own.
SendPacketCount ==
    /\ fpc = "wait"
    /\ flushes < MaxFlushes
    /\ fpc' = "count"
    /\ bucket' = [bucket EXCEPT !["reporter"] = now]
    /\ Goto("reporter", "compare")
    /\ NoteOverlap(InSubmit("server"))
    /\ UNCHANGED <<now, value, heap, metric_by_bucket, cache, mbc, todo,
                   flushes, history, raised>>

\* if bucket_start_timestamp == self.current_bucket
Compare(t) ==
    /\ pc[t] = "compare"
    /\ Goto(t, IF bucket[t] = current_bucket THEN "cached" ELSE "lookup")
    /\ UNCHANGED <<now, value, heap, metric_by_bucket, cache, bucket, mbc,
                   flushVars, history, overlap, raised>>

\* metric_by_context = self.current_mbc
Cached(t) ==
    /\ pc[t] = "cached"
    /\ mbc' = [mbc EXCEPT ![t] = current_mbc]
    /\ Goto(t, "insert")
    /\ UNCHANGED <<now, value, heap, metric_by_bucket, cache, bucket, flushVars,
                   history, overlap, raised>>

\* Mutant: a bucket is only made when there is none at all.
NoBucketAtAll(t) == DOMAIN metric_by_bucket = {}

NotInBuckets(t) == bucket[t] \notin DOMAIN metric_by_bucket

\* if not in self.metric_by_bucket: self.metric_by_bucket[...] = {}
Lookup(t) ==
    /\ pc[t] = "lookup"
    /\ Goto(t, "get")
    /\ \/ /\ ~NotInBuckets(t)
          /\ UNCHANGED <<heap, metric_by_bucket>>
       \/ /\ NotInBuckets(t)
          /\ heap' = NewDict
          /\ metric_by_bucket' =
                [b \in DOMAIN metric_by_bucket \cup {bucket[t]} |->
                    IF b = bucket[t] THEN Len(heap') ELSE metric_by_bucket[b]]
    /\ UNCHANGED <<now, value, cache, bucket, mbc, flushVars, history, overlap,
                   raised>>

\* metric_by_context = self.metric_by_bucket[bucket_start_timestamp], where a
\* KeyError ends the server's datagram, and would end the Reporter's thread.
Get(t) ==
    /\ pc[t] = "get"
    /\ \/ /\ bucket[t] \in DOMAIN metric_by_bucket
          /\ mbc' = [mbc EXCEPT ![t] = metric_by_bucket[bucket[t]]]
          /\ Goto(t, "set_bucket")
          /\ UNCHANGED <<fate, raised>>
       \/ /\ bucket[t] \notin DOMAIN metric_by_bucket
          /\ Goto(t, "idle")
          /\ fate' = IF t = "server" THEN [fate EXCEPT ![submitted] = "error"] ELSE fate
          /\ raised' = (raised \/ t = "reporter")
          /\ UNCHANGED mbc
    /\ UNCHANGED <<now, value, heap, metric_by_bucket, cache, bucket, flushVars,
                   submitted, home, reported_for, overlap>>

\* self.current_bucket = bucket_start_timestamp
SetBucket(t) ==
    /\ pc[t] = "set_bucket"
    /\ current_bucket' = bucket[t]
    /\ Goto(t, "set_mbc")
    /\ UNCHANGED <<now, value, heap, metric_by_bucket, current_mbc, bucket, mbc,
                   flushVars, history, overlap, raised>>

\* self.current_mbc = metric_by_context
SetMbc(t) ==
    /\ pc[t] = "set_mbc"
    /\ current_mbc' = mbc[t]
    /\ Goto(t, "insert")
    /\ UNCHANGED <<now, value, heap, metric_by_bucket, current_bucket, bucket,
                   mbc, flushVars, history, overlap, raised>>

\* if context not in metric_by_context: metric_by_context[context] = ...
Insert(t) ==
    /\ pc[t] = "insert"
    /\ heap' = [heap EXCEPT ![mbc[t]] =
                   [c \in DOMAIN @ \cup {t} |-> IF c \in DOMAIN @ THEN @[c] ELSE {}]]
    /\ Goto(t, IF t = "server" THEN "read" ELSE "write")
    /\ UNCHANGED <<now, value, metric_by_bucket, cache, bucket, mbc, flushVars,
                   history, overlap, raised>>

\* metric_by_context[context].sample(...), where Counter.sample first reads
\* self.value, adds to it ...
SampleRead ==
    /\ pc["server"] = "read"
    /\ value' = heap[mbc["server"]]["server"]
    /\ Goto("server", "write")
    /\ UNCHANGED <<now, heap, metric_by_bucket, cache, bucket, mbc, flushVars,
                   history, overlap, raised>>

\* ... and then writes it; the packet count, a gauge, is only written.
SampleWrite(t) ==
    /\ pc[t] = "write"
    /\ heap' = [heap EXCEPT ![mbc[t]][t] =
                   IF t = "server" THEN value \cup {submitted} ELSE {0}]
    /\ value' = IF t = "server" THEN {} ELSE value
    /\ fate' = IF t = "server" THEN [fate EXCEPT ![submitted] = "stored"] ELSE fate
    /\ Goto(t, "idle")
    /\ UNCHANGED <<now, metric_by_bucket, cache, bucket, mbc, flushVars,
                   submitted, home, reported_for, overlap, raised>>

(***************************************************************************)
(* flush.                                                                  *)
(***************************************************************************)

\* The clock and the sorted list of the buckets.
FlushBegin ==
    /\ fpc = "count"
    /\ pc["reporter"] = "idle"
    /\ fpc' = "buckets"
    /\ todo' = {b \in DOMAIN metric_by_bucket : b < now}
    /\ flushes' = flushes + 1
    /\ NoteOverlap(InSubmit("server"))
    /\ UNCHANGED <<now, value, heap, metric_by_bucket, cache, pc, bucket, mbc,
                   history, raised>>

Earliest == CHOOSE b \in todo : \A d \in todo : b <= d

\* Every metric of the earliest bucket is flushed; one that was created and not
\* yet sampled is dropped.  Flushing takes the samples out of the metric; what
\* the other thread writes in between is lost as it is lost just after this.
FlushMetrics ==
    LET b == Earliest
        d == metric_by_bucket[b]
        sent == UNION {heap[d][c] : c \in DOMAIN heap[d]}
    IN  /\ fpc = "buckets"
        /\ todo # {}
        /\ fpc' = "delete"
        /\ heap' = [heap EXCEPT ![d] = [c \in DOMAIN @ |-> {}]]
        /\ fate' = [s \in Samples |-> IF s \in sent THEN "reported" ELSE fate[s]]
        /\ reported_for' = [s \in Samples |-> IF s \in sent
                                               THEN Append(reported_for[s], b)
                                               ELSE reported_for[s]]
        /\ UNCHANGED <<now, value, metric_by_bucket, cache, pc, bucket, mbc,
                       todo, flushes, submitted, home, overlap, raised>>

\* Mutant: the bucket stays.
KeepDict(b) == metric_by_bucket

\* del self.metric_by_bucket[bucket_start_timestamp]
Without(b) == Restrict(metric_by_bucket, DOMAIN metric_by_bucket \ {b})

FlushDelete ==
    /\ fpc = "delete"
    /\ metric_by_bucket' = Without(Earliest)
    /\ todo' = todo \ {Earliest}
    /\ fpc' = "buckets"
    /\ UNCHANGED <<now, value, heap, cache, pc, bucket, mbc, flushes, history,
                   overlap, raised>>

\* Mutant: the cache is not reset and keeps the dictionary of a flushed bucket.
KeepCache == UNCHANGED current_bucket

ResetBucket == current_bucket' = None

\* self.current_bucket = None
FlushResetBucket ==
    /\ fpc = "buckets"
    /\ todo = {}
    /\ ResetBucket
    /\ fpc' = "reset"
    /\ UNCHANGED <<now, value, heap, metric_by_bucket, current_mbc, pc, bucket,
                   mbc, todo, flushes, history, overlap, raised>>

\* self.current_mbc = {}
FlushResetMbc ==
    /\ fpc = "reset"
    /\ heap' = NewDict
    /\ current_mbc' = Len(heap')
    /\ fpc' = "wait"
    /\ UNCHANGED <<now, value, metric_by_bucket, current_bucket, pc, bucket,
                   mbc, todo, flushes, history, overlap, raised>>

Next ==
    \/ Tick \/ Receive \/ SendPacketCount
    \/ \E t \in Threads : \/ Compare(t) \/ Cached(t) \/ Lookup(t) \/ Get(t)
                         \/ SetBucket(t) \/ SetMbc(t) \/ Insert(t)
                         \/ SampleWrite(t)
    \/ SampleRead
    \/ FlushBegin \/ FlushMetrics \/ FlushDelete
    \/ FlushResetBucket \/ FlushResetMbc

Spec == Init /\ [][Next]_vars

-----------------------------------------------------------------------------
TypeOK ==
    /\ now \in Times
    /\ Range(metric_by_bucket) \subseteq DOMAIN heap
    /\ DOMAIN metric_by_bucket \subseteq Times
    /\ \A d \in DOMAIN heap : /\ DOMAIN heap[d] \subseteq Contexts
                             /\ Range(heap[d]) \subseteq SUBSET (Samples \cup {0})
    /\ current_bucket \in Times \cup {None} /\ current_mbc \in DOMAIN heap
    /\ pc \in [Threads -> {"idle", "compare", "cached", "lookup", "get",
                           "set_bucket", "set_mbc", "insert", "read", "write"}]
    /\ bucket \in [Threads -> Times] /\ mbc \in [Threads -> DOMAIN heap]
    /\ value \subseteq Samples
    /\ fpc \in {"wait", "count", "buckets", "delete", "reset"}
    /\ todo \subseteq DOMAIN metric_by_bucket

\* No sample is reported twice, even when the threads do race: flush deletes
\* what it has read, and what is put there too late is lost, not repeated.
AtMostOnce == \A s \in Samples : Len(reported_for[s]) <= 1

\* No two buckets share a dictionary, so a sample counts in one bucket only.
OwnDictionary ==
    \A b, d \in DOMAIN metric_by_bucket :
        metric_by_bucket[b] = metric_by_bucket[d] => b = d

\* send_packet_count is called outside the try of Reporter.flush: an exception
\* in it would end the Reporter's thread.  The other thread causes none.
ReporterSurvives == ~raised

\* As long as the server and the Reporter are never in the aggregator at the
\* same time, the cache points where metric_by_bucket does, a stored sample
\* waits in its bucket, and one that was reported was reported for its bucket.
NothingLostAlone ==
    ~overlap =>
        /\ \A t \in Threads : pc[t] = "cached"
              => /\ bucket[t] \in DOMAIN metric_by_bucket
                 /\ current_mbc = metric_by_bucket[bucket[t]]
        /\ \A s \in Samples :
              /\ fate[s] # "error"
              /\ Range(reported_for[s]) \subseteq {home[s]}
              /\ fate[s] = "stored"
                    => /\ home[s] \in DOMAIN metric_by_bucket
                       /\ s \in heap[metric_by_bucket[home[s]]]["server"]

\* The state both threads share: of its type, with a dictionary for each bucket, no sample
\* reported a second time, and without an exception that would end the Reporter.
Consistent == TypeOK /\ OwnDictionary /\ AtMostOnce /\ ReporterSurvives
==============================================================================
