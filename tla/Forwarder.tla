------------------------------ MODULE Forwarder ------------------------------
(***************************************************************************)
(* The forwarder of the agent (forwarder/forwarder.py, worker.py,          *)
(* transaction.py): threads that submit payloads, a bounded input queue,   *)
(* nb_worker Workers that POST to the Datadog intake, a bounded retry      *)
(* queue, and one RetryWorker that holds failed transactions back and puts *)
(* them on the input queue again.                                          *)
(*                                                                         *)
(* A transaction is the number of its construction: created_at grows with  *)
(* it.  RetryWorker.transactions is a set, since the list is sorted by     *)
(* created_at before it is read.  A point in the future (next_flush,       *)
(* flush_time) is the number of seconds left until it, 0 once passed.      *)
(***************************************************************************)
EXTENDS Integers, Sequences, FiniteSets, Functions

CONSTANTS
    Workers,              \* the Worker threads, nb_worker of them
    Submitters,           \* the threads that call submit_v1_*
    QUEUES_SIZE,          \* capacity of input_queue and of retry_queue
    RETRY_INTERVAL,       \* back-off added by each try
    MAX_RETRY_INTERVAL,   \* longest back-off
    FLUSH_INTERVAL,       \* RetryWorker.flush_interval
    RETRY_QUEUE_MAX_SIZE, \* forwarder_retry_queue_max_size
    MaxTransactions,      \* bound: payloads submitted in one run
    MaxTry,               \* bound: nb_try is not counted beyond it
    StatCap,              \* bound: counters are not counted beyond it
    MaxCopies,            \* bound: copies are not counted beyond it
    None,                 \* no transaction
    RetryWorker           \* the RetryWorker thread

\* The code's values are 100, 5, 90, 5 and 30; at MaxTry tries the back-off
\* has reached its maximum, so not counting further changes no delay.
ASSUME ForwarderAssumption ==
    /\ Workers # {}
    /\ QUEUES_SIZE \in Nat \ {0}
    /\ RETRY_INTERVAL \in Nat \ {0}
    /\ MAX_RETRY_INTERVAL \in Nat \ {0}
    /\ FLUSH_INTERVAL \in Nat \ {0}
    /\ RETRY_QUEUE_MAX_SIZE \in Nat
    /\ MaxTransactions \in Nat
    /\ MaxTry \in Nat /\ MaxTry * RETRY_INTERVAL >= MAX_RETRY_INTERVAL
    /\ StatCap \in Nat
    /\ MaxCopies \in Nat
    /\ None \notin Nat
    /\ RetryWorker \notin Workers

Transactions == 1 .. MaxTransactions
Threads == Workers \cup {RetryWorker}

VARIABLES
    lifecycle,    \* of start() and stop(): "new", "up", "stop", "join", "stopped"
    exit,         \* the threads whose exit Event is set
    created,      \* number of Transactions constructed
    sub,          \* the transaction a submitter is about to enqueue
    input_queue,
    retry_queue,
    wpc,          \* where each Worker is in its loop
    hand,         \* the transaction each Worker holds
    rpc,          \* where the RetryWorker is in its loop
    transactions, \* RetryWorker.transactions; during a flush, its list keep
    due,          \* during a flush, the due transactions not yet requeued
    flush_in,     \* seconds until flush_time
    nb_try,       \* Transaction.nb_try
    next_flush,   \* seconds until Transaction.next_flush, 0 for None
    stats,        \* the forwarder's Stats
    fate,         \* history: how each transaction ended, if it has
    copies,       \* history: how many copies of it the intake took
    link          \* environment: whether the intake answers

submission == <<created, sub>>
workerVars == <<wpc, hand>>
retryVars == <<rpc, transactions, due, flush_in>>
txVars == <<nb_try, next_flush, copies>>
vars == <<lifecycle, exit, submission, input_queue, retry_queue, workerVars,
          retryVars, txVars, stats, fate, link>>

\* What can end a transaction: an answer of the intake, a drop at one of the
\* three places where the code logs one, the cut of the retry list, or an
\* exception that Worker catches.
Final == {"accepted", "rejected", "input_full", "retry_full", "requeue_full",
          "truncated", "error"}

StatKeys == {"payloads", "transactions_success", "transactions_rescheduled",
             "queue_full_errors"}

Lesser(m, n) == IF m <= n THEN m ELSE n
Positive(n) == IF n >= 0 THEN n ELSE 0

\* Mutant: the counter is set where it should be incremented.
SetStat(key) == stats' = [stats EXCEPT ![key] = Lesser(1, StatCap)]

\* Stats.inc_stat(key, 1), under its mutex.
IncStat(key) == stats' = [stats EXCEPT ![key] = Lesser(@ + 1, StatCap)]

\* Transaction.reschedule: the seconds until the next attempt.
RetryDelay(t) == Lesser(nb_try[t] * RETRY_INTERVAL, MAX_RETRY_INTERVAL)

\* What the intake does with a POST of t: it takes a copy, or it does not.
Receipt(t, taken) ==
    copies' = IF taken THEN [copies EXCEPT ![t] = Lesser(@ + 1, MaxCopies)]
                       ELSE copies

\* Mutant: the sort without reverse=True.
Oldest(S, n) == {t \in S : Cardinality({u \in S : u < t}) < n}

\* sort(key=created_at, reverse=True) followed by [:n].
Newest(S, n) == {t \in S : Cardinality({u \in S : u > t}) < n}

\* Mutant: a queue that takes one element too many.
HasRoomForOneMore(q) == Len(q) <= QUEUES_SIZE

\* put_nowait(t): FALSE stands for queue.Full.
HasRoom(q) == Len(q) < QUEUES_SIZE

-----------------------------------------------------------------------------
Init ==
    /\ lifecycle = "new"
    /\ exit = {}
    /\ created = 0
    /\ sub = [p \in Submitters |-> None]
    /\ input_queue = <<>>
    /\ retry_queue = <<>>
    /\ wpc = [w \in Workers |-> "unborn"]
    /\ hand = [w \in Workers |-> None]
    /\ rpc = "unborn"
    /\ transactions = {}
    /\ due = {}
    /\ flush_in = 0
    /\ nb_try = [t \in Transactions |-> 0]
    /\ next_flush = [t \in Transactions |-> 0]
    /\ stats = [k \in StatKeys |-> 0]
    /\ fate = [t \in Transactions |-> "none"]
    /\ copies = [t \in Transactions |-> 0]
    /\ link \in {"up", "down"}

(***************************************************************************)
(* Life cycle, called by Agent.run and by the signal handler.              *)
(***************************************************************************)

\* Forwarder.start: every thread is created and enters its loop; the
\* RetryWorker computes its first flush_time.
Start ==
    /\ lifecycle = "new"
    /\ lifecycle' = "up"
    /\ wpc' = [w \in Workers |-> "loop"]
    /\ rpc' = "loop"
    /\ flush_in' = FLUSH_INTERVAL
    /\ UNCHANGED <<exit, submission, input_queue, retry_queue, hand,
                   transactions, due, txVars, stats, fate, link>>

\* Mutant: stop() without retry_worker.stop().
StopWorkersOnly ==
    /\ lifecycle = "up"
    /\ lifecycle' = "stop"
    /\ UNCHANGED <<exit, submission, input_queue, retry_queue, workerVars,
                   retryVars, txVars, stats, fate, link>>

\* Forwarder.stop: the exit Event of the RetryWorker first...
Stop ==
    /\ lifecycle = "up"
    /\ lifecycle' = "stop"
    /\ exit' = exit \cup {RetryWorker}
    /\ UNCHANGED <<submission, input_queue, retry_queue, workerVars, retryVars,
                   txVars, stats, fate, link>>

\* ...then one Worker's after the other...
StopWorker(w) ==
    /\ lifecycle = "stop"
    /\ w \notin exit
    /\ exit' = exit \cup {w}
    /\ lifecycle' = IF Workers \subseteq exit' THEN "join" ELSE "stop"
    /\ UNCHANGED <<submission, input_queue, retry_queue, workerVars, retryVars,
                   txVars, stats, fate, link>>

\* ...then the joins, each of which ends with the thread or after
\* WORKER_JOIN_TIME whether or not the thread has ended.
Joined ==
    /\ lifecycle = "join"
    /\ lifecycle' = "stopped"
    /\ UNCHANGED <<exit, submission, input_queue, retry_queue, workerVars,
                   retryVars, txVars, stats, fate, link>>

(***************************************************************************)
(* Submission: the collector's and dogstatsd's threads.                    *)
(***************************************************************************)

\* submit_v1_series, submit_v1_intake, submit_v1_service_checks: count the
\* payload and construct its Transaction.  Nothing prevents it after stop().
Submit(p) ==
    /\ lifecycle # "new"
    /\ sub[p] = None
    /\ created < MaxTransactions
    /\ created' = created + 1
    /\ sub' = [sub EXCEPT ![p] = created + 1]
    /\ fate' = [fate EXCEPT ![created + 1] = "live"]
    /\ IncStat("payloads")
    /\ UNCHANGED <<lifecycle, exit, input_queue, retry_queue, workerVars,
                   retryVars, txVars, link>>

\* input_queue.put_nowait(t), or drop it when the queue is full.
Enqueue(p) ==
    /\ sub[p] # None
    /\ sub' = [sub EXCEPT ![p] = None]
    /\ \/ /\ HasRoom(input_queue)
          /\ input_queue' = Append(input_queue, sub[p])
          /\ UNCHANGED fate
       \/ /\ ~HasRoom(input_queue)
          /\ fate' = [fate EXCEPT ![sub[p]] = "input_full"]
          /\ UNCHANGED input_queue
    /\ UNCHANGED <<lifecycle, exit, created, retry_queue, workerVars, retryVars,
                   txVars, stats, link>>

(***************************************************************************)
(* Worker.run.                                                             *)
(***************************************************************************)

\* while not self.exit.is_set()
WorkerLoop(w) ==
    /\ wpc[w] = "loop"
    /\ wpc' = [wpc EXCEPT ![w] = IF w \in exit THEN "stopped" ELSE "get"]
    /\ UNCHANGED <<lifecycle, exit, submission, input_queue, retry_queue, hand,
                   retryVars, txVars, stats, fate, link>>

\* input_queue.get(True, 1) returns, and process() counts a try and POSTs.
WorkerGet(w) ==
    /\ wpc[w] = "get"
    /\ input_queue # <<>>
    /\ hand' = [hand EXCEPT ![w] = Head(input_queue)]
    /\ nb_try' = [nb_try EXCEPT ![Head(input_queue)] = Lesser(@ + 1, MaxTry)]
    /\ input_queue' = Tail(input_queue)
    /\ wpc' = [wpc EXCEPT ![w] = "post"]
    /\ UNCHANGED <<lifecycle, exit, submission, retry_queue, retryVars,
                   next_flush, copies, stats, fate, link>>

\* input_queue.get(True, 1) raises queue.Empty after a second.
WorkerEmpty(w) ==
    /\ wpc[w] = "get"
    /\ input_queue = <<>>
    /\ wpc' = [wpc EXCEPT ![w] = "loop"]
    /\ UNCHANGED <<lifecycle, exit, submission, input_queue, retry_queue, hand,
                   retryVars, txVars, stats, fate, link>>

\* process() returns True: an answer below 400, or one of 400, 403, 404 and
\* 413, which drops the transaction.  Both count as a success.
PostAnswered(w) ==
    /\ wpc[w] = "post"
    /\ link = "up"
    /\ \E answer \in {"accepted", "rejected"} :
          /\ fate' = [fate EXCEPT ![hand[w]] = answer]
          /\ Receipt(hand[w], answer = "accepted")
    /\ IncStat("transactions_success")
    /\ hand' = [hand EXCEPT ![w] = None]
    /\ wpc' = [wpc EXCEPT ![w] = "loop"]
    /\ UNCHANGED <<lifecycle, exit, submission, input_queue, retry_queue,
                   retryVars, nb_try, next_flush, link>>

\* process() returns False: a timeout, a proxy, TLS or connection error, or
\* any other status of 400 and more.  reschedule() sets next_flush.  When only
\* the answer was lost the intake has a copy, and will get another.
PostFailed(w) ==
    /\ wpc[w] = "post"
    /\ link = "down"
    /\ \E taken \in BOOLEAN : Receipt(hand[w], taken)
    /\ next_flush' = [next_flush EXCEPT ![hand[w]] = RetryDelay(hand[w])]
    /\ wpc' = [wpc EXCEPT ![w] = "put"]
    /\ UNCHANGED <<lifecycle, exit, submission, input_queue, retry_queue, hand,
                   retryVars, nb_try, stats, fate, link>>

\* Mutant: no except clause, the exception ends the thread.
PostRaisedKills(w) ==
    /\ wpc[w] = "post"
    /\ fate' = [fate EXCEPT ![hand[w]] = "error"]
    /\ hand' = [hand EXCEPT ![w] = None]
    /\ wpc' = [wpc EXCEPT ![w] = "stopped"]
    /\ UNCHANGED <<lifecycle, exit, submission, input_queue, retry_queue,
                   retryVars, txVars, stats, link>>

\* An exception escapes process(): Worker logs it and forgets the transaction.
PostRaised(w) ==
    /\ wpc[w] = "post"
    /\ fate' = [fate EXCEPT ![hand[w]] = "error"]
    /\ \E taken \in BOOLEAN : Receipt(hand[w], taken)
    /\ hand' = [hand EXCEPT ![w] = None]
    /\ wpc' = [wpc EXCEPT ![w] = "loop"]
    /\ UNCHANGED <<lifecycle, exit, submission, input_queue, retry_queue,
                   retryVars, nb_try, next_flush, stats, link>>

\* retry_queue.put_nowait(t), or drop it when the queue is full.
WorkerRetry(w) ==
    /\ wpc[w] = "put"
    /\ hand' = [hand EXCEPT ![w] = None]
    /\ wpc' = [wpc EXCEPT ![w] = "loop"]
    /\ \/ /\ HasRoom(retry_queue)
          /\ retry_queue' = Append(retry_queue, hand[w])
          /\ IncStat("transactions_rescheduled")
          /\ UNCHANGED fate
       \/ /\ ~HasRoom(retry_queue)
          /\ fate' = [fate EXCEPT ![hand[w]] = "retry_full"]
          /\ IncStat("queue_full_errors")
          /\ UNCHANGED retry_queue
    /\ UNCHANGED <<lifecycle, exit, submission, input_queue, retryVars, txVars,
                   link>>

(***************************************************************************)
(* RetryWorker.run.                                                        *)
(***************************************************************************)

RetryLoop ==
    /\ rpc = "loop"
    /\ rpc' = IF RetryWorker \in exit THEN "stopped" ELSE "get"
    /\ UNCHANGED <<lifecycle, exit, submission, input_queue, retry_queue,
                   workerVars, transactions, due, flush_in, txVars, stats, fate,
                   link>>

\* retry_queue.get(True, GET_TIMEOUT): one transaction, or queue.Empty.
RetryGet ==
    /\ rpc = "get"
    /\ rpc' = "check"
    /\ \/ /\ retry_queue # <<>>
          /\ transactions' = transactions \cup {Head(retry_queue)}
          /\ retry_queue' = Tail(retry_queue)
       \/ /\ retry_queue = <<>>
          /\ UNCHANGED <<transactions, retry_queue>>
    /\ UNCHANGED <<lifecycle, exit, submission, input_queue, workerVars, due,
                   flush_in, txVars, stats, fate, link>>

\* Mutants: the back-off is not looked at, or never seen to be over.
NeverHeld(t) == FALSE
AlwaysHeld(t) == next_flush[t] >= 0

\* t.next_flush > now, for a transaction that failed before.
NotDue(t) == next_flush[t] > 0

\* Mutant: a transaction that is put on the input queue is kept as well.
KeepAll(S) == S

\* The list keep, before it is cut.
Keep(S) == {t \in S : NotDue(t)}

\* if flush_time <= time.time(): _flush_transactions reads the clock once and
\* tells the due transactions from the ones to keep.
RetryCheck ==
    /\ rpc = "check"
    /\ \/ /\ flush_in > 0
          /\ rpc' = "loop"
          /\ UNCHANGED <<transactions, due>>
       \/ /\ flush_in = 0
          /\ rpc' = "flush"
          /\ due' = {t \in transactions : ~NotDue(t)}
          /\ transactions' = Keep(transactions)
    /\ UNCHANGED <<lifecycle, exit, submission, input_queue, retry_queue,
                   workerVars, flush_in, txVars, stats, fate, link>>

\* One due transaction, newest first: input_queue.put_nowait(t), or drop it.
FlushPut ==
    /\ rpc = "flush"
    /\ \E t \in due :
          /\ \A u \in due : u <= t
          /\ due' = due \ {t}
          /\ \/ /\ HasRoom(input_queue)
                /\ input_queue' = Append(input_queue, t)
                /\ UNCHANGED fate
             \/ /\ ~HasRoom(input_queue)
                /\ fate' = [fate EXCEPT ![t] = "requeue_full"]
                /\ UNCHANGED input_queue
    /\ UNCHANGED <<lifecycle, exit, submission, retry_queue, workerVars, rpc,
                   transactions, flush_in, txVars, stats, link>>

\* self.transactions = keep[:retry_queue_max_size]; the next flush_time.
FlushEnd ==
    /\ rpc = "flush"
    /\ due = {}
    /\ transactions' = Newest(transactions, RETRY_QUEUE_MAX_SIZE)
    /\ fate' = [t \in Transactions |-> IF t \in transactions \ transactions'
                                       THEN "truncated" ELSE fate[t]]
    /\ flush_in' = FLUSH_INTERVAL
    /\ rpc' = "loop"
    /\ UNCHANGED <<lifecycle, exit, submission, input_queue, retry_queue,
                   workerVars, due, txVars, stats, link>>

(***************************************************************************)
(* Environment: a second passes, the intake fails or answers again.        *)
(***************************************************************************)

Tick ==
    /\ flush_in > 0 \/ \E t \in Transactions : next_flush[t] > 0
    /\ flush_in' = Positive(flush_in - 1)
    /\ next_flush' = [t \in Transactions |-> Positive(next_flush[t] - 1)]
    /\ UNCHANGED <<lifecycle, exit, submission, input_queue, retry_queue,
                   workerVars, rpc, transactions, due, nb_try, copies, stats,
                   fate, link>>

Outage ==
    /\ link' = IF link = "up" THEN "down" ELSE "up"
    /\ UNCHANGED <<lifecycle, exit, submission, input_queue, retry_queue,
                   workerVars, retryVars, txVars, stats, fate>>

-----------------------------------------------------------------------------
WorkerNext(w) ==
    \/ WorkerLoop(w) \/ WorkerGet(w) \/ WorkerEmpty(w)
    \/ PostAnswered(w) \/ PostFailed(w) \/ PostRaised(w)
    \/ WorkerRetry(w)

RetryNext == RetryLoop \/ RetryGet \/ RetryCheck \/ FlushPut \/ FlushEnd

StopNext == (\E w \in Workers : StopWorker(w)) \/ Joined

Next ==
    \/ Start \/ Stop \/ StopNext
    \/ \E p \in Submitters : Submit(p) \/ Enqueue(p)
    \/ \E w \in Workers : WorkerNext(w)
    \/ RetryNext
    \/ Tick \/ Outage

Spec == Init /\ [][Next]_vars

(***************************************************************************)
(* Every thread of the process is scheduled, every POST ends (each has a   *)
(* timeout) and time passes.  Nobody has to submit, to stop the agent or   *)
(* to repair the intake.                                                   *)
(***************************************************************************)
Fairness ==
    /\ \A w \in Workers : WF_vars(WorkerNext(w))
    /\ WF_vars(RetryNext)
    /\ WF_vars(Tick)
    /\ WF_vars(StopNext)
    /\ \A p \in Submitters : WF_vars(Enqueue(p))

FairSpec == Spec /\ Fairness

-----------------------------------------------------------------------------
TypeOK ==
    /\ lifecycle \in {"new", "up", "stop", "join", "stopped"}
    /\ exit \subseteq Threads
    /\ created \in 0 .. MaxTransactions
    /\ sub \in [Submitters -> Transactions \cup {None}]
    /\ input_queue \in Seq(Transactions) /\ Len(input_queue) <= QUEUES_SIZE
    /\ retry_queue \in Seq(Transactions) /\ Len(retry_queue) <= QUEUES_SIZE
    /\ wpc \in [Workers -> {"unborn", "loop", "get", "post", "put", "stopped"}]
    /\ hand \in [Workers -> Transactions \cup {None}]
    /\ rpc \in {"unborn", "loop", "get", "check", "flush", "stopped"}
    /\ transactions \subseteq Transactions
    /\ due \subseteq Transactions
    /\ flush_in \in 0 .. FLUSH_INTERVAL
    /\ nb_try \in [Transactions -> 0 .. MaxTry]
    /\ next_flush \in [Transactions -> 0 .. MAX_RETRY_INTERVAL]
    /\ stats \in [StatKeys -> 0 .. StatCap]
    /\ fate \in [Transactions -> {"none", "live"} \cup Final]
    /\ copies \in [Transactions -> 0 .. MaxCopies]
    /\ link \in {"up", "down"}

\* The transactions in each place of the forwarder.
InHand == {hand[w] : w \in Workers} \ {None}
Submitting == {sub[p] : p \in Submitters} \ {None}
Held == [sub |-> Submitting, input |-> Range(input_queue), hand |-> InHand,
         retry |-> Range(retry_queue), list |-> transactions, due |-> due]

NoDuplicate(q) == \A i, j \in DOMAIN q : q[i] = q[j] => i = j

\* Each submitted transaction that the intake has not answered and that no
\* drop has ended is in exactly one place: no thread loses one and none is
\* put where two threads would send it.  An ended one is nowhere any more.
OnePlace ==
    /\ NoDuplicate(input_queue) /\ NoDuplicate(retry_queue)
    /\ \A v, w \in Workers : hand[v] = hand[w] /\ hand[v] # None => v = w
    /\ \A p, q \in Submitters : sub[p] = sub[q] /\ sub[p] # None => p = q
    /\ \A a, b \in DOMAIN Held : a # b => Held[a] \cap Held[b] = {}
    /\ {t \in Transactions : fate[t] = "live"}
          = UNION {Held[a] : a \in DOMAIN Held}

\* A failed transaction is never POSTed again before the back-off that
\* reschedule() gave it has run out, whatever path it took to the Worker.
RespectBackoff ==
    \A w \in Workers : wpc[w] = "post" => next_flush[hand[w]] = 0

\* The transactions that ended in one of these ways.
Ended(ends) == {t \in Transactions : fate[t] \in ends}

\* The counters the status page shows agree with what became of the payloads.
Accounting ==
    /\ stats["payloads"] = Lesser(created, StatCap)
    /\ stats["transactions_success"]
          = Lesser(Cardinality(Ended({"accepted", "rejected"})), StatCap)
    /\ stats["queue_full_errors"] = Lesser(Cardinality(Ended({"retry_full"})), StatCap)

\* The state of the forwarder and the statistics of it.
ForwarderInv == TypeOK /\ Accounting

\* An end is final: what the intake answered, or the forwarder dropped and
\* logged, is not sent again and gets no second end.
EndsOnce ==
    [][\A t \in Transactions : fate[t] \in Final => fate'[t] = fate[t]]_vars

\* This step gives the transaction this end.
Meets(t, end) == fate[t] # end /\ fate'[t] = end

\* What has no room is dropped from the oldest end, and only then: the flush
\* takes the due transactions from the newest to the oldest, it drops one only
\* while the input queue is full, and its cut drops one only when the list then
\* has as many as it may have, all of them newer.
NewestFirst ==
    [][/\ \A t \in due \ due', u \in due' : u < t
       /\ \A t \in Transactions : Meets(t, "requeue_full")
             => t \in due \ due' /\ Len(input_queue) = QUEUES_SIZE
       /\ \A t \in Transactions : Meets(t, "truncated")
             => /\ Cardinality(transactions') = RETRY_QUEUE_MAX_SIZE
                /\ \A u \in transactions' : t < u]_vars

\* The forwarder keeps the promise of Delivery: whatever queues and threads a
\* payload passes, it has one end, and the intake gets a second copy only when
\* the answer to an earlier one was lost, never after an answer or a drop.
Promise == INSTANCE Delivery
ImplementsDelivery == Promise!Spec

\* No transaction is starved in the RetryWorker's list, even while the intake
\* stays down and newer ones keep arriving.
RetryListDrains ==
    \A t \in Transactions :
        t \in transactions ~> (t \notin transactions \/ lifecycle # "up")

\* Once the intake answers for good, every payload is answered or dropped.
EventuallySettled ==
    <>[](link = "up") =>
        \A t \in Transactions :
            fate[t] = "live" ~> (fate[t] # "live" \/ lifecycle # "up")

\* After stop() every thread ends, also one that was in the middle of a POST
\* or of a flush when its Event was set.
StopEndsThreads ==
    lifecycle = "stop"
        ~> (rpc = "stopped" /\ \A w \in Workers : wpc[w] = "stopped")
==============================================================================
