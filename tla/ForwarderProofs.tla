--------------------------- MODULE ForwarderProofs ---------------------------
(***************************************************************************)
(* Proofs about Forwarder, for any number of Workers, submitters and       *)
(* transactions and for any capacity and interval.                         *)
(***************************************************************************)
EXTENDS Forwarder, FiniteSetTheorems, WellFoundedInduction, TLAPS

\* The assumptions on the constants, without the product of two of them.
LEMMA ConstantTypes ==
    /\ QUEUES_SIZE \in Nat \ {0}
    /\ RETRY_INTERVAL \in Nat \ {0}
    /\ MAX_RETRY_INTERVAL \in Nat \ {0}
    /\ FLUSH_INTERVAL \in Nat \ {0}
    /\ RETRY_QUEUE_MAX_SIZE \in Nat
    /\ MaxTransactions \in Nat
    /\ MaxTry \in Nat
    /\ StatCap \in Nat
    /\ MaxCopies \in Nat
    /\ None \notin Transactions
    /\ RetryWorker \notin Workers
BY ForwarderAssumption DEF Transactions

USE ConstantTypes

-----------------------------------------------------------------------------
(***************************************************************************)
(* The helpers.                                                            *)
(***************************************************************************)

\* The smaller of two numbers is a number and below both.
LEMMA LesserType ==
    ASSUME NEW m \in Nat, NEW n \in Nat
    PROVE  Lesser(m, n) \in 0 .. n
BY DEF Lesser

\* A back-off is never longer than MAX_RETRY_INTERVAL.
LEMMA RetryDelayType ==
    ASSUME TypeOK, NEW t \in Transactions
    PROVE  RetryDelay(t) \in 0 .. MAX_RETRY_INTERVAL
<1>1. nb_try[t] \in Nat /\ RETRY_INTERVAL \in Nat
  BY DEF TypeOK
<1>2. nb_try[t] * RETRY_INTERVAL \in Nat
  BY <1>1
<1> QED
  BY <1>2, LesserType DEF RetryDelay

\* Counting never leaves the range of the counters.
LEMMA IncStatType ==
    ASSUME TypeOK, NEW key \in StatKeys, IncStat(key)
    PROVE  stats' \in [StatKeys -> 0 .. StatCap]
<1>1. stats[key] + 1 \in Nat
  BY DEF TypeOK
<1>2. Lesser(stats[key] + 1, StatCap) \in 0 .. StatCap
  BY <1>1, LesserType
<1> QED
  BY <1>2 DEF TypeOK, IncStat

\* A copy more or less does not leave the range of copies.
LEMMA ReceiptType ==
    ASSUME TypeOK, NEW t \in Transactions, NEW taken \in BOOLEAN, Receipt(t, taken)
    PROVE  copies' \in [Transactions -> 0 .. MaxCopies]
<1>1. copies[t] + 1 \in Nat
  BY DEF TypeOK
<1>2. Lesser(copies[t] + 1, MaxCopies) \in 0 .. MaxCopies
  BY <1>1, LesserType
<1> QED
  BY <1>2 DEF TypeOK, Receipt

\* What put_nowait does to a queue with room: its elements, its length, and
\* that no element is twice in it if the new one was not there.
LEMMA PutProperties ==
    ASSUME NEW q \in Seq(Transactions), NEW t \in Transactions
    PROVE  /\ Append(q, t) \in Seq(Transactions)
           /\ Len(Append(q, t)) = Len(q) + 1
           /\ Range(Append(q, t)) = Range(q) \cup {t}
           /\ NoDuplicate(q) /\ t \notin Range(q) => NoDuplicate(Append(q, t))
<1>1. /\ Append(q, t) \in Seq(Transactions)
      /\ Len(Append(q, t)) = Len(q) + 1
      /\ DOMAIN Append(q, t) = 1 .. Len(q) + 1
      /\ DOMAIN q = 1 .. Len(q)
      /\ Len(q) \in Nat
      /\ \A i \in 1 .. Len(q) : Append(q, t)[i] = q[i]
      /\ Append(q, t)[Len(q) + 1] = t
  OBVIOUS
<1>2. Range(Append(q, t)) = Range(q) \cup {t}
  <2>1. \A i \in 1 .. Len(q) + 1 : i \in 1 .. Len(q) \/ i = Len(q) + 1
    BY <1>1
  <2> QED
    BY <1>1, <2>1 DEF Range
<1>3. ASSUME NoDuplicate(q), t \notin Range(q)
      PROVE  NoDuplicate(Append(q, t))
  BY <1>1, <1>3 DEF NoDuplicate, Range
<1> QED
  BY <1>1, <1>2, <1>3

\* What get does to a queue that is not empty.
LEMMA GetProperties ==
    ASSUME NEW q \in Seq(Transactions), q # <<>>
    PROVE  /\ Head(q) \in Transactions
           /\ Head(q) \in Range(q)
           /\ Tail(q) \in Seq(Transactions)
           /\ Len(Tail(q)) = Len(q) - 1
           /\ NoDuplicate(q) => /\ NoDuplicate(Tail(q))
                                /\ Range(Tail(q)) = Range(q) \ {Head(q)}
<1>1. Len(q) \in Nat \ {0} /\ DOMAIN q = 1 .. Len(q) /\ Head(q) = q[1]
  OBVIOUS
<1>2. /\ Tail(q) \in Seq(Transactions)
      /\ Len(Tail(q)) = Len(q) - 1
      /\ DOMAIN Tail(q) = 1 .. Len(q) - 1
      /\ \A i \in 1 .. Len(q) - 1 : Tail(q)[i] = q[i + 1]
  OBVIOUS
<1>3. Head(q) \in Transactions /\ Head(q) \in Range(q)
  BY <1>1 DEF Range
<1>4. ASSUME NoDuplicate(q)
      PROVE  NoDuplicate(Tail(q))
  BY <1>1, <1>2, <1>4 DEF NoDuplicate
<1>5. ASSUME NoDuplicate(q)
      PROVE  Range(Tail(q)) = Range(q) \ {Head(q)}
  <2>1. ASSUME NEW x \in Range(Tail(q))
        PROVE  x \in Range(q) \ {Head(q)}
    BY <1>1, <1>2, <1>5, <2>1 DEF Range, NoDuplicate
  <2>2. ASSUME NEW x \in Range(q), x # Head(q)
        PROVE  x \in Range(Tail(q))
    <3>1. PICK i \in DOMAIN q : x = q[i]
      BY DEF Range
    <3>2. i - 1 \in DOMAIN Tail(q) /\ Tail(q)[i - 1] = x
      BY <1>1, <1>2, <2>2, <3>1
    <3> QED
      BY <3>2 DEF Range
  <2> QED
    BY <2>1, <2>2
<1> QED
  BY <1>2, <1>3, <1>4, <1>5

\* put_nowait and get keep a queue of transactions within its capacity.
LEMMA PutType ==
    ASSUME NEW q \in Seq(Transactions), NEW t \in Transactions, HasRoom(q)
    PROVE  Append(q, t) \in Seq(Transactions) /\ Len(Append(q, t)) <= QUEUES_SIZE
BY PutProperties DEF HasRoom

LEMMA GetType ==
    ASSUME NEW q \in Seq(Transactions), Len(q) <= QUEUES_SIZE, q # <<>>
    PROVE  /\ Head(q) \in Transactions
           /\ Tail(q) \in Seq(Transactions) /\ Len(Tail(q)) <= QUEUES_SIZE
BY GetProperties

-----------------------------------------------------------------------------
(***************************************************************************)
(* Types.  Pc ties the place of each thread in its loop to what it holds:  *)
(* without it the type of hand would not survive a POST.                   *)
(***************************************************************************)
Pc ==
    /\ \A w \in Workers : wpc[w] \in {"post", "put"} <=> hand[w] # None
    /\ due # {} => rpc = "flush"
    /\ lifecycle = "new" => rpc = "unborn" /\ \A w \in Workers : wpc[w] = "unborn"

TypeInv == TypeOK /\ Pc

LEMMA TypeInit == Init => TypeInv
<1> SUFFICES ASSUME Init PROVE TypeInv
  OBVIOUS
<1>1. <<>> \in Seq(Transactions) /\ Len(<<>>) = 0
  OBVIOUS
<1>2. TypeOK
  BY <1>1 DEF Init, TypeOK
<1>3. Pc
  BY DEF Init, Pc
<1> QED
  BY <1>2, <1>3 DEF TypeInv

LEMMA TypeStep == TypeInv /\ [Next]_vars => TypeInv'
<1> SUFFICES ASSUME TypeInv, [Next]_vars PROVE TypeInv'
  OBVIOUS
<1>q. /\ input_queue \in Seq(Transactions) /\ Len(input_queue) <= QUEUES_SIZE
      /\ retry_queue \in Seq(Transactions) /\ Len(retry_queue) <= QUEUES_SIZE
  BY DEF TypeInv, TypeOK
<1>p. ASSUME NEW t \in Transactions, HasRoom(input_queue)
      PROVE  /\ Append(input_queue, t) \in Seq(Transactions)
             /\ Len(Append(input_queue, t)) <= QUEUES_SIZE
  BY <1>q, <1>p, PutType
<1>r. ASSUME NEW t \in Transactions, HasRoom(retry_queue)
      PROVE  /\ Append(retry_queue, t) \in Seq(Transactions)
             /\ Len(Append(retry_queue, t)) <= QUEUES_SIZE
  BY <1>q, <1>r, PutType
<1>g. ASSUME retry_queue # <<>>
      PROVE  /\ Head(retry_queue) \in Transactions
             /\ Tail(retry_queue) \in Seq(Transactions)
             /\ Len(Tail(retry_queue)) <= QUEUES_SIZE
  BY <1>q, <1>g, GetType
<1> USE DEF TypeInv, TypeOK, Pc, submission, workerVars, retryVars, txVars
<1>1. CASE Start
  <2>1. flush_in' \in 0 .. FLUSH_INTERVAL
    BY <1>1 DEF Start
  <2>2. TypeOK'
    BY <1>1, <2>1 DEF Start
  <2>3. Pc'
    BY <1>1 DEF Start
  <2> QED
    BY <2>2, <2>3
<1>2. CASE Stop
  BY <1>2 DEF Stop, Threads
<1>3. ASSUME NEW w \in Workers, StopWorker(w) PROVE TypeInv'
  BY <1>3 DEF StopWorker, Threads
<1>4. CASE Joined
  BY <1>4 DEF Joined
<1>5. ASSUME NEW p \in Submitters, Submit(p) PROVE TypeInv'
  <2>1. "payloads" \in StatKeys
    BY DEF StatKeys
  <2>2. stats' \in [StatKeys -> 0 .. StatCap]
    BY <1>5, <2>1, IncStatType DEF Submit
  <2>3. created' \in 0 .. MaxTransactions /\ created + 1 \in Transactions
    BY <1>5 DEF Submit, Transactions
  <2> QED
    BY <1>5, <2>2, <2>3 DEF Submit
<1>6. ASSUME NEW p \in Submitters, Enqueue(p) PROVE TypeInv'
  <2>1. sub[p] \in Transactions
    BY <1>6 DEF Enqueue
  <2>2. CASE HasRoom(input_queue)
    <3>1. input_queue' \in Seq(Transactions) /\ Len(input_queue') <= QUEUES_SIZE
      BY <1>6, <2>1, <2>2, <1>p DEF Enqueue
    <3> QED
      BY <1>6, <2>2, <3>1 DEF Enqueue
  <2>3. CASE ~HasRoom(input_queue)
    BY <1>6, <2>1, <2>3 DEF Enqueue, Final
  <2> QED
    BY <2>2, <2>3
<1>7. ASSUME NEW w \in Workers, WorkerLoop(w) PROVE TypeInv'
  BY <1>7 DEF WorkerLoop
<1>8. ASSUME NEW w \in Workers, WorkerGet(w) PROVE TypeInv'
  <2> DEFINE t == Head(input_queue)
  <2>1. /\ t \in Transactions
        /\ Tail(input_queue) \in Seq(Transactions)
        /\ Len(Tail(input_queue)) = Len(input_queue) - 1
    BY <1>8, GetProperties DEF WorkerGet
  <2>2. Lesser(nb_try[t] + 1, MaxTry) \in 0 .. MaxTry
    <3>1. nb_try[t] + 1 \in Nat
      BY <2>1
    <3> HIDE DEF TypeInv, TypeOK, Pc, t
    <3> QED
      BY <3>1, LesserType
  <2>3. nb_try' \in [Transactions -> 0 .. MaxTry]
    BY <1>8, <2>1, <2>2 DEF WorkerGet
  <2>4. hand' \in [Workers -> Transactions \cup {None}] /\ Pc'
    BY <1>8, <2>1 DEF WorkerGet
  <2>5. input_queue' \in Seq(Transactions) /\ Len(input_queue') <= QUEUES_SIZE
    BY <1>8, <2>1 DEF WorkerGet
  <2> QED
    BY <1>8, <2>3, <2>4, <2>5 DEF WorkerGet
<1>9. ASSUME NEW w \in Workers, WorkerEmpty(w) PROVE TypeInv'
  BY <1>9 DEF WorkerEmpty
<1>10. ASSUME NEW w \in Workers, PostAnswered(w) PROVE TypeInv'
  <2>1. "transactions_success" \in StatKeys
    BY DEF StatKeys
  <2>2. stats' \in [StatKeys -> 0 .. StatCap]
    BY <1>10, <2>1, IncStatType DEF PostAnswered
  <2>3. PICK answer \in {"accepted", "rejected"} :
          /\ fate' = [fate EXCEPT ![hand[w]] = answer]
          /\ Receipt(hand[w], answer = "accepted")
    BY <1>10 DEF PostAnswered
  <2>4. hand[w] \in Transactions
    BY <1>10 DEF PostAnswered
  <2>5. copies' \in [Transactions -> 0 .. MaxCopies]
    BY <2>3, <2>4, ReceiptType
  <2>6. fate' \in [Transactions -> {"none", "live"} \cup Final]
    BY <2>3 DEF Final
  <2> QED
    BY <1>10, <2>2, <2>5, <2>6 DEF PostAnswered
<1>11. ASSUME NEW w \in Workers, PostFailed(w) PROVE TypeInv'
  <2>1. hand[w] \in Transactions
    BY <1>11 DEF PostFailed
  <2>2. RetryDelay(hand[w]) \in 0 .. MAX_RETRY_INTERVAL
    BY <2>1, RetryDelayType
  <2>3. copies' \in [Transactions -> 0 .. MaxCopies]
    BY <1>11, <2>1, ReceiptType, SMTT(30) DEF PostFailed
  <2> QED
    BY <1>11, <2>1, <2>2, <2>3 DEF PostFailed
<1>12. ASSUME NEW w \in Workers, PostRaised(w) PROVE TypeInv'
  <2>0. hand[w] \in Transactions
    BY <1>12 DEF PostRaised
  <2>1. copies' \in [Transactions -> 0 .. MaxCopies]
    BY <1>12, <2>0, ReceiptType, SMTT(30) DEF PostRaised
  <2> QED
    BY <1>12, <2>1 DEF PostRaised, Final
<1>13. ASSUME NEW w \in Workers, WorkerRetry(w) PROVE TypeInv'
  <2>1. hand[w] \in Transactions
    BY <1>13 DEF WorkerRetry
  <2>2. "transactions_rescheduled" \in StatKeys /\ "queue_full_errors" \in StatKeys
    BY DEF StatKeys
  <2>3. stats' \in [StatKeys -> 0 .. StatCap]
    BY <1>13, <2>2, IncStatType DEF WorkerRetry
  <2>4. CASE HasRoom(retry_queue)
    <3>1. retry_queue' \in Seq(Transactions) /\ Len(retry_queue') <= QUEUES_SIZE
      BY <1>13, <2>1, <2>4, <1>r DEF WorkerRetry
    <3> QED
      BY <1>13, <2>3, <2>4, <3>1 DEF WorkerRetry
  <2>5. CASE ~HasRoom(retry_queue)
    BY <1>13, <2>1, <2>3, <2>5 DEF WorkerRetry, Final
  <2> QED
    BY <2>4, <2>5
<1>14. CASE RetryLoop
  BY <1>14 DEF RetryLoop
<1>15. CASE RetryGet
  <2>1. CASE retry_queue # <<>>
    <3>1. /\ Head(retry_queue) \in Transactions
          /\ retry_queue' \in Seq(Transactions)
          /\ Len(retry_queue') <= QUEUES_SIZE
      BY <1>15, <2>1, <1>g DEF RetryGet
    <3> QED
      BY <1>15, <2>1, <3>1 DEF RetryGet
  <2>2. CASE retry_queue = <<>>
    BY <1>15, <2>2 DEF RetryGet
  <2> QED
    BY <2>1, <2>2
<1>16. CASE RetryCheck
  BY <1>16 DEF RetryCheck, Keep, NotDue
<1>17. CASE FlushPut
  <2>1. PICK t \in due :
          /\ due' = due \ {t}
          /\ \/ /\ HasRoom(input_queue)
                /\ input_queue' = Append(input_queue, t)
                /\ UNCHANGED fate
             \/ /\ ~HasRoom(input_queue)
                /\ fate' = [fate EXCEPT ![t] = "requeue_full"]
                /\ UNCHANGED input_queue
    BY <1>17 DEF FlushPut
  <2>2. CASE HasRoom(input_queue)
    <3>1. t \in Transactions
      BY <2>1
    <3>2. input_queue' \in Seq(Transactions) /\ Len(input_queue') <= QUEUES_SIZE
      BY <2>1, <2>2, <3>1, <1>p
    <3> QED
      BY <1>17, <2>1, <2>2, <3>2 DEF FlushPut
  <2>3. CASE ~HasRoom(input_queue)
    <3>1. fate' \in [Transactions -> {"none", "live"} \cup Final]
      BY <2>1, <2>3 DEF Final
    <3> QED
      BY <1>17, <2>1, <2>3, <3>1 DEF FlushPut
  <2> QED
    BY <2>2, <2>3
<1>18. CASE FlushEnd
  BY <1>18 DEF FlushEnd, Newest, Final
<1>19. CASE Tick
  <2>1. flush_in' \in 0 .. FLUSH_INTERVAL
    BY <1>19 DEF Tick, Positive
  <2>2. next_flush' \in [Transactions -> 0 .. MAX_RETRY_INTERVAL]
    BY <1>19 DEF Tick, Positive
  <2> QED
    BY <1>19, <2>1, <2>2 DEF Tick
<1>20. CASE Outage
  BY <1>20 DEF Outage
<1>21. CASE UNCHANGED vars
  BY <1>21 DEF vars
<1> QED
  BY <1>1, <1>2, <1>3, <1>4, <1>5, <1>6, <1>7, <1>8, <1>9, <1>10, <1>11, <1>12,
     <1>13, <1>14, <1>15, <1>16, <1>17, <1>18, <1>19, <1>20, <1>21
     DEF Next, WorkerNext, RetryNext, StopNext

\* Every variable keeps its type, and both queues keep within QUEUES_SIZE
\* although submitters, Workers and the RetryWorker all put into them.
THEOREM TypeCorrect == Spec => []TypeOK
<1>1. TypeInv => TypeOK
  BY DEF TypeInv
<1> QED
  BY <1>1, TypeInit, TypeStep, PTL DEF Spec

-----------------------------------------------------------------------------
(***************************************************************************)
(* OnePlace.  It needs the types, that a transaction is constructed once   *)
(* (Fresh) and, for the proof, its pairwise form over the six places.      *)
(***************************************************************************)
Fresh == \A t \in Transactions : fate[t] = "none" <=> t > created

\* The six places have no transaction in common.
Apart(S, I, H, R, L, D) ==
    /\ S \cap I = {} /\ S \cap H = {} /\ S \cap R = {} /\ S \cap L = {} /\ S \cap D = {}
    /\ I \cap H = {} /\ I \cap R = {} /\ I \cap L = {} /\ I \cap D = {}
    /\ H \cap R = {} /\ H \cap L = {} /\ H \cap D = {}
    /\ R \cap L = {} /\ R \cap D = {}
    /\ L \cap D = {}

AllApart == Apart(Submitting, Range(input_queue), InHand, Range(retry_queue),
                  transactions, due)

\* A transaction is live if and only if it is in one of them.
Kept == \A t \in Transactions :
           fate[t] = "live" <=> \/ t \in Submitting
                                \/ t \in Range(input_queue)
                                \/ t \in InHand
                                \/ t \in Range(retry_queue)
                                \/ t \in transactions
                                \/ t \in due

\* No transaction twice in one place.
Single ==
    /\ NoDuplicate(input_queue) /\ NoDuplicate(retry_queue)
    /\ \A v, w \in Workers : hand[v] = hand[w] /\ hand[v] # None => v = w
    /\ \A p, q \in Submitters : sub[p] = sub[q] /\ sub[p] # None => p = q

PlaceInv == TypeInv /\ Fresh /\ Single /\ AllApart /\ Kept

\* Only transactions are in the six places.
LEMMA HeldType ==
    ASSUME TypeOK
    PROVE  /\ Submitting \subseteq Transactions
           /\ Range(input_queue) \subseteq Transactions
           /\ InHand \subseteq Transactions
           /\ Range(retry_queue) \subseteq Transactions
           /\ transactions \subseteq Transactions
           /\ due \subseteq Transactions
<1>1. Submitting \subseteq Transactions /\ InHand \subseteq Transactions
  BY DEF TypeOK, Submitting, InHand
<1>2. /\ input_queue \in Seq(Transactions)
      /\ retry_queue \in Seq(Transactions)
      /\ transactions \subseteq Transactions
      /\ due \subseteq Transactions
  BY DEF TypeOK
<1>3. Range(input_queue) \subseteq Transactions /\ Range(retry_queue) \subseteq Transactions
  BY <1>2 DEF Range
<1> QED
  BY <1>1, <1>2, <1>3

\* The pairwise form says what OnePlace says.
LEMMA OnePlaceForm ==
    ASSUME PlaceInv
    PROVE  OnePlace
<1> DEFINE P == DOMAIN Held
<1>1. P = {"sub", "input", "hand", "retry", "list", "due"}
  BY DEF Held
<1>2. /\ Held["sub"] = Submitting /\ Held["input"] = Range(input_queue)
      /\ Held["hand"] = InHand /\ Held["retry"] = Range(retry_queue)
      /\ Held["list"] = transactions /\ Held["due"] = due
  BY DEF Held
<1> HIDE DEF P
<1>3. ASSUME NEW a \in P, NEW b \in P, a # b PROVE Held[a] \cap Held[b] = {}
  BY <1>1, <1>2, <1>3 DEF PlaceInv, AllApart, Apart
<1>4. UNION {Held[a] : a \in P}
        = Submitting \cup Range(input_queue) \cup InHand \cup Range(retry_queue)
             \cup transactions \cup due
  BY <1>1, <1>2
<1>5. {t \in Transactions : fate[t] = "live"} = UNION {Held[a] : a \in P}
  BY <1>4, HeldType DEF PlaceInv, Kept, TypeInv
<1> QED
  BY <1>3, <1>5 DEF PlaceInv, Single, OnePlace, P

LEMMA PlaceInit == Init => PlaceInv
<1> SUFFICES ASSUME Init PROVE PlaceInv
  OBVIOUS
<1>1. TypeInv
  BY TypeInit
<1>2. Submitting = {} /\ InHand = {}
  BY DEF Init, Submitting, InHand
<1>3. Range(input_queue) = {} /\ Range(retry_queue) = {}
  BY DEF Init, Range
<1>4. transactions = {} /\ due = {}
  BY DEF Init
<1>5. AllApart /\ Kept
  BY <1>2, <1>3, <1>4 DEF AllApart, Apart, Kept, Init
<1>6. Fresh
  BY DEF Init, Fresh, Transactions
<1>7. Single
  BY DEF Init, Single, NoDuplicate
<1> QED
  BY <1>1, <1>5, <1>6, <1>7 DEF PlaceInv

\* What taking or giving up a transaction does to the places of the threads.
LEMMA HandProperties ==
    ASSUME TypeOK, Single, NEW w \in Workers
    PROVE  /\ hand[w] # None => hand[w] \in InHand
           /\ hand' = [hand EXCEPT ![w] = None]
                 => /\ InHand' = InHand \ {hand[w]}
                    /\ \A v, u \in Workers :
                          hand'[v] = hand'[u] /\ hand'[v] # None => v = u
           /\ \A t \in Transactions :
                 hand[w] = None /\ t \notin InHand /\ hand' = [hand EXCEPT ![w] = t]
                 => /\ InHand' = InHand \cup {t}
                    /\ \A v, u \in Workers :
                          hand'[v] = hand'[u] /\ hand'[v] # None => v = u
<1>1. hand \in [Workers -> Transactions \cup {None}]
  BY DEF TypeOK
<1>2. \A v, u \in Workers : hand[v] = hand[u] /\ hand[v] # None => v = u
  BY DEF Single
<1> QED
  BY <1>1, <1>2 DEF InHand

LEMMA SubProperties ==
    ASSUME TypeOK, Single, NEW p \in Submitters
    PROVE  /\ sub[p] # None => sub[p] \in Submitting
           /\ sub' = [sub EXCEPT ![p] = None]
                 => /\ Submitting' = Submitting \ {sub[p]}
                    /\ \A q, r \in Submitters :
                          sub'[q] = sub'[r] /\ sub'[q] # None => q = r
           /\ \A t \in Transactions :
                 sub[p] = None /\ t \notin Submitting /\ sub' = [sub EXCEPT ![p] = t]
                 => /\ Submitting' = Submitting \cup {t}
                    /\ \A q, r \in Submitters :
                          sub'[q] = sub'[r] /\ sub'[q] # None => q = r
<1>1. sub \in [Submitters -> Transactions \cup {None}]
  BY DEF TypeOK
<1>2. \A q, r \in Submitters : sub[q] = sub[r] /\ sub[q] # None => q = r
  BY DEF Single
<1> QED
  BY <1>1, <1>2 DEF Submitting

\* Steps that move no transaction: only clocks, loop positions and life cycle.
LEMMA PlaceFrame ==
    ASSUME PlaceInv, TypeInv',
           UNCHANGED <<sub, input_queue, hand, retry_queue, transactions, due,
                       fate, created>>
    PROVE  PlaceInv'
<1>1. /\ Submitting' = Submitting /\ InHand' = InHand
      /\ Range(input_queue)' = Range(input_queue)
      /\ Range(retry_queue)' = Range(retry_queue)
  BY DEF Submitting, InHand
<1>2. AllApart' /\ Kept'
  BY <1>1 DEF PlaceInv, AllApart, Apart, Kept
<1>3. Fresh' /\ Single'
  BY DEF PlaceInv, Fresh, Single
<1> QED
  BY <1>2, <1>3 DEF PlaceInv

LEMMA PlaceStep == PlaceInv /\ [Next]_vars => PlaceInv'
<1> SUFFICES ASSUME PlaceInv, [Next]_vars PROVE PlaceInv'
  OBVIOUS
<1>t. TypeOK /\ TypeInv /\ TypeInv' /\ Pc
  BY TypeStep DEF PlaceInv, TypeInv
<1>h. /\ Submitting \subseteq Transactions /\ Range(input_queue) \subseteq Transactions
      /\ InHand \subseteq Transactions /\ Range(retry_queue) \subseteq Transactions
      /\ transactions \subseteq Transactions /\ due \subseteq Transactions
      /\ input_queue \in Seq(Transactions) /\ retry_queue \in Seq(Transactions)
      /\ fate \in [Transactions -> {"none", "live"} \cup Final]
      /\ sub \in [Submitters -> Transactions \cup {None}]
      /\ hand \in [Workers -> Transactions \cup {None}]
  BY <1>t, HeldType DEF TypeOK
<1>s. Single /\ Fresh /\ AllApart /\ Kept
  BY DEF PlaceInv
<1>u. /\ UNCHANGED sub => Submitting' = Submitting
      /\ UNCHANGED hand => InHand' = InHand
  BY DEF Submitting, InHand
<1>1. CASE Start
  BY <1>1, <1>t, PlaceFrame DEF Start, submission, txVars
<1>2. CASE Stop
  BY <1>2, <1>t, PlaceFrame DEF Stop, submission, txVars, workerVars, retryVars
<1>3. ASSUME NEW w \in Workers, StopWorker(w) PROVE PlaceInv'
  BY <1>3, <1>t, PlaceFrame DEF StopWorker, submission, txVars, workerVars, retryVars
<1>4. CASE Joined
  BY <1>4, <1>t, PlaceFrame DEF Joined, submission, txVars, workerVars, retryVars
<1>5. ASSUME NEW p \in Submitters, Submit(p) PROVE PlaceInv'
  <2> DEFINE t == created + 1
  <2>1. /\ t \in Transactions /\ fate[t] = "none" /\ sub[p] = None
        /\ created' = t /\ sub' = [sub EXCEPT ![p] = t]
        /\ fate' = [fate EXCEPT ![t] = "live"]
        /\ UNCHANGED <<input_queue, retry_queue, hand, transactions, due>>
    BY <1>5, <1>t, <1>s
       DEF Submit, TypeOK, Transactions, Fresh, workerVars, retryVars
  <2>2. Fresh'
    <3>1. created \in Nat /\ fate \in [Transactions -> {"none", "live"} \cup Final]
      BY <1>t DEF TypeOK
    <3>2. \A u \in Transactions : u \in Int /\ (fate[u] = "none" <=> u > created)
      BY <1>s DEF Fresh, Transactions
    <3>3. \A u \in Transactions : fate'[u] = "none" <=> u > created + 1
      BY <2>1, <3>1, <3>2
    <3> QED
      BY <2>1, <3>3 DEF Fresh
  <2> HIDE DEF t
  <2>3. /\ t \notin Submitting /\ t \notin Range(input_queue) /\ t \notin InHand
        /\ t \notin Range(retry_queue) /\ t \notin transactions /\ t \notin due
    BY <2>1, <1>s DEF Kept
  <2>4. /\ Submitting' = Submitting \cup {t}
        /\ \A q, r \in Submitters : sub'[q] = sub'[r] /\ sub'[q] # None => q = r
    BY <2>1, <2>3, <1>t, <1>s, SubProperties
  <2>5. Single'
    BY <2>1, <2>4, <1>s DEF Single
  <2>6. AllApart'
    BY <2>1, <2>3, <2>4, <1>s, <1>u DEF AllApart, Apart
  <2>7. Kept'
    BY <2>1, <2>4, <1>s, <1>u, <1>h DEF Kept
  <2> QED
    BY <2>2, <2>5, <2>6, <2>7, <1>t DEF PlaceInv
<1>6. ASSUME NEW p \in Submitters, Enqueue(p) PROVE PlaceInv'
  <2> DEFINE t == sub[p]
  <2>1. /\ t \in Transactions /\ t \in Submitting
        /\ Submitting' = Submitting \ {t}
        /\ \A q, r \in Submitters : sub'[q] = sub'[r] /\ sub'[q] # None => q = r
        /\ UNCHANGED <<created, retry_queue, hand, transactions, due>>
    BY <1>6, <1>t, <1>s, <1>h, SubProperties DEF Enqueue, workerVars, retryVars
  <2>2. fate[t] = "live" /\ t \notin Range(input_queue)
    BY <2>1, <1>s DEF Kept, AllApart, Apart
  <2>3. \/ input_queue' = Append(input_queue, t) /\ UNCHANGED fate
        \/ fate' = [fate EXCEPT ![t] = "input_full"] /\ UNCHANGED input_queue
    BY <1>6 DEF Enqueue
  <2> HIDE DEF t
  <2>4. CASE input_queue' = Append(input_queue, t) /\ UNCHANGED fate
    <3>1. Range(input_queue)' = Range(input_queue) \cup {t} /\ NoDuplicate(input_queue)'
      BY <2>1, <2>2, <2>4, <1>h, <1>s, PutProperties DEF Single
    <3>2. Single' /\ Fresh'
      BY <2>1, <2>4, <3>1, <1>s DEF Single, Fresh
    <3>3. AllApart' /\ Kept'
      BY <2>1, <2>4, <3>1, <1>s, <1>u DEF AllApart, Apart, Kept
    <3> QED
      BY <3>2, <3>3, <1>t DEF PlaceInv
  <2>5. CASE fate' = [fate EXCEPT ![t] = "input_full"] /\ UNCHANGED input_queue
    <3>1. Single' /\ Fresh'
      BY <2>1, <2>2, <2>5, <1>h, <1>s DEF Single, Fresh
    <3>2. AllApart'
      BY <2>1, <2>5, <1>s, <1>u DEF AllApart, Apart
    <3>3. Kept'
      BY <2>1, <2>5, <1>h, <1>s, <1>u DEF AllApart, Apart, Kept
    <3> QED
      BY <3>1, <3>2, <3>3, <1>t DEF PlaceInv
  <2> QED
    BY <2>3, <2>4, <2>5
<1>7. ASSUME NEW w \in Workers, WorkerLoop(w) PROVE PlaceInv'
  BY <1>7, <1>t, PlaceFrame DEF WorkerLoop, submission, txVars, retryVars
<1>8. ASSUME NEW w \in Workers, WorkerGet(w) PROVE PlaceInv'
  <2> DEFINE t == Head(input_queue)
  <2>1. /\ t \in Transactions /\ t \in Range(input_queue)
        /\ Range(input_queue)' = Range(input_queue) \ {t}
        /\ NoDuplicate(input_queue)'
        /\ hand[w] = None /\ hand' = [hand EXCEPT ![w] = t]
        /\ UNCHANGED <<created, sub, retry_queue, transactions, due, fate>>
    BY <1>8, <1>t, <1>h, <1>s, GetProperties
       DEF WorkerGet, Single, Pc, submission, retryVars
  <2> HIDE DEF t
  <2>2. t \notin InHand
    BY <2>1, <1>s DEF AllApart, Apart
  <2>3. /\ InHand' = InHand \cup {t}
        /\ \A v, u \in Workers : hand'[v] = hand'[u] /\ hand'[v] # None => v = u
    BY <2>1, <2>2, <1>t, <1>s, HandProperties
  <2>4. Single' /\ Fresh'
    BY <2>1, <2>3, <1>s DEF Single, Fresh
  <2>5. AllApart' /\ Kept'
    BY <2>1, <2>3, <1>s, <1>u DEF AllApart, Apart, Kept
  <2> QED
    BY <2>4, <2>5, <1>t DEF PlaceInv
<1>9. ASSUME NEW w \in Workers, WorkerEmpty(w) PROVE PlaceInv'
  BY <1>9, <1>t, PlaceFrame DEF WorkerEmpty, submission, txVars, retryVars
<1>d. ASSUME NEW w \in Workers, NEW e \in Final, hand[w] # None,
             hand' = [hand EXCEPT ![w] = None],
             fate' = [fate EXCEPT ![hand[w]] = e],
             UNCHANGED <<created, sub, input_queue, retry_queue, transactions, due>>
      PROVE  PlaceInv'
  <2> DEFINE t == hand[w]
  <2>1. /\ t \in Transactions /\ t \in InHand
        /\ InHand' = InHand \ {t}
        /\ \A v, u \in Workers : hand'[v] = hand'[u] /\ hand'[v] # None => v = u
    BY <1>d, <1>t, <1>h, <1>s, HandProperties
  <2>2. fate[t] = "live" /\ e # "live" /\ e # "none"
    BY <2>1, <1>s DEF Kept, Final
  <2>3. fate' = [fate EXCEPT ![t] = e]
    BY <1>d
  <2> HIDE DEF t
  <2>4. Single' /\ Fresh'
    BY <1>d, <2>1, <2>2, <2>3, <1>h, <1>s DEF Single, Fresh
  <2>5. AllApart'
    BY <1>d, <2>1, <1>s, <1>u DEF AllApart, Apart
  <2>6. Kept'
    BY <1>d, <2>1, <2>2, <2>3, <1>h, <1>s, <1>u DEF AllApart, Apart, Kept
  <2> QED
    BY <2>4, <2>5, <2>6, <1>t DEF PlaceInv
<1>10. ASSUME NEW w \in Workers, PostAnswered(w) PROVE PlaceInv'
  <2>1. hand[w] # None
    BY <1>10, <1>t DEF PostAnswered, Pc
  <2>2. PICK answer \in {"accepted", "rejected"} : fate' = [fate EXCEPT ![hand[w]] = answer]
    BY <1>10 DEF PostAnswered
  <2> QED
    BY <1>10, <2>1, <2>2, <1>d DEF PostAnswered, Final, submission, retryVars
<1>11. ASSUME NEW w \in Workers, PostFailed(w) PROVE PlaceInv'
  BY <1>11, <1>t, PlaceFrame DEF PostFailed, submission, retryVars
<1>12. ASSUME NEW w \in Workers, PostRaised(w) PROVE PlaceInv'
  <2>1. hand[w] # None
    BY <1>12, <1>t DEF PostRaised, Pc
  <2> QED
    BY <1>12, <2>1, <1>d DEF PostRaised, Final, submission, retryVars
<1>13. ASSUME NEW w \in Workers, WorkerRetry(w) PROVE PlaceInv'
  <2> DEFINE t == hand[w]
  <2>1. /\ t \in Transactions /\ t \in InHand
        /\ InHand' = InHand \ {t}
        /\ \A v, u \in Workers : hand'[v] = hand'[u] /\ hand'[v] # None => v = u
        /\ UNCHANGED <<created, sub, input_queue, transactions, due>>
    BY <1>13, <1>t, <1>h, <1>s, HandProperties
       DEF WorkerRetry, Pc, submission, retryVars
  <2>2. t \notin Range(retry_queue)
    BY <2>1, <1>s DEF AllApart, Apart
  <2>3. CASE HasRoom(retry_queue)
    <3>1. retry_queue' = Append(retry_queue, t) /\ UNCHANGED fate
      BY <1>13, <2>3 DEF WorkerRetry
    <3> HIDE DEF t
    <3>2. Range(retry_queue)' = Range(retry_queue) \cup {t} /\ NoDuplicate(retry_queue)'
      BY <2>1, <2>2, <3>1, <1>h, <1>s, PutProperties DEF Single
    <3>3. Single' /\ Fresh'
      BY <2>1, <3>1, <3>2, <1>s DEF Single, Fresh
    <3>4. AllApart' /\ Kept'
      BY <2>1, <3>1, <3>2, <1>s, <1>u DEF AllApart, Apart, Kept
    <3> QED
      BY <3>3, <3>4, <1>t DEF PlaceInv
  <2>4. CASE ~HasRoom(retry_queue)
    <3>1. hand[w] # None /\ "retry_full" \in Final
      BY <2>1 DEF Final
    <3> QED
      BY <1>13, <2>1, <2>4, <3>1, <1>d DEF WorkerRetry
  <2> QED
    BY <2>3, <2>4
<1>14. CASE RetryLoop
  BY <1>14, <1>t, PlaceFrame DEF RetryLoop, submission, txVars, workerVars
<1>15. CASE RetryGet
  <2>1. CASE retry_queue = <<>>
    BY <1>15, <2>1, <1>t, PlaceFrame DEF RetryGet, submission, txVars, workerVars
  <2>2. CASE retry_queue # <<>>
    <3> DEFINE t == Head(retry_queue)
    <3>1. /\ t \in Transactions /\ t \in Range(retry_queue)
          /\ Range(retry_queue)' = Range(retry_queue) \ {t}
          /\ NoDuplicate(retry_queue)'
          /\ transactions' = transactions \cup {t}
          /\ UNCHANGED <<created, sub, input_queue, hand, due, fate>>
      BY <1>15, <2>2, <1>h, <1>s, GetProperties
         DEF RetryGet, Single, submission, workerVars
    <3> HIDE DEF t
    <3>2. Single' /\ Fresh'
      BY <3>1, <1>s DEF Single, Fresh
    <3>3. AllApart' /\ Kept'
      BY <3>1, <1>s, <1>u DEF AllApart, Apart, Kept
    <3> QED
      BY <3>2, <3>3, <1>t DEF PlaceInv
  <2> QED
    BY <2>1, <2>2
<1>16. CASE RetryCheck
  <2>1. CASE flush_in > 0
    BY <1>16, <2>1, <1>t, PlaceFrame
       DEF RetryCheck, submission, txVars, workerVars, TypeOK
  <2>2. CASE flush_in = 0
    <3>1. /\ due = {} /\ due' \cap transactions' = {}
          /\ due' \cup transactions' = transactions
          /\ UNCHANGED <<created, sub, input_queue, hand, retry_queue, fate>>
      BY <1>16, <2>2, <1>t DEF RetryCheck, Keep, Pc, submission, workerVars
    <3>2. Single' /\ Fresh'
      BY <3>1, <1>s DEF Single, Fresh
    <3>3. AllApart' /\ Kept'
      BY <3>1, <1>s, <1>u DEF AllApart, Apart, Kept
    <3> QED
      BY <3>2, <3>3, <1>t DEF PlaceInv
  <2> QED
    BY <1>16, <2>1, <2>2 DEF RetryCheck
<1>17. CASE FlushPut
  <2>1. PICK t \in due :
          /\ due' = due \ {t}
          /\ \/ input_queue' = Append(input_queue, t) /\ UNCHANGED fate
             \/ fate' = [fate EXCEPT ![t] = "requeue_full"] /\ UNCHANGED input_queue
    BY <1>17 DEF FlushPut
  <2>2. /\ t \in Transactions /\ fate[t] = "live" /\ t \notin Range(input_queue)
        /\ UNCHANGED <<created, sub, retry_queue, hand, transactions>>
    BY <1>17, <1>h, <1>s DEF FlushPut, Kept, AllApart, Apart, submission, workerVars
  <2>3. CASE input_queue' = Append(input_queue, t) /\ UNCHANGED fate
    <3>1. Range(input_queue)' = Range(input_queue) \cup {t} /\ NoDuplicate(input_queue)'
      BY <2>2, <2>3, <1>h, <1>s, PutProperties DEF Single
    <3>2. Single' /\ Fresh'
      BY <2>2, <2>3, <3>1, <1>s DEF Single, Fresh
    <3>3. AllApart' /\ Kept'
      BY <2>1, <2>2, <2>3, <3>1, <1>s, <1>u DEF AllApart, Apart, Kept
    <3> QED
      BY <3>2, <3>3, <1>t DEF PlaceInv
  <2>4. CASE fate' = [fate EXCEPT ![t] = "requeue_full"] /\ UNCHANGED input_queue
    <3>1. Single' /\ Fresh'
      BY <2>2, <2>4, <1>h, <1>s DEF Single, Fresh
    <3>2. AllApart'
      BY <2>1, <2>2, <2>4, <1>s, <1>u DEF AllApart, Apart
    <3>3. Kept'
      BY <2>1, <2>2, <2>4, <1>h, <1>s, <1>u DEF AllApart, Apart, Kept
    <3> QED
      BY <3>1, <3>2, <3>3, <1>t DEF PlaceInv
  <2> QED
    BY <2>1, <2>3, <2>4
<1>18. CASE FlushEnd
  <2>1. /\ transactions' \subseteq transactions
        /\ fate' = [t \in Transactions |-> IF t \in transactions \ transactions'
                                           THEN "truncated" ELSE fate[t]]
        /\ UNCHANGED <<created, sub, input_queue, hand, retry_queue, due>>
    BY <1>18 DEF FlushEnd, Newest, submission, workerVars
  <2>2. \A t \in transactions : fate[t] = "live"
    BY <1>h, <1>s DEF Kept
  <2>3. Single' /\ Fresh'
    BY <2>1, <2>2, <1>h, <1>s DEF Single, Fresh
  <2>4. AllApart'
    BY <2>1, <1>s, <1>u DEF AllApart, Apart
  <2>5. Kept'
    BY <2>1, <1>h, <1>s, <1>u DEF AllApart, Apart, Kept
  <2> QED
    BY <2>3, <2>4, <2>5, <1>t DEF PlaceInv
<1>19. CASE Tick
  BY <1>19, <1>t, PlaceFrame DEF Tick, submission, workerVars
<1>20. CASE Outage
  BY <1>20, <1>t, PlaceFrame DEF Outage, submission, txVars, workerVars, retryVars
<1>21. CASE UNCHANGED vars
  BY <1>21, <1>t, PlaceFrame DEF vars, submission, workerVars, retryVars
<1> QED
  BY <1>1, <1>2, <1>3, <1>4, <1>5, <1>6, <1>7, <1>8, <1>9, <1>10, <1>11, <1>12,
     <1>13, <1>14, <1>15, <1>16, <1>17, <1>18, <1>19, <1>20, <1>21
     DEF Next, WorkerNext, RetryNext, StopNext

\* No transaction is lost without an end that the code logs or counts, and
\* none is where two threads could POST it.
THEOREM OnePlaceHolds == Spec => []OnePlace
<1>1. Spec => []PlaceInv
  BY PlaceInit, PlaceStep, PTL DEF Spec
<1>2. PlaceInv => OnePlace
  BY OnePlaceForm
<1> QED
  BY <1>1, <1>2, PTL

-----------------------------------------------------------------------------
(***************************************************************************)
(* RespectBackoff.  The back-off of a transaction is over wherever the     *)
(* transaction can reach a POST from: before its first try, on the input   *)
(* queue, and among the due ones of a flush.                               *)
(***************************************************************************)
Rested ==
    \A t \in Transactions :
        \/ fate[t] = "none"
        \/ t \in Submitting
        \/ t \in Range(input_queue)
        \/ t \in due
        => next_flush[t] = 0

BackoffInv == PlaceInv /\ Rested /\ RespectBackoff

LEMMA BackoffInit == Init => BackoffInv
BY PlaceInit DEF Init, BackoffInv, Rested, RespectBackoff

LEMMA BackoffStep == BackoffInv /\ [Next]_vars => BackoffInv'
<1> SUFFICES ASSUME BackoffInv, [Next]_vars PROVE BackoffInv'
  OBVIOUS
<1>t. TypeInv /\ TypeInv' /\ PlaceInv /\ PlaceInv' /\ Rested /\ RespectBackoff
  BY PlaceStep DEF BackoffInv, PlaceInv
<1>h. /\ fate \in [Transactions -> {"none", "live"} \cup Final]
      /\ next_flush \in [Transactions -> 0 .. MAX_RETRY_INTERVAL]
      /\ hand \in [Workers -> Transactions \cup {None}]
      /\ sub \in [Submitters -> Transactions \cup {None}]
      /\ wpc \in [Workers -> {"unborn", "loop", "get", "post", "put", "stopped"}]
      /\ input_queue \in Seq(Transactions)
      /\ transactions \subseteq Transactions /\ due \subseteq Transactions
      /\ \A w \in Workers : wpc[w] \in {"post", "put"} <=> hand[w] # None
      /\ Pc
  BY <1>t DEF TypeInv, TypeOK, Pc
<1>a. Single /\ AllApart /\ Kept
  BY <1>t DEF PlaceInv
<1>u. UNCHANGED sub => Submitting' = Submitting
  BY DEF Submitting
\* A step after which no more transactions are resting, and no more are POSTed.
<1>f. ASSUME UNCHANGED next_flush,
             \A t \in Transactions :
                \/ fate'[t] = "none" \/ t \in Submitting'
                \/ t \in Range(input_queue)' \/ t \in due'
                => next_flush[t] = 0,
             \A w \in Workers : wpc'[w] = "post" => next_flush[hand'[w]] = 0
      PROVE  BackoffInv'
  BY <1>f, <1>t DEF BackoffInv, Rested, RespectBackoff
<1>g. ASSUME UNCHANGED <<next_flush, hand>>,
             \A w \in Workers : wpc'[w] = "post" => wpc[w] = "post",
             \A t \in Transactions : fate'[t] = "none" => fate[t] = "none",
             Submitting' \subseteq Submitting,
             Range(input_queue)' \subseteq Range(input_queue) \cup Submitting \cup due,
             due' \subseteq due
      PROVE  BackoffInv'
  BY <1>g, <1>f, <1>t DEF Rested, RespectBackoff
<1>1. CASE Start
  BY <1>1, <1>g, <1>u DEF Start, submission, txVars
<1>2. CASE Stop
  BY <1>2, <1>g, <1>u DEF Stop, submission, txVars, workerVars, retryVars
<1>3. ASSUME NEW w \in Workers, StopWorker(w) PROVE BackoffInv'
  BY <1>3, <1>g, <1>u DEF StopWorker, submission, txVars, workerVars, retryVars
<1>4. CASE Joined
  BY <1>4, <1>g, <1>u DEF Joined, submission, txVars, workerVars, retryVars
<1>5. ASSUME NEW p \in Submitters, Submit(p) PROVE BackoffInv'
  <2> DEFINE t == created + 1
  <2>1. /\ t \in Transactions /\ fate[t] = "none"
        /\ sub' = [sub EXCEPT ![p] = t]
        /\ fate' = [fate EXCEPT ![t] = "live"]
        /\ UNCHANGED <<next_flush, hand, wpc, input_queue, due>>
    BY <1>5, <1>t DEF Submit, TypeInv, TypeOK, Transactions, Fresh, PlaceInv,
                      workerVars, retryVars, txVars
  <2> HIDE DEF t
  <2>2. Submitting' \subseteq Submitting \cup {t}
    BY <2>1, <1>h DEF Submitting
  <2>3. \A u \in Transactions : fate'[u] = "none" => fate[u] = "none"
    BY <2>1, <1>h
  <2> QED
    BY <2>1, <2>2, <2>3, <1>t, <1>f DEF Rested, RespectBackoff
<1>6. ASSUME NEW p \in Submitters, Enqueue(p) PROVE BackoffInv'
  <2>1. /\ sub[p] \in Transactions /\ sub[p] \in Submitting
        /\ Submitting' \subseteq Submitting
    BY <1>6, <1>h DEF Enqueue, Submitting
  <2>2. /\ Range(input_queue)' \subseteq Range(input_queue) \cup {sub[p]}
        /\ \A u \in Transactions : fate'[u] = "none" => fate[u] = "none"
    BY <1>6, <2>1, <1>h, PutProperties DEF Enqueue
  <2> QED
    BY <1>6, <2>1, <2>2, <1>g DEF Enqueue, txVars, workerVars, retryVars
<1>7. ASSUME NEW w \in Workers, WorkerLoop(w) PROVE BackoffInv'
  BY <1>7, <1>g, <1>u, <1>h DEF WorkerLoop, submission, txVars, retryVars
<1>8. ASSUME NEW w \in Workers, WorkerGet(w) PROVE BackoffInv'
  <2> DEFINE t == Head(input_queue)
  <2>1. /\ t \in Transactions /\ t \in Range(input_queue)
        /\ Range(input_queue)' = Range(input_queue) \ {t}
        /\ wpc' = [wpc EXCEPT ![w] = "post"] /\ hand' = [hand EXCEPT ![w] = t]
        /\ UNCHANGED <<sub, due, fate, next_flush>>
    BY <1>8, <1>h, <1>a, GetProperties DEF WorkerGet, Single, submission, retryVars
  <2> HIDE DEF t
  <2>2. next_flush[t] = 0
    BY <2>1, <1>t DEF Rested
  <2>3. \A v \in Workers : wpc'[v] = "post" => next_flush[hand'[v]] = 0
    BY <2>1, <2>2, <1>h, <1>t DEF RespectBackoff
  <2> QED
    BY <2>1, <2>3, <1>t, <1>f, <1>u DEF Rested
<1>9. ASSUME NEW w \in Workers, WorkerEmpty(w) PROVE BackoffInv'
  BY <1>9, <1>g, <1>u, <1>h DEF WorkerEmpty, submission, txVars, retryVars
\* The Worker leaves the transaction it holds, or stops holding one.
<1>d. ASSUME NEW w \in Workers, wpc' = [wpc EXCEPT ![w] = "loop"],
             hand' = [hand EXCEPT ![w] = None],
             \A t \in Transactions : fate'[t] = "none" => fate[t] = "none",
             UNCHANGED <<sub, input_queue, due, next_flush>>
      PROVE  BackoffInv'
  <2>1. \A v \in Workers : wpc'[v] = "post" => next_flush[hand'[v]] = 0
    BY <1>d, <1>h, <1>t DEF RespectBackoff
  <2> QED
    BY <1>d, <2>1, <1>t, <1>f, <1>u DEF Rested
<1>10. ASSUME NEW w \in Workers, PostAnswered(w) PROVE BackoffInv'
  <2>1. \A t \in Transactions : fate'[t] = "none" => fate[t] = "none"
    BY <1>10, <1>h DEF PostAnswered
  <2> QED
    BY <1>10, <2>1, <1>d DEF PostAnswered, submission, retryVars, txVars
<1>11. ASSUME NEW w \in Workers, PostFailed(w) PROVE BackoffInv'
  <2> DEFINE t == hand[w]
  <2>1. /\ t \in Transactions /\ t \in InHand
        /\ next_flush' = [next_flush EXCEPT ![t] = RetryDelay(t)]
        /\ wpc' = [wpc EXCEPT ![w] = "put"]
        /\ UNCHANGED <<sub, input_queue, due, hand, fate>>
    BY <1>11, <1>h DEF PostFailed, submission, retryVars, InHand
  <2>2. /\ t \notin Submitting /\ t \notin Range(input_queue) /\ t \notin due
        /\ fate[t] # "none"
    BY <2>1, <1>a DEF AllApart, Apart, Kept
  <2>3. \A v \in Workers : hand[v] = t => v = w
    BY <2>1, <1>a DEF Single
  <2> HIDE DEF t
  <2>4. Rested'
    BY <2>1, <2>2, <1>h, <1>t, <1>u DEF Rested
  <2>5. RespectBackoff'
    BY <2>1, <2>3, <1>h, <1>t DEF RespectBackoff
  <2> QED
    BY <2>4, <2>5, <1>t DEF BackoffInv
<1>12. ASSUME NEW w \in Workers, PostRaised(w) PROVE BackoffInv'
  <2>1. \A t \in Transactions : fate'[t] = "none" => fate[t] = "none"
    BY <1>12, <1>h DEF PostRaised
  <2> QED
    BY <1>12, <2>1, <1>d DEF PostRaised, submission, retryVars, txVars
<1>13. ASSUME NEW w \in Workers, WorkerRetry(w) PROVE BackoffInv'
  <2>1. \A t \in Transactions : fate'[t] = "none" => fate[t] = "none"
    BY <1>13, <1>h DEF WorkerRetry
  <2> QED
    BY <1>13, <2>1, <1>d DEF WorkerRetry, submission, retryVars, txVars
<1>14. CASE RetryLoop
  BY <1>14, <1>g, <1>u DEF RetryLoop, submission, txVars, workerVars
<1>15. CASE RetryGet
  BY <1>15, <1>g, <1>u DEF RetryGet, submission, txVars, workerVars
<1>16. CASE RetryCheck
  <2>1. \A t \in due' : t \in due \/ next_flush[t] = 0
    BY <1>16, <1>h DEF RetryCheck, NotDue
  <2> QED
    BY <1>16, <2>1, <1>h, <1>t, <1>f, <1>u
       DEF RetryCheck, Rested, RespectBackoff, submission, txVars, workerVars
<1>17. CASE FlushPut
  <2>1. PICK t \in due :
          /\ due' = due \ {t}
          /\ \/ input_queue' = Append(input_queue, t) /\ UNCHANGED fate
             \/ fate' = [fate EXCEPT ![t] = "requeue_full"] /\ UNCHANGED input_queue
    BY <1>17 DEF FlushPut
  <2>2. /\ Range(input_queue)' \subseteq Range(input_queue) \cup {t}
        /\ \A u \in Transactions : fate'[u] = "none" => fate[u] = "none"
    BY <2>1, <1>h, PutProperties
  <2> QED
    BY <1>17, <2>1, <2>2, <1>g, <1>u DEF FlushPut, submission, txVars, workerVars
<1>18. CASE FlushEnd
  <2>1. \A u \in Transactions : fate'[u] = "none" => fate[u] = "none"
    BY <1>18, <1>h DEF FlushEnd
  <2> QED
    BY <1>18, <2>1, <1>g, <1>u DEF FlushEnd, submission, txVars, workerVars
<1>19. CASE Tick
  <2>1. \A t \in Transactions : next_flush[t] = 0 => next_flush'[t] = 0
    BY <1>19, <1>h DEF Tick, Positive
  <2>2. \A w \in Workers : wpc[w] = "post" => hand[w] \in Transactions
    BY <1>h
  <2> QED
    BY <1>19, <2>1, <2>2, <1>t, <1>u
       DEF Tick, BackoffInv, Rested, RespectBackoff, submission, workerVars
<1>20. CASE Outage
  BY <1>20, <1>g, <1>u DEF Outage, submission, txVars, workerVars, retryVars
<1>21. CASE UNCHANGED vars
  BY <1>21, <1>g, <1>u DEF vars, submission, txVars, workerVars, retryVars
<1> QED
  BY <1>1, <1>2, <1>3, <1>4, <1>5, <1>6, <1>7, <1>8, <1>9, <1>10, <1>11, <1>12,
     <1>13, <1>14, <1>15, <1>16, <1>17, <1>18, <1>19, <1>20, <1>21
     DEF Next, WorkerNext, RetryNext, StopNext

\* No Worker POSTs a transaction whose back-off has not run out.
THEOREM BackoffRespected == Spec => []RespectBackoff
<1>1. BackoffInv => RespectBackoff
  BY DEF BackoffInv
<1> QED
  BY <1>1, BackoffInit, BackoffStep, PTL DEF Spec

-----------------------------------------------------------------------------
(***************************************************************************)
(* The statistics.  A counter goes up with a set that gets one element     *)
(* more, since only a live transaction can get an end.                     *)
(***************************************************************************)

\* A counter that stops at StatCap and one more is one more that stops there.
LEMMA CountOn ==
    ASSUME NEW n \in Nat
    PROVE  Lesser(Lesser(n, StatCap) + 1, StatCap) = Lesser(n + 1, StatCap)
BY DEF Lesser

\* There is a number of ended transactions.
LEMMA EndedFinite ==
    ASSUME NEW ends
    PROVE  IsFiniteSet(Ended(ends)) /\ Cardinality(Ended(ends)) \in Nat
<1>1. IsFiniteSet(Transactions)
  BY FS_Interval DEF Transactions
<1>2. Ended(ends) \in SUBSET Transactions
  BY DEF Ended
<1>3. IsFiniteSet(Ended(ends))
  BY <1>1, <1>2, FS_Subset
<1> QED
  BY <1>3, FS_CardinalityType

\* One transaction that had none of these ends gets an end.
LEMMA EndedGrows ==
    ASSUME TypeOK, NEW ends, NEW t \in Transactions, NEW end,
           fate[t] \notin ends, fate' = [fate EXCEPT ![t] = end]
    PROVE  /\ end \in ends
                 => Cardinality(Ended(ends)') = Cardinality(Ended(ends)) + 1
           /\ end \notin ends => Ended(ends)' = Ended(ends)
<1>1. fate' \in [Transactions -> {"none", "live"} \cup Final \cup {end}]
  BY DEF TypeOK
<1>2. \A u \in Transactions : fate'[u] = IF u = t THEN end ELSE fate[u]
  BY DEF TypeOK
<1>3. ASSUME end \in ends
      PROVE  Cardinality(Ended(ends)') = Cardinality(Ended(ends)) + 1
  <2>1. Ended(ends)' = Ended(ends) \cup {t} /\ t \notin Ended(ends)
    BY <1>2, <1>3 DEF Ended
  <2> QED
    BY <2>1, EndedFinite, FS_AddElement
<1>4. ASSUME end \notin ends
      PROVE  Ended(ends)' = Ended(ends)
  BY <1>2, <1>4 DEF Ended
<1> QED
  BY <1>3, <1>4

\* The two sets that are counted, when a transaction gets its end.
LEMMA AnsweredGrow ==
    ASSUME TypeOK, NEW t \in Transactions, NEW end, fate[t] = "live",
           fate' = [fate EXCEPT ![t] = end]
    PROVE  /\ end \in {"accepted", "rejected"}
                 => /\ Cardinality(Ended({"accepted", "rejected"})')
                          = Cardinality(Ended({"accepted", "rejected"})) + 1
                    /\ Ended({"retry_full"})' = Ended({"retry_full"})
           /\ end = "retry_full"
                 => /\ Ended({"accepted", "rejected"})' = Ended({"accepted", "rejected"})
                    /\ Cardinality(Ended({"retry_full"})')
                          = Cardinality(Ended({"retry_full"})) + 1
           /\ end \in {"error", "input_full", "requeue_full"}
                 => /\ Ended({"accepted", "rejected"})' = Ended({"accepted", "rejected"})
                    /\ Ended({"retry_full"})' = Ended({"retry_full"})
<1>1. fate[t] \notin {"accepted", "rejected"} /\ fate[t] \notin {"retry_full"}
  OBVIOUS
<1>2. /\ end \in {"accepted", "rejected"}
            => Cardinality(Ended({"accepted", "rejected"})')
                 = Cardinality(Ended({"accepted", "rejected"})) + 1
      /\ end \notin {"accepted", "rejected"}
            => Ended({"accepted", "rejected"})' = Ended({"accepted", "rejected"})
  BY <1>1, EndedGrows
<1>3. /\ end \in {"retry_full"}
            => Cardinality(Ended({"retry_full"})') = Cardinality(Ended({"retry_full"})) + 1
      /\ end \notin {"retry_full"} => Ended({"retry_full"})' = Ended({"retry_full"})
  BY <1>1, EndedGrows
<1> QED
  BY <1>2, <1>3

AccountInv == PlaceInv /\ Accounting

LEMMA AccountInit == Init => AccountInv
<1> SUFFICES ASSUME Init PROVE AccountInv
  OBVIOUS
<1>1. Ended({"accepted", "rejected"}) = {} /\ Ended({"retry_full"}) = {}
  BY DEF Init, Ended
<1>2. Lesser(0, StatCap) = 0
  BY DEF Lesser
<1>3. Accounting
  BY <1>1, <1>2, FS_EmptySet DEF Init, Accounting, StatKeys
<1> QED
  BY <1>3, PlaceInit DEF AccountInv

\* Steps that count nothing and end nothing that is counted.
LEMMA AccountFrame ==
    ASSUME Accounting, UNCHANGED <<stats, created>>,
           Ended({"accepted", "rejected"})' = Ended({"accepted", "rejected"}),
           Ended({"retry_full"})' = Ended({"retry_full"})
    PROVE  Accounting'
BY DEF Accounting

LEMMA CountStep == AccountInv /\ [Next]_vars => Accounting'
<1> SUFFICES ASSUME AccountInv, [Next]_vars PROVE Accounting'
  OBVIOUS
<1> DEFINE answered == {"accepted", "rejected"}
           dropped == {"retry_full"}
<1>t. /\ TypeOK /\ Fresh /\ Kept /\ Pc /\ Accounting
      /\ stats \in [StatKeys -> 0 .. StatCap]
      /\ StatKeys = {"payloads", "transactions_success", "transactions_rescheduled",
                      "queue_full_errors"}
  BY DEF AccountInv, PlaceInv, TypeInv, TypeOK, StatKeys
<1>ty. TypeOK
  BY <1>t
<1>n. Cardinality(Ended(answered)) \in Nat /\ Cardinality(Ended(dropped)) \in Nat
  BY EndedFinite
<1>h. ASSUME NEW w \in Workers, wpc[w] \in {"post", "put"}
      PROVE  hand[w] \in Transactions /\ fate[hand[w]] = "live"
  BY <1>h, <1>t, SMTT(30) DEF TypeOK, Pc, Kept, InHand
<1>0. ASSUME UNCHANGED <<stats, created, fate>>
      PROVE  Accounting'
  BY <1>0, <1>t, AccountFrame DEF Ended
<1>1. ASSUME NEW p \in Submitters, Submit(p) PROVE Accounting'
  <2>1. created + 1 \in Transactions /\ fate[created + 1] = "none" /\ created \in Nat
    BY <1>1, <1>t DEF Submit, TypeOK, Fresh, Transactions
  <2>2. Ended(answered)' = Ended(answered) /\ Ended(dropped)' = Ended(dropped)
    <3>1. fate' = [fate EXCEPT ![created + 1] = "live"]
      BY <1>1 DEF Submit
    <3>2. \A t \in Transactions : (fate'[t] \in answered <=> fate[t] \in answered)
                                  /\ (fate'[t] \in dropped <=> fate[t] \in dropped)
      BY <1>t, <2>1, <3>1 DEF TypeOK
    <3> QED
      BY <3>2 DEF Ended
  <2>3. stats' = [stats EXCEPT !["payloads"] = Lesser(stats["payloads"] + 1, StatCap)]
    BY <1>1 DEF Submit, IncStat
  <2>4. created' = created + 1
    BY <1>1 DEF Submit
  <2> QED
    BY <1>t, <2>1, <2>2, <2>3, <2>4, CountOn DEF Accounting
<1>2. ASSUME NEW p \in Submitters, Enqueue(p) PROVE Accounting'
  <2>1. sub[p] \in Transactions /\ fate[sub[p]] = "live"
    BY <1>2, <1>t, SMTT(30) DEF Enqueue, TypeOK, Kept, Submitting
  <2>2. UNCHANGED <<stats, created>>
    BY <1>2 DEF Enqueue
  <2>3. UNCHANGED fate \/ fate' = [fate EXCEPT ![sub[p]] = "input_full"]
    BY <1>2 DEF Enqueue
  <2>4. CASE fate' = [fate EXCEPT ![sub[p]] = "input_full"]
    <3>1. Ended(answered)' = Ended(answered) /\ Ended(dropped)' = Ended(dropped)
      BY <1>ty, <2>1, <2>4, AnsweredGrow
    <3> QED
      BY <1>t, <2>2, <3>1, AccountFrame
  <2> QED
    BY <1>0, <2>2, <2>3, <2>4
<1>3. ASSUME NEW w \in Workers, PostAnswered(w) PROVE Accounting'
  <2>1. hand[w] \in Transactions /\ fate[hand[w]] = "live"
    BY <1>3, <1>h DEF PostAnswered
  <2>2. PICK answer \in answered : fate' = [fate EXCEPT ![hand[w]] = answer]
    BY <1>3 DEF PostAnswered
  <2>3. /\ Cardinality(Ended(answered)') = Cardinality(Ended(answered)) + 1
        /\ Ended(dropped)' = Ended(dropped)
    BY <1>ty, <2>1, <2>2, AnsweredGrow
  <2>4. /\ stats' = [stats EXCEPT !["transactions_success"]
                        = Lesser(stats["transactions_success"] + 1, StatCap)]
        /\ created' = created
    BY <1>3 DEF PostAnswered, IncStat, submission
  <2> QED
    BY <1>t, <1>n, <2>3, <2>4, CountOn DEF Accounting
<1>4. ASSUME NEW w \in Workers, PostRaised(w) PROVE Accounting'
  <2>1. hand[w] \in Transactions /\ fate[hand[w]] = "live"
    BY <1>4, <1>h DEF PostRaised
  <2>2. fate' = [fate EXCEPT ![hand[w]] = "error"] /\ UNCHANGED <<stats, created>>
    BY <1>4 DEF PostRaised, submission
  <2>3. Ended(answered)' = Ended(answered) /\ Ended(dropped)' = Ended(dropped)
    BY <1>ty, <2>1, <2>2, AnsweredGrow
  <2> QED
    BY <1>t, <2>2, <2>3, AccountFrame
<1>5. ASSUME NEW w \in Workers, WorkerRetry(w) PROVE Accounting'
  <2>1. hand[w] \in Transactions /\ fate[hand[w]] = "live"
    BY <1>5, <1>h DEF WorkerRetry
  <2>2. created' = created
    BY <1>5 DEF WorkerRetry, submission
  <2>3. CASE HasRoom(retry_queue)
    <3>1. /\ UNCHANGED fate
          /\ stats' = [stats EXCEPT !["transactions_rescheduled"]
                          = Lesser(stats["transactions_rescheduled"] + 1, StatCap)]
      BY <1>5, <2>3 DEF WorkerRetry, IncStat
    <3>2. Ended(answered)' = Ended(answered) /\ Ended(dropped)' = Ended(dropped)
      BY <3>1 DEF Ended
    <3> QED
      BY <1>t, <2>2, <3>1, <3>2 DEF Accounting
  <2>4. CASE ~HasRoom(retry_queue)
    <3>1. /\ fate' = [fate EXCEPT ![hand[w]] = "retry_full"]
          /\ stats' = [stats EXCEPT !["queue_full_errors"]
                          = Lesser(stats["queue_full_errors"] + 1, StatCap)]
      BY <1>5, <2>4 DEF WorkerRetry, IncStat
    <3>2. /\ Ended(answered)' = Ended(answered)
          /\ Cardinality(Ended(dropped)') = Cardinality(Ended(dropped)) + 1
      BY <1>ty, <2>1, <3>1, AnsweredGrow
    <3> QED
      BY <1>t, <1>n, <2>2, <3>1, <3>2, CountOn DEF Accounting
  <2> QED
    BY <2>3, <2>4
<1>6. CASE FlushPut
  <2>1. PICK t \in due : UNCHANGED fate \/ fate' = [fate EXCEPT ![t] = "requeue_full"]
    BY <1>6 DEF FlushPut
  <2>2. t \in Transactions /\ fate[t] = "live"
    BY <1>t DEF TypeOK, Kept
  <2>3. UNCHANGED <<stats, created>>
    BY <1>6 DEF FlushPut, submission
  <2>4. CASE fate' = [fate EXCEPT ![t] = "requeue_full"]
    <3>1. Ended(answered)' = Ended(answered) /\ Ended(dropped)' = Ended(dropped)
      BY <1>ty, <2>2, <2>4, AnsweredGrow
    <3> QED
      BY <1>t, <2>3, <3>1, AccountFrame
  <2> QED
    BY <1>0, <2>1, <2>3, <2>4
<1>7. CASE FlushEnd
  <2>1. \A t \in Transactions :
           fate'[t] = IF t \in transactions \ transactions' THEN "truncated" ELSE fate[t]
    BY <1>7 DEF FlushEnd
  <2>2. \A t \in transactions : t \in Transactions => fate[t] = "live"
    BY <1>t DEF Kept
  <2>3. Ended(answered)' = Ended(answered) /\ Ended(dropped)' = Ended(dropped)
    BY <2>1, <2>2 DEF Ended
  <2>4. UNCHANGED <<stats, created>>
    BY <1>7 DEF FlushEnd, submission
  <2> QED
    BY <1>t, <2>3, <2>4, AccountFrame
<1>8. CASE UNCHANGED <<stats, created, fate>>
  BY <1>0, <1>8
<1> QED
  BY <1>1, <1>2, <1>3, <1>4, <1>5, <1>6, <1>7, <1>8
     DEF Next, WorkerNext, RetryNext, StopNext, Start, Stop, StopWorker, Joined,
         WorkerLoop, WorkerGet, WorkerEmpty, PostFailed, RetryLoop, RetryGet,
         RetryCheck, Tick, Outage, vars, submission
LEMMA AccountStep == AccountInv /\ [Next]_vars => AccountInv'
BY CountStep, PlaceStep DEF AccountInv

\* Types, and counters that count what became of the payloads, each once.
THEOREM ForwarderInvHolds == Spec => []ForwarderInv
<1>1. AccountInv => ForwarderInv
  BY DEF AccountInv, PlaceInv, TypeInv, ForwarderInv
<1> QED
  BY <1>1, AccountInit, AccountStep, PTL DEF Spec

-----------------------------------------------------------------------------
(***************************************************************************)
(* EndsOnce, and the order of the drops, from the same invariant.          *)
(***************************************************************************)

\* Only a live transaction can get an end.
LEMMA EndStep ==
    ASSUME PlaceInv, [Next]_vars, NEW t \in Transactions, fate[t] \in Final
    PROVE  fate'[t] = fate[t]
<1>h. /\ fate \in [Transactions -> {"none", "live"} \cup Final]
      /\ hand \in [Workers -> Transactions \cup {None}]
      /\ sub \in [Submitters -> Transactions \cup {None}]
      /\ transactions \subseteq Transactions /\ due \subseteq Transactions
      /\ Pc /\ Kept
  BY DEF PlaceInv, TypeInv, TypeOK
<1>l. fate[t] # "live" /\ fate[t] # "none"
  BY DEF Final
<1>1. \A p \in Submitters : sub[p] # t
  BY <1>h, <1>l DEF Kept, Submitting
<1>2. \A w \in Workers : hand[w] # t
  BY <1>h, <1>l DEF Kept, InHand
<1>3. t \notin due /\ t \notin transactions
  BY <1>h, <1>l DEF Kept
<1>4. ASSUME NEW p \in Submitters, Submit(p) PROVE fate'[t] = fate[t]
  <2>1. created + 1 \in Transactions /\ fate[created + 1] = "none"
    BY <1>4 DEF Submit, PlaceInv, TypeInv, TypeOK, Fresh, Transactions
  <2> QED
    BY <1>4, <2>1, <1>l, <1>h DEF Submit
<1>5. ASSUME NEW p \in Submitters, Enqueue(p) PROVE fate'[t] = fate[t]
  BY <1>5, <1>1, <1>h DEF Enqueue
<1>6. ASSUME NEW w \in Workers, PostAnswered(w) \/ PostRaised(w) \/ WorkerRetry(w)
      PROVE  fate'[t] = fate[t]
  BY <1>6, <1>2, <1>h DEF PostAnswered, PostRaised, WorkerRetry
<1>7. CASE FlushPut
  BY <1>7, <1>3, <1>h DEF FlushPut
<1>8. CASE FlushEnd
  BY <1>8, <1>3, <1>h DEF FlushEnd
<1>9. CASE UNCHANGED fate
  BY <1>9
<1> QED
  BY <1>4, <1>5, <1>6, <1>7, <1>8, <1>9
     DEF Next, WorkerNext, RetryNext, StopNext, Start, Stop, StopWorker, Joined,
         WorkerLoop, WorkerGet, WorkerEmpty, PostFailed, RetryLoop, RetryGet,
         RetryCheck, Tick, Outage, vars

\* No payload that has been answered or dropped gets another end later.
THEOREM EndsOnceHolds == Spec => EndsOnce
<1>1. PlaceInv /\ [Next]_vars
        => [\A t \in Transactions : fate[t] \in Final => fate'[t] = fate[t]]_vars
  BY EndStep
<1>2. Spec => []PlaceInv
  BY PlaceInit, PlaceStep, PTL DEF Spec
<1> QED
  BY <1>1, <1>2, PTL DEF Spec, EndsOnce

\* The cut of the retry list keeps the newest: what it drops is older than
\* everything it keeps.
LEMMA NewestKeepsNewest ==
    ASSUME NEW S \in SUBSET Transactions, NEW n \in Nat,
           NEW t \in S \ Newest(S, n), NEW u \in Newest(S, n)
    PROVE  t < u
<1> DEFINE Above(x) == {y \in S : y > x}
<1>1. t \in Int /\ u \in Int /\ S \subseteq Int /\ t # u
  BY DEF Transactions, Newest
<1>2. IsFiniteSet(S)
  <2>1. IsFiniteSet(Transactions)
    BY FS_Interval DEF Transactions
  <2> QED
    BY <2>1, FS_Subset
<1>3. \A x \in S : IsFiniteSet(Above(x)) /\ Cardinality(Above(x)) \in Nat
  BY <1>2, FS_Subset, FS_CardinalityType
<1>4. Cardinality(Above(u)) < n /\ ~(Cardinality(Above(t)) < n)
  BY DEF Newest
<1>5. SUFFICES ASSUME u < t PROVE FALSE
  BY <1>1
<1>6. Above(t) \subseteq Above(u)
  <2>1. \A y \in S : y > t => y > u
    BY <1>1, <1>5
  <2> QED
    BY <2>1
<1>7. Cardinality(Above(t)) <= Cardinality(Above(u))
  BY <1>3, <1>6, FS_Subset DEF Newest
<1> HIDE DEF Above
<1> QED
  BY <1>3, <1>4, <1>7 DEF Newest

\* A set of transactions that is not empty has a newest one.
LEMMA NewestExists ==
    ASSUME NEW S \in SUBSET Transactions, S # {}
    PROVE  \E t \in S : \A u \in S : u <= t
<1> DEFINE Beyond(x) == {y \in S : y > x}
           R == StrictSubsetOrdering(S)
           F == FiniteSubsetsOf(S)
           T == {Beyond(x) : x \in S}
<1>1. S \subseteq Int
  BY DEF Transactions
<1>2. IsFiniteSet(S)
  <2>1. IsFiniteSet(Transactions)
    BY FS_Interval DEF Transactions
  <2> QED
    BY <2>1, FS_Subset
<1>3. IsWellFoundedOn(R, F)
  BY <1>2, FS_StrictSubsetOrderingWellFounded
<1>4. T \subseteq F /\ T # {}
  <2>1. \A x \in S : IsFiniteSet(Beyond(x)) /\ Beyond(x) \subseteq S
    BY <1>2, FS_Subset
  <2> QED
    BY <2>1 DEF FiniteSubsetsOf
<1>5. PICK b \in T : \A c \in T : <<c, b>> \notin R
  <2> HIDE DEF R, F, T
  <2> QED
    BY <1>3, <1>4, WFMin
<1>6. PICK t \in S : b = Beyond(t)
  OBVIOUS
<1>7. ASSUME NEW u \in S, u > t PROVE FALSE
  <2>1. Beyond(u) \subseteq Beyond(t)
    <3>1. \A y \in S : y > u => y > t
      BY <1>1, <1>7
    <3> QED
      BY <3>1
  <2>2. u \in Beyond(t) /\ u \notin Beyond(u)
    BY <1>1, <1>7
  <2>3. <<Beyond(u), Beyond(t)>> \in R
    BY <2>1, <2>2 DEF StrictSubsetOrdering
  <2> QED
    BY <1>5, <1>6, <2>3
<1>8. \A u \in S : u <= t
  BY <1>1, <1>7
<1> QED
  BY <1>8

\* A set of transactions that is not empty has an oldest one.
LEMMA OldestExists ==
    ASSUME NEW S \in SUBSET Transactions, S # {}
    PROVE  \E t \in S : \A u \in S : t <= u
<1> DEFINE Beyond(x) == {y \in S : y < x}
           R == StrictSubsetOrdering(S)
           F == FiniteSubsetsOf(S)
           T == {Beyond(x) : x \in S}
<1>1. S \subseteq Int
  BY DEF Transactions
<1>2. IsFiniteSet(S)
  <2>1. IsFiniteSet(Transactions)
    BY FS_Interval DEF Transactions
  <2> QED
    BY <2>1, FS_Subset
<1>3. IsWellFoundedOn(R, F)
  BY <1>2, FS_StrictSubsetOrderingWellFounded
<1>4. T \subseteq F /\ T # {}
  <2>1. \A x \in S : IsFiniteSet(Beyond(x)) /\ Beyond(x) \subseteq S
    BY <1>2, FS_Subset
  <2> QED
    BY <2>1 DEF FiniteSubsetsOf
<1>5. PICK b \in T : \A c \in T : <<c, b>> \notin R
  <2> HIDE DEF R, F, T
  <2> QED
    BY <1>3, <1>4, WFMin
<1>6. PICK t \in S : b = Beyond(t)
  OBVIOUS
<1>7. ASSUME NEW u \in S, u < t PROVE FALSE
  <2>1. Beyond(u) \subseteq Beyond(t)
    <3>1. \A y \in S : y < u => y < t
      BY <1>1, <1>7
    <3> QED
      BY <3>1
  <2>2. u \in Beyond(t) /\ u \notin Beyond(u)
    BY <1>1, <1>7
  <2>3. <<Beyond(u), Beyond(t)>> \in R
    BY <2>1, <2>2 DEF StrictSubsetOrdering
  <2> QED
    BY <1>5, <1>6, <2>3
<1>8. \A u \in S : t <= u
  BY <1>1, <1>7
<1> QED
  BY <1>8

\* The cut drops no more than needed: when it drops one, it keeps n.
LEMMA NewestKeepsEnough ==
    ASSUME NEW S \in SUBSET Transactions, NEW n \in Nat, S # Newest(S, n)
    PROVE  Cardinality(Newest(S, n)) = n
<1> DEFINE K == Newest(S, n)
           Above(x) == {y \in S : y > x}
<1>1. K \subseteq S /\ S \ K # {} /\ K \in SUBSET Transactions
      /\ \A x \in S : x \in Int
  <2>1. K \subseteq S
    BY DEF Newest
  <2>2. \A x \in S : x \in Int
    BY DEF Transactions
  <2> QED
    BY <2>1, <2>2
<1>2. IsFiniteSet(S) /\ IsFiniteSet(K)
  <2>1. IsFiniteSet(Transactions)
    BY FS_Interval DEF Transactions
  <2> QED
    BY <1>1, <2>1, FS_Subset
<1>3. Cardinality(K) \in Nat /\ \A x \in S : Cardinality(Above(x)) \in Nat
  BY <1>2, FS_Subset, FS_CardinalityType
<1>4. n <= Cardinality(K)
  <2>1. PICK t \in S \ K : \A u \in S \ K : u <= t
    BY <1>1, NewestExists
  <2>2. Above(t) \subseteq K
    BY <1>1, <2>1
  <2>3. ~(Cardinality(Above(t)) < n)
    BY <2>1 DEF Newest
  <2>4. Cardinality(Above(t)) <= Cardinality(K)
    BY <1>2, <2>2, FS_Subset
  <2> HIDE DEF K, Above
  <2> QED
    BY <1>3, <2>1, <2>3, <2>4
<1>5. Cardinality(K) <= n
  <2>1. CASE K = {}
    BY <2>1, FS_EmptySet
  <2>2. CASE K # {}
    <3>1. PICK u \in K : \A v \in K : u <= v
      BY <1>1, <2>2, OldestExists
    <3>2. K \ {u} \subseteq Above(u)
      BY <1>1, <3>1
    <3>3. Cardinality(Above(u)) < n
      BY <3>1 DEF Newest
    <3>4. IsFiniteSet(Above(u))
      BY <1>1, <1>2, FS_Subset
    <3>5. Cardinality(K \ {u}) <= Cardinality(Above(u))
      BY <3>2, <3>4, FS_Subset
    <3>6. Cardinality(K \ {u}) = Cardinality(K) - 1
      BY <1>2, <3>1, FS_RemoveElement
    <3>7. u \in S
      BY <1>1, <3>1
    <3> HIDE DEF K, Above
    <3> QED
      BY <1>3, <3>3, <3>5, <3>6, <3>7
  <2> QED
    BY <2>1, <2>2
<1> HIDE DEF K
<1> QED
  BY <1>3, <1>4, <1>5 DEF K

\* A due transaction leaves due only by FlushPut, and only FlushEnd cuts.
LEMMA NewestStep ==
    ASSUME PlaceInv, [Next]_vars
    PROVE  /\ \A t \in due \ due', u \in due' : u < t
           /\ \A t \in Transactions : Meets(t, "requeue_full")
                 => t \in due \ due' /\ Len(input_queue) = QUEUES_SIZE
           /\ \A t \in Transactions : Meets(t, "truncated")
                 => /\ Cardinality(transactions') = RETRY_QUEUE_MAX_SIZE
                    /\ \A u \in transactions' : t < u
<1> DEFINE Goal == /\ \A t \in due \ due', u \in due' : u < t
                   /\ \A t \in Transactions : Meets(t, "requeue_full")
                         => t \in due \ due' /\ Len(input_queue) = QUEUES_SIZE
                   /\ \A t \in Transactions : Meets(t, "truncated")
                         => /\ Cardinality(transactions') = RETRY_QUEUE_MAX_SIZE
                            /\ \A u \in transactions' : t < u
           Neither(t) == ~ Meets(t, "requeue_full") /\ ~ Meets(t, "truncated")
<1>h. /\ fate \in [Transactions -> {"none", "live"} \cup Final]
      /\ transactions \subseteq Transactions /\ due \subseteq Transactions
      /\ rpc # "flush" => due = {}
      /\ input_queue \in Seq(Transactions) /\ Len(input_queue) <= QUEUES_SIZE
  BY DEF PlaceInv, TypeInv, TypeOK, Pc
<1>1. ASSUME due' = due, \A t \in Transactions : Neither(t)
      PROVE  Goal
  BY <1>1
<1>2. ASSUME NEW p \in Submitters, Submit(p) \/ Enqueue(p) PROVE Goal
  <2>1. due' = due /\ \A t \in Transactions : Neither(t)
    BY <1>2, <1>h DEF Submit, Enqueue, retryVars, Meets
  <2> QED
    BY <1>1, <2>1
<1>3. ASSUME NEW w \in Workers, WorkerNext(w) PROVE Goal
  <2>1. due' = due /\ \A t \in Transactions : Neither(t)
    BY <1>3, <1>h
       DEF WorkerNext, WorkerLoop, WorkerGet, WorkerEmpty, PostAnswered, PostFailed,
           PostRaised, WorkerRetry, retryVars, Meets
  <2> QED
    BY <1>1, <2>1
<1>4. CASE FlushPut
  <2>1. PICK t \in due :
          /\ \A u \in due : u <= t
          /\ due' = due \ {t}
          /\ \/ fate' = fate
             \/ ~HasRoom(input_queue) /\ fate' = [fate EXCEPT ![t] = "requeue_full"]
    BY <1>4 DEF FlushPut
  <2>2. \A u \in due' : u < t
    <3>1. \A u \in due : u \in Int
      BY <1>h DEF Transactions
    <3>2. t \in Int /\ \A u \in due \ {t} : u <= t /\ u # t /\ u \in Int
      BY <2>1, <3>1
    <3>3. \A u \in due \ {t} : u < t
      BY <3>2
    <3> QED
      BY <2>1, <3>3
  <2>3. \A u \in Transactions : ~ Meets(u, "truncated")
    BY <2>1, <1>h DEF Meets
  <2>4. \A v \in due \ due' : v = t
    BY <2>1
  <2>5. \A u \in Transactions : Meets(u, "requeue_full")
                                => u = t /\ ~HasRoom(input_queue)
    BY <2>1, <1>h DEF Meets
  <2>6. ~HasRoom(input_queue) => Len(input_queue) = QUEUES_SIZE
    BY <1>h DEF HasRoom
  <2>7. t \in due \ due'
    BY <2>1
  <2> QED
    BY <2>2, <2>3, <2>4, <2>5, <2>6, <2>7
<1>5. CASE FlushEnd
  <2>1. /\ due' = due
        /\ transactions' = Newest(transactions, RETRY_QUEUE_MAX_SIZE)
    BY <1>5 DEF FlushEnd
  <2>2. \A t \in Transactions : /\ ~ Meets(t, "requeue_full")
                                /\ Meets(t, "truncated")
                                      => t \in transactions \ transactions'
    BY <1>5, <1>h DEF FlushEnd, Meets
  <2>3. ASSUME NEW t \in transactions \ transactions'
        PROVE  /\ Cardinality(transactions') = RETRY_QUEUE_MAX_SIZE
               /\ \A u \in transactions' : t < u
    <3>1. transactions # Newest(transactions, RETRY_QUEUE_MAX_SIZE)
      BY <2>1, <2>3
    <3>2. Cardinality(transactions') = RETRY_QUEUE_MAX_SIZE
      BY <1>h, <2>1, <3>1, NewestKeepsEnough
    <3>3. \A u \in transactions' : t < u
      BY <1>h, <2>1, <2>3, NewestKeepsNewest
    <3> QED
      BY <3>2, <3>3
  <2>4. \A t \in due \ due' : FALSE
    BY <2>1
  <2> QED
    BY <2>2, <2>3, <2>4
<1>6. CASE RetryCheck
  <2>1. due = {} /\ \A t \in Transactions : Neither(t)
    BY <1>6, <1>h DEF RetryCheck, Meets
  <2> QED
    BY <2>1
<1>7. CASE UNCHANGED <<due, fate>>
  <2>1. due' = due /\ \A t \in Transactions : Neither(t)
    BY <1>7 DEF Meets
  <2> QED
    BY <1>1, <2>1
<1> QED
  BY <1>2, <1>3, <1>4, <1>5, <1>6, <1>7
     DEF Next, RetryNext, StopNext, Start, Stop, StopWorker, Joined, RetryLoop,
         RetryGet, Tick, Outage, vars, retryVars

\* The flush takes the due payloads newest first and drops one only while the
\* input queue is full; the cut keeps as many as it may, all newer than what
\* it drops.
THEOREM NewestFirstHolds == Spec => NewestFirst
<1> DEFINE A == /\ \A t \in due \ due', u \in due' : u < t
                /\ \A t \in Transactions : Meets(t, "requeue_full")
                      => t \in due \ due' /\ Len(input_queue) = QUEUES_SIZE
                /\ \A t \in Transactions : Meets(t, "truncated")
                      => /\ Cardinality(transactions') = RETRY_QUEUE_MAX_SIZE
                         /\ \A u \in transactions' : t < u
<1>1. PlaceInv /\ [Next]_vars => [A]_vars
  BY NewestStep
<1>2. Spec => []PlaceInv
  BY PlaceInit, PlaceStep, PTL DEF Spec
<1> QED
  BY <1>1, <1>2, PTL DEF Spec, NewestFirst

-----------------------------------------------------------------------------
(***************************************************************************)
(* Forwarder implements Delivery.  The mapping is the identity on fate and *)
(* copies; PlaceInv is what makes each end and each receipt one of a live  *)
(* transaction.                                                            *)
(***************************************************************************)

\* Counting a copy is what Delivery calls Taken.
LEMMA ReceiptIsTaken ==
    ASSUME NEW t, NEW taken \in BOOLEAN, Receipt(t, taken)
    PROVE  copies' = IF taken THEN [copies EXCEPT ![t] = Promise!Taken(@)]
                              ELSE copies
BY DEF Receipt, Lesser, Promise!Taken

LEMMA PromiseInit == Init => Promise!Init
BY DEF Init, Promise!Init

\* A step of the forwarder is one of Delivery, or leaves fate and copies alone.
LEMMA PromiseStep ==
    ASSUME PlaceInv, [Next]_vars
    PROVE  [Promise!Next]_<<fate, copies>>
<1>h. /\ fate \in [Transactions -> {"none", "live"} \cup Final]
      /\ hand \in [Workers -> Transactions \cup {None}]
      /\ sub \in [Submitters -> Transactions \cup {None}]
      /\ transactions \subseteq Transactions /\ due \subseteq Transactions
      /\ Pc /\ Kept
  BY DEF PlaceInv, TypeInv, TypeOK
\* A Worker that POSTs, or gives up, holds a live transaction.
<1>w. ASSUME NEW w \in Workers, wpc[w] \in {"post", "put"}
      PROVE  hand[w] \in Transactions /\ fate[hand[w]] = "live"
  BY <1>h, <1>w DEF Pc, Kept, InHand
\* One transaction that is dropped is a set of them.
<1>o. ASSUME NEW t \in Transactions, fate[t] = "live",
             NEW why \in Final \ {"accepted", "rejected"},
             fate' = [fate EXCEPT ![t] = why], UNCHANGED copies
      PROVE  Promise!Next
  <2>1. fate' = [u \in Transactions |-> IF u \in {t} THEN why ELSE fate[u]]
    BY <1>o, <1>h
  <2>2. Promise!Drop({t}, why)
    BY <1>o, <2>1 DEF Promise!Drop
  <2>3. {t} \in SUBSET Transactions
    OBVIOUS
  <2> QED
    BY <2>2, <2>3 DEF Promise!Next
<1>1. ASSUME NEW p \in Submitters, Submit(p) PROVE Promise!Next
  <2> DEFINE t == created + 1
  <2>1. created \in Nat /\ t \in Transactions
    BY <1>1 DEF Submit, PlaceInv, TypeInv, TypeOK, Transactions
  <2>2. \A u \in Transactions : u \in Int /\ (fate[u] = "none" <=> u > created)
    BY DEF PlaceInv, Fresh, Transactions
  <2>3. fate[t] = "none" /\ \A u \in Transactions : u < t => fate[u] # "none"
    BY <2>1, <2>2
  <2>4. Promise!Submit(t)
    BY <1>1, <2>3 DEF Submit, txVars, Promise!Submit
  <2> QED
    BY <2>1, <2>4 DEF Promise!Next
<1>2. ASSUME NEW p \in Submitters, Enqueue(p) PROVE [Promise!Next]_<<fate, copies>>
  <2>1. sub[p] \in Transactions /\ fate[sub[p]] = "live"
    BY <1>2, <1>h DEF Enqueue, Kept, Submitting
  <2>2. "input_full" \in Final \ {"accepted", "rejected"}
    BY DEF Final
  <2> QED
    BY <1>2, <2>1, <2>2, <1>o DEF Enqueue, txVars
<1>3. ASSUME NEW w \in Workers, PostAnswered(w) PROVE Promise!Next
  <2>1. PICK answer \in {"accepted", "rejected"} :
          /\ fate' = [fate EXCEPT ![hand[w]] = answer]
          /\ Receipt(hand[w], answer = "accepted")
    BY <1>3 DEF PostAnswered
  <2>2. Promise!Attempt(hand[w], answer = "accepted", answer)
    BY <1>3, <2>1, <1>w, ReceiptIsTaken DEF PostAnswered, Promise!Attempt
  <2>3. hand[w] \in Transactions /\ (answer = "accepted") \in BOOLEAN
    BY <1>3, <1>w DEF PostAnswered
  <2> QED
    BY <2>1, <2>2, <2>3 DEF Promise!Next
<1>4. ASSUME NEW w \in Workers, PostFailed(w) PROVE Promise!Next
  <2>1. PICK taken \in BOOLEAN : Receipt(hand[w], taken)
    BY <1>4 DEF PostFailed
  <2>2. hand[w] \in Transactions /\ fate[hand[w]] = "live"
    BY <1>4, <1>w DEF PostFailed
  <2>3. fate' = [fate EXCEPT ![hand[w]] = "live"]
    BY <1>4, <2>2, <1>h DEF PostFailed
  <2>4. Promise!Attempt(hand[w], taken, "live")
    BY <2>1, <2>2, <2>3, ReceiptIsTaken DEF Promise!Attempt
  <2> QED
    BY <2>2, <2>4 DEF Promise!Next
<1>5. ASSUME NEW w \in Workers, PostRaised(w) PROVE Promise!Next
  <2>1. PICK taken \in BOOLEAN : Receipt(hand[w], taken)
    BY <1>5 DEF PostRaised
  <2>2. hand[w] \in Transactions /\ fate[hand[w]] = "live"
    BY <1>5, <1>w DEF PostRaised
  <2>3. Promise!Attempt(hand[w], taken, "error")
    BY <1>5, <2>1, <2>2, ReceiptIsTaken DEF PostRaised, Promise!Attempt
  <2> QED
    BY <2>2, <2>3 DEF Promise!Next
<1>6. ASSUME NEW w \in Workers, WorkerRetry(w) PROVE [Promise!Next]_<<fate, copies>>
  <2>1. hand[w] \in Transactions /\ fate[hand[w]] = "live"
    BY <1>6, <1>w DEF WorkerRetry
  <2>2. "retry_full" \in Final \ {"accepted", "rejected"}
    BY DEF Final
  <2> QED
    BY <1>6, <2>1, <2>2, <1>o DEF WorkerRetry, txVars
<1>7. CASE FlushPut
  <2>1. PICK t \in due : \/ UNCHANGED fate
                        \/ fate' = [fate EXCEPT ![t] = "requeue_full"]
    BY <1>7 DEF FlushPut
  <2>2. t \in Transactions /\ fate[t] = "live"
    BY <2>1, <1>h DEF Kept
  <2>3. "requeue_full" \in Final \ {"accepted", "rejected"}
    BY DEF Final
  <2> QED
    BY <1>7, <2>1, <2>2, <2>3, <1>o DEF FlushPut, txVars
<1>8. CASE FlushEnd
  <2> DEFINE S == transactions \ transactions'
  <2>1. S \in SUBSET Transactions /\ \A t \in S : fate[t] = "live"
    BY <1>8, <1>h DEF FlushEnd, Kept
  <2>2. "truncated" \in Final \ {"accepted", "rejected"}
    BY DEF Final
  <2>3. Promise!Drop(S, "truncated")
    BY <1>8, <2>1 DEF FlushEnd, txVars, Promise!Drop
  <2> QED
    BY <2>1, <2>2, <2>3 DEF Promise!Next
<1>9. CASE UNCHANGED <<fate, copies>>
  BY <1>9
<1> QED
  BY <1>1, <1>2, <1>3, <1>4, <1>5, <1>6, <1>7, <1>8, <1>9
     DEF Next, WorkerNext, RetryNext, StopNext, Start, Stop, StopWorker, Joined,
         WorkerLoop, WorkerGet, WorkerEmpty, RetryLoop, RetryGet, RetryCheck,
         Tick, Outage, vars, txVars

\* Every payload has one end, and the intake takes a second copy of it only
\* after an attempt whose answer did not arrive, whatever the number of
\* Workers and submitters, the capacities and the intervals.
THEOREM DeliveryImplemented == Spec => ImplementsDelivery
<1>1. Spec => []PlaceInv
  BY PlaceInit, PlaceStep, PTL DEF Spec
<1>2. PlaceInv /\ [Next]_vars => [Promise!Next]_<<fate, copies>>
  BY PromiseStep
<1> QED
  BY <1>1, <1>2, PromiseInit, PTL DEF Spec, Promise!Spec, ImplementsDelivery
==============================================================================
