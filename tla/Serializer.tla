----------------------------- MODULE Serializer -----------------------------
(***************************************************************************)
(* The Serializer (serialize/serialize.py) takes the metrics, the service  *)
(* checks and the events out of an aggregator (aggregator/aggregator.py),  *)
(* one kind after the other, and pushes the three payloads only when all   *)
(* three could be encoded.                                                 *)
(*                                                                         *)
(* In the agent the checks submit and the AgentRunner pushes in the same   *)
(* thread; in dogstatsd the server submits packets in a thread of its own  *)
(* while the Reporter pushes: it counts an event after it has appended it, *)
(* without a lock, and flush_events sums that count up and resets it.  The *)
(* metrics of dogstatsd are left to BucketThreads: they enter and leave    *)
(* the aggregator in one step here.                                        *)
(***************************************************************************)
EXTENDS Integers, Sequences, FiniteSets

CONSTANTS
    Items,       \* bound: what can be in the system at a time
    KindOf,      \* item -> its kind
    NoItem,
    Contents,    \* bound: what the values of an item may be
    MaxEvents    \* bound: events submitted

\* Mutant: the events come first.
EventsFirst == <<"events", "metrics", "service_checks">>

KindOrder == <<"metrics", "service_checks", "events">>

Kinds == {KindOrder[i] : i \in 1 .. 3}

(***************************************************************************)
(* The values of an item: "text" is JSON as it is, "bytes" once it is      *)
(* decoded; "map" is JSON but ensure_unicode cannot walk through it;       *)
(* "object" is not JSON.                                                   *)
(***************************************************************************)
ASSUME SerializerAssumption ==
    /\ KindOf \in [Items -> Kinds]
    /\ Contents \subseteq {"text", "bytes", "map", "object"}
    /\ NoItem \notin Items
    /\ MaxEvents \in Nat

VARIABLES
    dogstatsd,    \* whether packets are submitted, by a thread of their own
    content,      \* the values of each item, "unused" when it is none
    lists,        \* kind -> what the aggregator's list of it holds
    held,         \* the item that is being appended to a list it read before
    held_list,    \* where that list is: "aggregator", "serializer", "gone"
    stage,        \* how many kinds the serializer has flushed in this turn
    encoding,     \* whether the last of them is not yet encoded
    flushed,      \* kind -> what was flushed in this turn
    counting,     \* the server's `event_count += 1`: "idle", "due", or "read"
    count_read,   \* what it has read
    tally,        \* flush_events after the list: "total" and "reset" are to come
    event_count,
    events_total, \* the statistic
    appended,     \* history: events that event() has appended
    raced         \* history: a += and a tally fell into one another

submission == <<held, held_list, counting, count_read>>
turn == <<stage, encoding, flushed, tally>>
counts == <<event_count, events_total, raced>>
serializerVars == <<dogstatsd, content, lists, submission, turn, counts, appended>>

Nothing == [k \in Kinds |-> {}]

SerializerInit ==
    /\ dogstatsd \in BOOLEAN
    /\ content = [i \in Items |-> "unused"]
    /\ lists = Nothing
    /\ held = NoItem
    /\ held_list = "gone"
    /\ stage = 0
    /\ encoding = FALSE
    /\ flushed = Nothing
    /\ counting = "idle" /\ count_read = 0 /\ tally = "done"
    /\ event_count = 0 /\ events_total = 0 /\ appended = 0
    /\ raced = FALSE

-----------------------------------------------------------------------------
(***************************************************************************)
(* Aggregator.submit_metric, service_check and event                       *)
(***************************************************************************)
MaySubmit(i) ==
    /\ held = NoItem /\ counting = "idle" /\ (dogstatsd \/ stage = 0)
    /\ content[i] = "unused"
    /\ KindOf[i] = "events" => appended < MaxEvents

With(l, i) == [l EXCEPT ![KindOf[i]] = @ \cup {i}]

Events(i) == IF KindOf[i] = "events" THEN 1 ELSE 0

\* A check submits item i; the name of a metric is hashed, so it is no map.  Nobody
\* counts its events.
CheckSubmits(i, c) ==
    /\ ~dogstatsd
    /\ KindOf[i] = "metrics" => c # "map"
    /\ MaySubmit(i)
    /\ content' = [content EXCEPT ![i] = c]
    /\ lists' = With(lists, i)
    /\ appended' = appended + Events(i)
    /\ UNCHANGED <<dogstatsd, submission, turn, counts>>

\* The server's thread has read self.events or self.service_checks; append comes next.
PacketReadsList(i) ==
    /\ dogstatsd
    /\ MaySubmit(i)
    /\ content' = [content EXCEPT ![i] = "text"]
    /\ held' = i
    /\ held_list' = "aggregator"
    /\ UNCHANGED <<dogstatsd, lists, counting, count_read, turn, counts, appended>>

\* The append.  submit_packets goes on to count an event.
PacketAppends ==
    /\ held # NoItem
    /\ lists' = IF held_list = "aggregator" THEN With(lists, held) ELSE lists
    /\ flushed' = IF held_list = "serializer" THEN With(flushed, held) ELSE flushed
    /\ content' = IF held_list = "gone" THEN [content EXCEPT ![held] = "unused"] ELSE content
    /\ counting' = IF KindOf[held] = "events" THEN "due" ELSE "idle"
    /\ appended' = appended + Events(held)
    /\ held' = NoItem
    /\ held_list' = "gone"
    /\ UNCHANGED <<dogstatsd, count_read, stage, encoding, tally, counts>>

\* self.event_count += 1 reads the count ...
PacketReadsCount ==
    /\ counting = "due"
    /\ counting' = "read"
    /\ count_read' = event_count
    /\ raced' = (raced \/ tally = "reset")
    /\ UNCHANGED <<dogstatsd, content, lists, held, held_list, turn, event_count, events_total,
                   appended>>

\* ... and writes it.
PacketCounts ==
    /\ counting = "read"
    /\ counting' = "idle"
    /\ count_read' = 0
    /\ event_count' = count_read + 1
    /\ raced' = (raced \/ tally = "reset")
    /\ UNCHANGED <<dogstatsd, content, lists, held, held_list, turn, events_total, appended>>

PacketGoesOn == PacketAppends \/ PacketReadsCount \/ PacketCounts

-----------------------------------------------------------------------------
(***************************************************************************)
(* Serializer.serialize_and_push                                           *)
(***************************************************************************)
MayPush == dogstatsd \/ held = NoItem

\* Where the list that the server's thread holds is when the one of kind k moves on.
Moved(k, from, to) ==
    IF held # NoItem /\ KindOf[held] = k /\ held_list = from THEN to ELSE held_list

\* The turn goes on to kind k.
Takes(k) ==
    /\ MayPush
    /\ ~encoding /\ stage < 3 /\ k = KindOrder[stage + 1]
    /\ stage' = stage + 1
    /\ encoding' = TRUE
    /\ flushed' = [flushed EXCEPT ![k] = lists[k]]
    /\ tally' = IF k = "events" THEN "total" ELSE "done"

\* Mutant: the aggregator keeps its list.
FlushACopy(k) ==
    /\ Takes(k)
    /\ UNCHANGED <<dogstatsd, content, lists, submission, counts, appended>>

\* Aggregator.flush, flush_service_checks or flush_events puts an empty list in the
\* place of the one it takes.
Flush(k) ==
    /\ Takes(k)
    /\ lists' = [lists EXCEPT ![k] = {}]
    /\ held_list' = Moved(k, "aggregator", "serializer")
    /\ UNCHANGED <<dogstatsd, content, held, counting, count_read, counts, appended>>

\* flush_events then adds what was counted to the statistic ...
Tallies(from, to) ==
    /\ tally = from /\ tally' = to
    /\ raced' = (raced \/ counting = "read")
    /\ UNCHANGED <<dogstatsd, content, lists, submission, stage, encoding, flushed, appended>>

\* Mutant: set_stat in the place of inc_stat.
SetTotal ==
    /\ Tallies("total", "reset")
    /\ events_total' = event_count
    /\ UNCHANGED event_count

AddToTotal ==
    /\ Tallies("total", "reset")
    /\ events_total' = events_total + event_count
    /\ UNCHANGED event_count

\* ... and begins to count anew.
ResetCount ==
    /\ Tallies("reset", "done")
    /\ event_count' = 0
    /\ UNCHANGED events_total

Has(k, c) == \E i \in flushed[k] : content[i] = c

\* json.dumps as it is, or else after ensure_unicode; events go through it first.
Encodes(k) ==
    /\ ~Has(k, "object")
    /\ Has(k, "map") => k # "events" /\ ~Has(k, "bytes")

Encoded ==
    /\ encoding /\ tally = "done"
    /\ Encodes(KindOrder[stage])
    /\ encoding' = FALSE
    /\ held_list' = Moved(KindOrder[stage], "serializer", "gone")
    /\ UNCHANGED <<dogstatsd, content, lists, held, counting, count_read, stage, flushed, tally,
                   counts, appended>>

Everything == UNION {flushed[k] : k \in Kinds}

\* The end of a turn: its lists are gone, and the items in them.
EndTurn ==
    /\ stage' = 0
    /\ encoding' = FALSE
    /\ flushed' = Nothing
    /\ content' = [i \in Items |-> IF i \in Everything THEN "unused" ELSE content[i]]
    /\ UNCHANGED <<dogstatsd, lists, held, counting, count_read, tally, counts, appended>>

\* The exception ends the turn; the thread's loop goes on with the next.
Fails ==
    /\ encoding /\ tally = "done"
    /\ ~Encodes(KindOrder[stage])
    /\ held_list' = Moved(KindOrder[stage], "serializer", "gone")
    /\ EndTurn

\* Mutant: the turn may end before the events.
PushTwo ==
    /\ stage >= 2 /\ ~encoding
    /\ EndTurn
    /\ UNCHANGED held_list

\* submit_v1_series, submit_v1_service_checks and submit_v1_intake.
PushPayloads ==
    /\ stage = 3 /\ ~encoding
    /\ EndTurn
    /\ UNCHANGED held_list

SerializerTurn ==
    \/ Encoded \/ Fails \/ PushPayloads
    \/ \E k \in Kinds : Flush(k)
    \/ AddToTotal \/ ResetCount

SerializerNext ==
    \/ \E i \in Items : PacketReadsList(i) \/ \E c \in Contents : CheckSubmits(i, c)
    \/ PacketGoesOn
    \/ SerializerTurn

SerializerSpec == SerializerInit /\ [][SerializerNext]_serializerVars

\* The collection thread and the Reporter come back to their turn, and the server's
\* thread runs on.
SerializerFairness == WF_serializerVars(SerializerTurn) /\ WF_serializerVars(PacketGoesOn)

SerializerFairSpec == SerializerSpec /\ SerializerFairness

-----------------------------------------------------------------------------
SerializerTypeOK ==
    /\ dogstatsd \in BOOLEAN
    /\ content \in [Items -> Contents \cup {"unused", "text"}]
    /\ {lists, flushed} \subseteq [Kinds -> SUBSET Items]
    /\ held \in Items \cup {NoItem}
    /\ held_list \in {"aggregator", "serializer", "gone"}
    /\ stage \in 0 .. 3 /\ encoding \in BOOLEAN
    /\ counting \in {"idle", "due", "read"} /\ tally \in {"done", "total", "reset"}
    /\ {count_read, event_count, events_total} \subseteq Nat /\ appended \in 0 .. MaxEvents
    /\ raced \in BOOLEAN
    /\ \A i \in Items : \A k \in Kinds : i \in lists[k] \cup flushed[k] => KindOf[i] = k

\* The places where an item can be.
Contained == [lists |-> UNION {lists[k] : k \in Kinds}, flushed |-> Everything, held |-> {held}]
Places(i) == {p \in DOMAIN Contained : i \in Contained[p]}

\* An item is in one list or on its way to one until its turn has pushed it or failed,
\* or its list was encoded without it: no later turn sends it again.
InOnePlace ==
    \A i \in Items : Cardinality(Places(i)) = IF content[i] = "unused" THEN 0 ELSE 1

\* As long as no += of the server falls into the tally of a flush, or a tally into a
\* +=, the statistic and the count have every event that was appended once, however
\* the flush of the list falls between an append and its count.
EventsCounted ==
    dogstatsd /\ ~raced =>
        events_total + (IF tally = "reset" THEN 0 ELSE event_count)
            = appended - (IF counting = "idle" THEN 0 ELSE 1)

Culprits(k, S) == {i \in S : KindOf[i] = k /\ content[i] \in {"object", "map"}}

\* A turn fails only for a value that is not text or bytes; if it takes events along,
\* the value is theirs, so a service check that cannot be encoded loses no event.
FailsForACause ==
    [][Fails =>
        LET kinds == {k \in Kinds : Culprits(k, Everything) # {}}
        IN  kinds # {} /\ (flushed["events"] # {} => "events" \in kinds)]_serializerVars

\* Every event that was appended leaves the aggregator, unless other kinds fail turn
\* after turn before the events are flushed.
EventsLeave ==
    <>[][Fails => stage = 3]_serializerVars =>
        \A i \in Items : i \in lists["events"] ~> i \notin lists["events"]

\* What is in the aggregator's lists, on its way to and from them, and counted.
SerializerInv == SerializerTypeOK /\ InOnePlace /\ EventsCounted
=============================================================================
