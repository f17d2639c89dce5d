--------------------------- MODULE PipelineProofs ---------------------------
(***************************************************************************)
(* Proofs about the way from a check to the intake: what the Serializer    *)
(* keeps, for any items, contents and number of events; and that Pipeline  *)
(* implements Passage, for any checks, items, payloads and ways to end,    *)
(* where the steps of the collector matter only for where its thread is.   *)
(* The last part is about the other thing that leaves the host, the        *)
(* archive of agent flare: what is in it, for any tree of directories.     *)
(***************************************************************************)
EXTENDS Pipeline, Flare, FiniteSetTheorems, SequenceTheorems, TLAPS

-----------------------------------------------------------------------------
(***************************************************************************)
(* The Serializer.                                                         *)
(***************************************************************************)
\* The kinds and their order.
LEMMA KindFacts ==
    /\ Kinds = {"metrics", "service_checks", "events"}
    /\ KindOrder[1] = "metrics" /\ KindOrder[2] = "service_checks" /\ KindOrder[3] = "events"
    /\ \A j \in 1 .. 3 : KindOrder[j] \in Kinds
    /\ \A j \in 1 .. 3, n \in 1 .. 3 : KindOrder[j] = KindOrder[n] => j = n
    /\ \A k \in Kinds : \E j \in 1 .. 3 : k = KindOrder[j]
BY DEF Kinds, KindOrder

\* What With adds, to the list of the item's kind.
LEMMA WithProperties ==
    ASSUME NEW l \in [Kinds -> SUBSET Items], NEW i \in Items
    PROVE  /\ With(l, i) \in [Kinds -> SUBSET Items]
           /\ \A k \in Kinds, j \in Items :
                 j \in With(l, i)[k] <=> j \in l[k] \/ (j = i /\ k = KindOf[i])
BY SerializerAssumption DEF With

\* Nothing has no items.
LEMMA NothingProperties ==
    Nothing \in [Kinds -> SUBSET Items] /\ \A k \in Kinds : Nothing[k] = {}
BY DEF Nothing

-----------------------------------------------------------------------------
(***************************************************************************)
(* The inductive invariant.                                                *)
(***************************************************************************)
\* The types, without the bound on the counters.
Shapes ==
    /\ dogstatsd \in BOOLEAN
    /\ content \in [Items -> Contents \cup {"unused", "text"}]
    /\ lists \in [Kinds -> SUBSET Items]
    /\ flushed \in [Kinds -> SUBSET Items]
    /\ held \in Items \cup {NoItem}
    /\ held_list \in {"aggregator", "serializer", "gone"}
    /\ stage \in 0 .. 3
    /\ encoding \in BOOLEAN

\* The lists hold items of their kind.
OfKind ==
    \A i \in Items, k \in Kinds : i \in lists[k] \/ i \in flushed[k] => KindOf[i] = k

\* The counters: there is room for the event that is held, and a += that no flush fell into has
\* read what it will write.
Counted ==
    /\ counting \in {"idle", "due", "read"} /\ tally \in {"done", "total", "reset"} /\ raced \in BOOLEAN
    /\ count_read \in Nat /\ event_count \in Nat /\ events_total \in Nat /\ appended \in Nat
    /\ appended <= MaxEvents
    /\ held # NoItem => counting = "idle" /\ (Events(held) = 1 => appended < MaxEvents)
    /\ tally # "done" => encoding
    /\ ~raced /\ counting = "read" => count_read = event_count
    /\ EventsCounted

\* No two places have an item in common, and one that is in use is in one of them.
Apart ==
    \A i \in Items :
        /\ i \in lists[KindOf[i]] => i \notin flushed[KindOf[i]]
        /\ i = held => i \notin lists[KindOf[i]] /\ i \notin flushed[KindOf[i]]
        /\ content[i] # "unused" <=>
              i \in lists[KindOf[i]] \/ i \in flushed[KindOf[i]] \/ i = held

\* A turn has nothing of the kinds that it has not reached.
NotYet == \A j \in 1 .. 3 : j > stage => flushed[KindOrder[j]] = {}

\* The server's thread appends to a list of the turn only while that list is encoded.
Late ==
    /\ encoding => stage \in 1 .. 3
    /\ held # NoItem /\ held_list = "serializer" => encoding /\ KindOf[held] = KindOrder[stage]

Inductive == Shapes /\ OfKind /\ Counted /\ Apart /\ NotYet /\ Late

\* The items of a turn are those of its lists.
LEMMA EverythingFlushed ==
    ASSUME Shapes, OfKind, NEW i \in Items
    PROVE  i \in Everything <=> i \in flushed[KindOf[i]]
BY SerializerAssumption DEF Shapes, OfKind, Everything

\* Initially all lists are empty.
LEMMA InitiallyInductive == SerializerInit => Inductive
<1> SUFFICES ASSUME SerializerInit PROVE Inductive
  OBVIOUS
<1>1. Shapes /\ OfKind
  <2>1. \A k \in Kinds : lists[k] = {} /\ flushed[k] = {}
    BY NothingProperties DEF SerializerInit
  <2>2. lists \in [Kinds -> SUBSET Items] /\ flushed \in [Kinds -> SUBSET Items]
    BY NothingProperties DEF SerializerInit
  <2>3. content \in [Items -> Contents \cup {"unused", "text"}]
    BY DEF SerializerInit
  <2>4. stage \in 0 .. 3 /\ held_list \in {"aggregator", "serializer", "gone"}
    BY DEF SerializerInit
  <2>5. dogstatsd \in BOOLEAN /\ encoding \in BOOLEAN /\ held \in Items \cup {NoItem}
    BY DEF SerializerInit
  <2> QED
    BY <2>1, <2>2, <2>3, <2>4, <2>5 DEF Shapes, OfKind
<1>2. Counted
  <2>1. /\ counting = "idle" /\ count_read = 0 /\ tally = "done" /\ raced = FALSE
        /\ event_count = 0 /\ events_total = 0 /\ appended = 0 /\ held = NoItem
    BY DEF SerializerInit
  <2>2. EventsCounted
    BY <2>1 DEF EventsCounted
  <2>3. raced \in BOOLEAN
    BY <2>1, Zenon
  <2>4. 0 <= MaxEvents
    BY SerializerAssumption
  <2> QED
    BY <2>1, <2>2, <2>3, <2>4 DEF Counted
<1>3. Apart
  BY SerializerAssumption, NothingProperties DEF SerializerInit, Apart
<1>4. NotYet /\ Late
  BY KindFacts, NothingProperties DEF SerializerInit, NotYet, Late
<1> QED
  BY <1>1, <1>2, <1>3, <1>4 DEF Inductive

-----------------------------------------------------------------------------
(***************************************************************************)
(* The steps.                                                              *)
(***************************************************************************)
\* A check that submits fills a list of the aggregator.
LEMMA CheckStep ==
    ASSUME Inductive, NEW i \in Items, NEW c \in Contents, CheckSubmits(i, c)
    PROVE  Inductive'
<1> USE DEF Inductive
<1>1. i \notin lists[KindOf[i]] /\ i \notin flushed[KindOf[i]] /\ held = NoItem
  BY DEF CheckSubmits, MaySubmit, Apart
<1>2. /\ lists' \in [Kinds -> SUBSET Items]
      /\ \A k \in Kinds, j \in Items :
            j \in lists'[k] <=> j \in lists[k] \/ (j = i /\ k = KindOf[i])
  BY WithProperties DEF CheckSubmits, Shapes
<1>3. Shapes'
  BY <1>2 DEF CheckSubmits, Shapes, submission, turn
<1>4. OfKind'
  BY <1>2 DEF CheckSubmits, OfKind, turn
<1>5. Counted'
  <2>1. Events(i) \in {0, 1} /\ (Events(i) = 1 => KindOf[i] = "events") /\ MaxEvents \in Nat
    BY SerializerAssumption DEF Events
  <2>2. /\ appended' = appended + Events(i) /\ (Events(i) = 1 => appended < MaxEvents)
        /\ ~dogstatsd /\ held' = NoItem
        /\ UNCHANGED <<dogstatsd, counting, count_read, encoding, tally, event_count, events_total, raced>>
    BY <1>1, <2>1 DEF CheckSubmits, MaySubmit, submission, turn, counts
  <2> QED
    BY <2>1, <2>2 DEF Counted, EventsCounted
<1>6. Apart'
  <2> SUFFICES ASSUME NEW j \in Items PROVE
        /\ j \in lists'[KindOf[j]] => j \notin flushed'[KindOf[j]]
        /\ j = held' => j \notin lists'[KindOf[j]] /\ j \notin flushed'[KindOf[j]]
        /\ content'[j] # "unused" <=>
              j \in lists'[KindOf[j]] \/ j \in flushed'[KindOf[j]] \/ j = held'
    BY DEF Apart
  <2>1. flushed' = flushed /\ held' = held /\ content' = [content EXCEPT ![i] = c]
    BY DEF CheckSubmits, submission, turn
  <2>2. KindOf[j] \in Kinds /\ c # "unused" /\ held \notin Items
    BY <1>1, SerializerAssumption
  <2>3. CASE j = i
    BY <1>1, <1>2, <2>1, <2>2, <2>3 DEF Shapes
  <2>4. CASE j # i
    BY <1>2, <2>1, <2>2, <2>4 DEF Shapes, Apart
  <2> QED
    BY <2>3, <2>4
<1>7. NotYet' /\ Late'
  BY DEF CheckSubmits, NotYet, Late, submission, turn
<1> QED
  BY <1>3, <1>4, <1>5, <1>6, <1>7

\* The server's thread takes a new item into its hand.
LEMMA ReadStep ==
    ASSUME Inductive, NEW i \in Items, PacketReadsList(i)
    PROVE  Inductive'
<1> USE DEF Inductive
<1>1. i \notin lists[KindOf[i]] /\ i \notin flushed[KindOf[i]] /\ held = NoItem
  BY DEF PacketReadsList, MaySubmit, Apart
<1>2. /\ lists' = lists /\ flushed' = flushed /\ held' = i
      /\ content' = [content EXCEPT ![i] = "text"]
  BY DEF PacketReadsList, turn
<1>3. Shapes'
  BY DEF PacketReadsList, Shapes, turn
<1>4. OfKind'
  BY <1>2 DEF OfKind
<1>5. Counted'
  BY <1>1, SerializerAssumption DEF PacketReadsList, MaySubmit, Counted, EventsCounted, Events, turn, counts
<1>6. Apart'
  BY <1>1, <1>2, SerializerAssumption DEF Shapes, Apart
<1>7. NotYet' /\ Late'
  BY DEF PacketReadsList, NotYet, Late, turn
<1> QED
  BY <1>3, <1>4, <1>5, <1>6, <1>7

\* The append puts it where the list now is; without a list it is out of use again.
LEMMA AppendStep ==
    ASSUME Inductive, PacketAppends
    PROVE  Inductive'
<1> USE DEF Inductive
<1>1. held \in Items /\ held # NoItem
  BY DEF PacketAppends, Shapes
<1>2. /\ held \notin lists[KindOf[held]] /\ held \notin flushed[KindOf[held]]
      /\ KindOf[held] \in Kinds /\ held' = NoItem /\ NoItem \notin Items
  BY <1>1, SerializerAssumption DEF PacketAppends, Apart
<1>3. /\ With(lists, held) \in [Kinds -> SUBSET Items]
      /\ \A k \in Kinds, j \in Items :
            j \in With(lists, held)[k] <=> j \in lists[k] \/ (j = held /\ k = KindOf[held])
  BY <1>1, WithProperties DEF Shapes
<1>4. /\ With(flushed, held) \in [Kinds -> SUBSET Items]
      /\ \A k \in Kinds, j \in Items :
            j \in With(flushed, held)[k] <=> j \in flushed[k] \/ (j = held /\ k = KindOf[held])
  BY <1>1, WithProperties DEF Shapes
<1>5. Shapes'
  BY <1>3, <1>4 DEF PacketAppends, Shapes
<1>6. OfKind'
  BY <1>3, <1>4 DEF PacketAppends, OfKind
<1>7. Counted'
  <2>1. MaxEvents \in Nat
    BY SerializerAssumption
  <2>2. CASE KindOf[held] = "events"
    <3>1. /\ Events(held) = 1 /\ counting = "idle" /\ counting' = "due" /\ appended' = appended + 1
          /\ UNCHANGED <<dogstatsd, count_read, encoding, tally, event_count, events_total, raced>>
      BY <1>1, <2>2 DEF PacketAppends, Counted, Events, counts
    <3> QED
      BY <1>1, <1>2, <2>1, <3>1 DEF Counted, EventsCounted
  <2>3. CASE KindOf[held] # "events"
    <3>1. /\ counting = "idle" /\ counting' = "idle" /\ appended' = appended + 0
          /\ UNCHANGED <<dogstatsd, count_read, encoding, tally, event_count, events_total, raced>>
      BY <1>1, <2>3 DEF PacketAppends, Counted, Events, counts
    <3> QED
      BY <1>2, <2>1, <3>1 DEF Counted, EventsCounted
  <2> QED
    BY <2>2, <2>3
<1>8. Apart'
  <2> SUFFICES ASSUME NEW j \in Items PROVE
        /\ j \in lists'[KindOf[j]] => j \notin flushed'[KindOf[j]]
        /\ content'[j] # "unused" <=> j \in lists'[KindOf[j]] \/ j \in flushed'[KindOf[j]]
    BY <1>2 DEF Apart
  <2>1. KindOf[j] \in Kinds
    BY SerializerAssumption
  <2>2. CASE held_list = "aggregator"
    BY <1>1, <1>2, <1>3, <2>1, <2>2 DEF PacketAppends, Apart
  <2>3. CASE held_list = "serializer"
    BY <1>1, <1>2, <1>4, <2>1, <2>3 DEF PacketAppends, Apart
  <2>4. CASE held_list = "gone"
    BY <1>1, <1>2, <2>1, <2>4 DEF PacketAppends, Apart, Shapes
  <2> QED
    BY <2>2, <2>3, <2>4 DEF Shapes
<1>9. NotYet'
  <2>1. CASE held_list = "serializer"
    <3> SUFFICES ASSUME NEW j \in 1 .. 3, j > stage PROVE flushed'[KindOrder[j]] = {}
      BY DEF NotYet, PacketAppends
    <3>1. KindOrder[j] \in Kinds /\ KindOrder[j] # KindOf[held] /\ flushed[KindOrder[j]] = {}
      BY <1>1, <2>1, KindFacts DEF Late, NotYet
    <3> QED
      BY <1>4, <2>1, <3>1 DEF PacketAppends
  <2>2. CASE held_list # "serializer"
    BY <2>2 DEF PacketAppends, NotYet
  <2> QED
    BY <2>1, <2>2
<1>10. Late'
  BY DEF PacketAppends, Late
<1> QED
  BY <1>5, <1>6, <1>7, <1>8, <1>9, <1>10

\* A flush moves a list to the turn, and the hold of the server's thread with it.
LEMMA FlushStep ==
    ASSUME Inductive, NEW k \in Kinds, Flush(k)
    PROVE  Inductive'
<1> USE DEF Inductive
<1>1. /\ stage + 1 \in 1 .. 3 /\ stage' = stage + 1 /\ k = KindOrder[stage'] /\ ~encoding /\ encoding'
      /\ flushed[k] = {} /\ UNCHANGED <<dogstatsd, content, held, appended>>
  BY DEF Flush, Takes, Shapes, NotYet
<1>2. /\ flushed' = [flushed EXCEPT ![k] = lists[k]]
      /\ lists' = [lists EXCEPT ![k] = {}]
      /\ held_list' = Moved(k, "aggregator", "serializer")
  BY DEF Flush, Takes
<1>3. \A j \in Kinds : /\ flushed'[j] = IF j = k THEN lists[k] ELSE flushed[j]
                       /\ lists'[j] = IF j = k THEN {} ELSE lists[j]
  BY <1>2 DEF Shapes
<1>4. Shapes'
  BY <1>1, <1>2 DEF Shapes, Moved
<1>5. OfKind'
  BY <1>3 DEF OfKind
<1>6. Counted'
  <2>1. /\ tally = "done" /\ tally' \in {"total", "done"}
        /\ UNCHANGED <<counting, count_read, event_count, events_total, raced>>
    BY <1>1 DEF Flush, Takes, Counted, counts
  <2> QED
    BY <1>1, <2>1 DEF Counted, EventsCounted, Events
<1>7. Apart'
  <2> SUFFICES ASSUME NEW i \in Items PROVE
        /\ i \in lists'[KindOf[i]] => i \notin flushed'[KindOf[i]]
        /\ i = held' => i \notin lists'[KindOf[i]] /\ i \notin flushed'[KindOf[i]]
        /\ content'[i] # "unused" <=>
              i \in lists'[KindOf[i]] \/ i \in flushed'[KindOf[i]] \/ i = held'
    BY DEF Apart
  <2>1. KindOf[i] \in Kinds
    BY SerializerAssumption
  <2> QED
    BY <1>1, <1>3, <2>1 DEF Apart
<1>8. NotYet'
  <2> SUFFICES ASSUME NEW j \in 1 .. 3, j > stage' PROVE flushed'[KindOrder[j]] = {}
    BY DEF NotYet
  <2>1. KindOrder[j] \in Kinds /\ KindOrder[j] # k /\ flushed[KindOrder[j]] = {}
    BY <1>1, KindFacts DEF NotYet, Shapes
  <2> QED
    BY <1>3, <2>1
<1>9. Late'
  BY <1>1, <1>2 DEF Late, Moved
<1> QED
  BY <1>4, <1>5, <1>6, <1>7, <1>8, <1>9

\* Once a list is encoded it is of no use to the thread that holds it.
LEMMA EncodedStep ==
    ASSUME Inductive, Encoded
    PROVE  Inductive'
<1> USE DEF Inductive
<1>1. /\ UNCHANGED <<dogstatsd, content, lists, held, counting, count_read, stage, flushed, tally,
                    event_count, events_total, raced, appended>>
      /\ encoding' = FALSE /\ encoding /\ tally = "done"
      /\ held_list' = Moved(KindOrder[stage], "serializer", "gone")
  BY DEF Encoded, counts
<1>2. Shapes'
  BY <1>1 DEF Encoded, Shapes, Moved
<1>3. OfKind' /\ NotYet'
  BY <1>1 DEF OfKind, NotYet
<1>4. Counted'
  BY <1>1 DEF Counted, EventsCounted, Events
<1>5. Apart'
  BY <1>1 DEF Apart
<1>6. Late'
  BY <1>1 DEF Late, Moved
<1> QED
  BY <1>2, <1>3, <1>4, <1>5, <1>6

\* A turn that ends takes its items out of use, and no thread appends to a list of it.
LEMMA EndStep ==
    ASSUME Inductive, EndTurn, tally = "done", held_list' \in {"aggregator", "serializer", "gone"},
           held # NoItem => held_list' # "serializer"
    PROVE  Inductive'
<1> USE DEF Inductive
<1>1. /\ stage' = 0 /\ encoding' = FALSE /\ flushed' = Nothing
      /\ content' = [i \in Items |-> IF i \in Everything THEN "unused" ELSE content[i]]
      /\ UNCHANGED <<dogstatsd, lists, held, counting, count_read, tally, event_count, events_total,
                    raced, appended>>
  BY DEF EndTurn, counts
<1>2. /\ flushed' \in [Kinds -> SUBSET Items]
      /\ \A k \in Kinds : flushed'[k] = {}
  BY <1>1, NothingProperties
<1>3. Shapes'
  <2>1. content' \in [Items -> Contents \cup {"unused", "text"}]
    BY <1>1 DEF Shapes
  <2>2. dogstatsd' \in BOOLEAN /\ encoding' \in BOOLEAN
    BY <1>1 DEF Shapes
  <2>3. stage' \in 0 .. 3 /\ held' \in Items \cup {NoItem} /\ lists' \in [Kinds -> SUBSET Items]
    BY <1>1 DEF Shapes
  <2>4. held_list' \in {"aggregator", "serializer", "gone"}
    OBVIOUS
  <2> QED
    BY <1>2, <2>1, <2>2, <2>3, <2>4 DEF Shapes
<1>4. OfKind'
  BY <1>1, <1>2 DEF OfKind
<1>5. Counted'
  BY <1>1 DEF Counted, EventsCounted, Events
<1>6. Apart'
  <2> SUFFICES ASSUME NEW i \in Items PROVE
        /\ i \in lists'[KindOf[i]] => i \notin flushed'[KindOf[i]]
        /\ i = held' => i \notin lists'[KindOf[i]] /\ i \notin flushed'[KindOf[i]]
        /\ content'[i] # "unused" <=>
              i \in lists'[KindOf[i]] \/ i \in flushed'[KindOf[i]] \/ i = held'
    BY DEF Apart
  <2>1. KindOf[i] \in Kinds /\ (i \in Everything <=> i \in flushed[KindOf[i]])
    BY SerializerAssumption, EverythingFlushed
  <2> QED
    BY <1>1, <1>2, <2>1 DEF Apart
<1>7. NotYet'
  BY <1>2, KindFacts DEF NotYet
<1>8. Late'
  BY <1>1 DEF Late
<1> QED
  BY <1>3, <1>4, <1>5, <1>6, <1>7, <1>8

\* The turn ends by an exception.
LEMMA FailsStep ==
    ASSUME Inductive, Fails
    PROVE  Inductive'
<1>1. EndTurn /\ tally = "done" /\ held_list' = Moved(KindOrder[stage], "serializer", "gone")
  BY DEF Fails
<1>2. held # NoItem => held_list' # "serializer"
  BY <1>1 DEF Moved, Inductive, Late
<1>3. held_list' \in {"aggregator", "serializer", "gone"}
  BY <1>1 DEF Moved, Inductive, Shapes
<1> QED
  BY <1>1, <1>2, <1>3, EndStep

\* The turn ends with three payloads.
LEMMA PushStep ==
    ASSUME Inductive, PushPayloads
    PROVE  Inductive'
<1>1. EndTurn /\ held_list' = held_list /\ ~encoding /\ tally = "done"
  BY DEF PushPayloads, Inductive, Counted
<1>2. held # NoItem => held_list' # "serializer"
  BY <1>1 DEF Inductive, Late
<1>3. held_list' \in {"aggregator", "serializer", "gone"}
  BY <1>1 DEF Inductive, Shapes
<1> QED
  BY <1>1, <1>2, <1>3, EndStep

\* The += of the server and the tally of the turn, which disturb only the counters: where
\* neither falls into the other, what was due is counted, and what was counted is in the total.
LEMMA CountStep ==
    ASSUME Inductive, PacketReadsCount \/ PacketCounts \/ AddToTotal \/ ResetCount
    PROVE  Inductive'
<1> USE DEF Inductive
<1>1. UNCHANGED <<dogstatsd, content, lists, held, held_list, stage, encoding, flushed, appended>>
  BY DEF PacketReadsCount, PacketCounts, AddToTotal, ResetCount, Tallies, turn, submission
<1>2. Counted'
  <2>1. CASE PacketReadsCount
    <3>1. /\ counting = "due" /\ counting' = "read" /\ count_read' = event_count
          /\ raced' = (raced \/ tally = "reset")
          /\ UNCHANGED <<tally, event_count, events_total>>
      BY <2>1 DEF PacketReadsCount, turn
    <3> QED
      BY <1>1, <3>1 DEF Counted, EventsCounted, Events
  <2>2. CASE PacketCounts
    <3>1. /\ counting = "read" /\ counting' = "idle" /\ count_read' = 0
          /\ event_count' = count_read + 1
          /\ raced' = (raced \/ tally = "reset")
          /\ UNCHANGED <<tally, events_total>>
      BY <2>2 DEF PacketCounts, turn
    <3>2. EventsCounted'
      <4> SUFFICES ASSUME dogstatsd', ~raced'
                   PROVE  (events_total + (IF tally = "reset" THEN 0 ELSE event_count)
                             = appended - (IF counting = "idle" THEN 0 ELSE 1))'
        BY DEF EventsCounted
      <4>1. dogstatsd /\ ~raced /\ tally # "reset"
        BY <1>1, <3>1
      <4>2. events_total + event_count = appended - 1 /\ count_read = event_count
        BY <3>1, <4>1 DEF Counted, EventsCounted
      <4> QED
        BY <1>1, <3>1, <4>1, <4>2 DEF Counted
    <3> QED
      BY <1>1, <3>1, <3>2 DEF Counted, Events
  <2>3. CASE AddToTotal
    <3>1. /\ tally = "total" /\ tally' = "reset" /\ events_total' = events_total + event_count
          /\ raced' = (raced \/ counting = "read")
          /\ UNCHANGED <<counting, count_read, event_count>>
      BY <2>3 DEF AddToTotal, Tallies, submission
    <3> QED
      BY <1>1, <3>1 DEF Counted, EventsCounted, Events
  <2>4. CASE ResetCount
    <3>1. /\ tally = "reset" /\ tally' = "done" /\ event_count' = 0
          /\ raced' = (raced \/ counting = "read")
          /\ UNCHANGED <<counting, count_read, events_total>>
      BY <2>4 DEF ResetCount, Tallies, submission
    <3> QED
      BY <1>1, <3>1 DEF Counted, EventsCounted, Events
  <2> QED
    BY <2>1, <2>2, <2>3, <2>4
<1>3. Shapes' /\ OfKind' /\ Apart' /\ NotYet' /\ Late'
  BY <1>1 DEF Shapes, OfKind, Apart, NotYet, Late
<1> QED
  BY <1>2, <1>3

\* Every step keeps the invariant.
LEMMA InductiveStep == Inductive /\ [SerializerNext]_serializerVars => Inductive'
<1> SUFFICES ASSUME Inductive, [SerializerNext]_serializerVars PROVE Inductive'
  OBVIOUS
<1>1. CASE \E i \in Items, c \in Contents : CheckSubmits(i, c)
  BY <1>1, CheckStep
<1>2. CASE \E i \in Items : PacketReadsList(i)
  BY <1>2, ReadStep
<1>3. CASE PacketAppends
  BY <1>3, AppendStep
<1>4. CASE \E k \in Kinds : Flush(k)
  BY <1>4, FlushStep
<1>5. CASE Encoded
  BY <1>5, EncodedStep
<1>6. CASE Fails
  BY <1>6, FailsStep
<1>7. CASE PushPayloads
  BY <1>7, PushStep
<1>8. CASE PacketReadsCount \/ PacketCounts \/ AddToTotal \/ ResetCount
  BY <1>8, CountStep
<1>9. CASE UNCHANGED serializerVars
  BY <1>9 DEF serializerVars, submission, turn, counts, Inductive, Shapes, OfKind, Counted,
              EventsCounted, Apart, NotYet, Late, Events
<1> QED
  BY <1>1, <1>2, <1>3, <1>4, <1>5, <1>6, <1>7, <1>8, <1>9
  DEF SerializerNext, SerializerTurn, PacketGoesOn

\* The invariant holds.
LEMMA InductiveHolds == SerializerSpec => []Inductive
<1> QED
  BY InitiallyInductive, InductiveStep, PTL DEF SerializerSpec

-----------------------------------------------------------------------------
(***************************************************************************)
(* The theorems.                                                           *)
(***************************************************************************)
\* The invariant implies that of the runs.
LEMMA InductiveImplies == Inductive => SerializerInv
<1> SUFFICES ASSUME Inductive PROVE SerializerInv
  OBVIOUS
<1> USE DEF Inductive
<1>1. SerializerTypeOK
  <2>1. /\ counting \in {"idle", "due", "read"} /\ tally \in {"done", "total", "reset"}
        /\ {count_read, event_count, events_total} \subseteq Nat /\ appended \in 0 .. MaxEvents
        /\ raced \in BOOLEAN
    BY SerializerAssumption DEF Counted
  <2>2. \A i \in Items : \A k \in Kinds : i \in lists[k] \cup flushed[k] => KindOf[i] = k
    BY DEF OfKind
  <2>3. {lists, flushed} \subseteq [Kinds -> SUBSET Items]
    BY DEF Shapes
  <2> QED
    BY <2>1, <2>2, <2>3 DEF SerializerTypeOK, Shapes
<1>2. InOnePlace
  <2> SUFFICES ASSUME NEW i \in Items
               PROVE  Cardinality(Places(i)) = IF content[i] = "unused" THEN 0 ELSE 1
    BY DEF InOnePlace
  <2>1. DOMAIN Contained = {"lists", "flushed", "held"}
    BY DEF Contained
  <2>2. /\ i \in Contained["lists"] <=> i \in lists[KindOf[i]]
        /\ i \in Contained["flushed"] <=> i \in flushed[KindOf[i]]
        /\ i \in Contained["held"] <=> i = held
    BY EverythingFlushed, SerializerAssumption DEF Contained, OfKind, Shapes
  <2>3. CASE content[i] = "unused"
    <3>1. Places(i) = {}
      BY <2>1, <2>2, <2>3 DEF Places, Apart
    <3> QED
      BY <2>3, <3>1, FS_EmptySet
  <2>4. CASE content[i] # "unused"
    <3>1. \E p \in {"lists", "flushed", "held"} : Places(i) = {p}
      BY <2>1, <2>2, <2>4 DEF Places, Apart
    <3> QED
      BY <2>4, <3>1, FS_Singleton
  <2> QED
    BY <2>3, <2>4
<1>3. EventsCounted
  BY DEF Counted
<1> QED
  BY <1>1, <1>2, <1>3 DEF SerializerInv

\* Whatever the server's thread and the Reporter do to the lists, an item in use is in
\* one place, so no two turns send it; and every event that was appended is counted once
\* until a += of the server and the tally of a flush fall into one another.
THEOREM SerializerInvHolds == SerializerSpec => []SerializerInv
<1> QED
  BY InductiveHolds, InductiveImplies, PTL

\* A turn fails only for a value that has no encoding, and it takes events along only for one of theirs.
THEOREM FailsForACauseHolds == SerializerSpec => FailsForACause
<1> DEFINE kinds == {k \in Kinds : Culprits(k, Everything) # {}}
           Cause == kinds # {} /\ (flushed["events"] # {} => "events" \in kinds)
<1>1. Inductive /\ [SerializerNext]_serializerVars => [Fails => Cause]_serializerVars
  <2> SUFFICES ASSUME Inductive, Fails PROVE Cause
    OBVIOUS
  <2> USE DEF Inductive
  <2> DEFINE k == KindOrder[stage]
  <2>1. stage \in 1 .. 3 /\ k \in Kinds /\ "events" \in Kinds
    BY KindFacts DEF Fails, Late
  <2>2. PICK i \in flushed[k] : content[i] \in {"object", "map"}
    BY DEF Fails, Encodes, Has
  <2>3. i \in Items /\ KindOf[i] = k /\ i \in Everything
    BY <2>1, <2>2 DEF Shapes, OfKind, Everything
  <2>4. k \in kinds
    BY <2>1, <2>2, <2>3 DEF Culprits
  <2>5. flushed["events"] # {} => k = "events"
    BY <2>1, KindFacts DEF NotYet
  <2> HIDE DEF kinds
  <2> QED
    BY <2>4, <2>5
<1> QED
  BY <1>1, InductiveHolds, PTL DEF SerializerSpec, FailsForACause

-----------------------------------------------------------------------------
(***************************************************************************)
(* The pipeline.                                                           *)
(***************************************************************************)
\* Item i is, or was, in a payload.
Carried(i) == \E t \in Transactions : i \in parcel[t]

\* The kind of item i is among the first n that a push submits.
AmongFirst(i, n) == \E j \in 1 .. 3 : j <= n /\ KindOf[i] = KindOrder[j]

-----------------------------------------------------------------------------
(***************************************************************************)
(* The inductive invariant.                                                *)
(***************************************************************************)
PipeTypes ==
    /\ fate \in [Transactions -> Final \cup {"none", "live"}]
    /\ parcel \in [Transactions -> SUBSET Items]
    /\ given \subseteq Items
    /\ sent \in 0 .. 3

\* The serializer works only in a push, and submits only when all is encoded.
InPush ==
    /\ dogstatsd = FALSE /\ held = NoItem
    /\ pc # "push" => stage = 0 /\ encoding = FALSE /\ sent = 0
    /\ sent > 0 => stage = 3 /\ encoding = FALSE

\* What a push has flushed is complete: no check runs meanwhile.
Emptied == \A j \in 1 .. 3 : j <= stage => lists[KindOrder[j]] = {}

\* An item is in one payload at most, and only after a check has submitted it.
OneParcel ==
    /\ \A t \in Transactions : fate[t] = "none" => parcel[t] = {}
    /\ \A t, u \in Transactions : parcel[t] \cap parcel[u] # {} => t = u
    /\ \A t \in Transactions : parcel[t] \subseteq given
    /\ \A i \in Items : content[i] # "unused" => i \in given

\* The items that the serializer still has and that are in a payload are those of the
\* kinds that this push has submitted.
CarriedSoFar ==
    \A i \in Items : content[i] # "unused" => (Carried(i) <=> AmongFirst(i, sent))

PipeInv == Inductive /\ PipeTypes /\ InPush /\ Emptied /\ OneParcel /\ CarriedSoFar

\* Initially there is nothing.
LEMMA PipeInit == PipelineInit => PipeInv
<1> SUFFICES ASSUME PipelineInit PROVE PipeInv
  OBVIOUS
<1>1. Inductive
  BY InitiallyInductive DEF PipelineInit
<1>2. /\ fate = [t \in Transactions |-> "none"] /\ parcel = [t \in Transactions |-> {}]
      /\ given = {} /\ sent = 0 /\ \A i \in Items : content[i] = "unused"
      /\ stage = 0 /\ encoding = FALSE /\ held = NoItem /\ ~dogstatsd
  BY DEF PipelineInit, SerializerInit, Forwarder!Init
<1>3. dogstatsd = FALSE
  BY <1>1, <1>2 DEF Inductive, Shapes
<1>4. PipeTypes /\ OneParcel
  BY <1>2 DEF PipeTypes, OneParcel
<1>5. InPush /\ Emptied /\ CarriedSoFar
  BY <1>2, <1>3 DEF InPush, Emptied, CarriedSoFar
<1> QED
  BY <1>1, <1>4, <1>5 DEF PipeInv

-----------------------------------------------------------------------------
(***************************************************************************)
(* Payloads that are submitted and that end.                               *)
(***************************************************************************)
\* A payload with items that are in none yet is submitted.
LEMMA HandFacts ==
    ASSUME PipeInv, NEW S \in SUBSET Items, Hand(S)
    PROVE  \E t \in Transactions :
              /\ fate[t] = "none" /\ parcel[t] = {}
              /\ fate' = [fate EXCEPT ![t] = "live"]
              /\ parcel' = [parcel EXCEPT ![t] = S]
              /\ parcel' \in [Transactions -> SUBSET Items]
              /\ fate' \in [Transactions -> Final \cup {"none", "live"}]
              /\ \A i \in Items : Carried(i)' <=> Carried(i) \/ i \in S
<1>1. PICK t \in Transactions : Forwarder!Submit(t) /\ parcel' = [parcel EXCEPT ![t] = S]
  BY DEF Hand
<1>2. fate[t] = "none" /\ fate' = [fate EXCEPT ![t] = "live"]
  BY <1>1 DEF Forwarder!Submit
<1>3. parcel[t] = {}
  BY <1>2 DEF PipeInv, OneParcel
<1>4. parcel' \in [Transactions -> SUBSET Items] /\ fate' \in [Transactions -> Final \cup {"none", "live"}]
  BY <1>1, <1>2 DEF PipeInv, PipeTypes
<1>5. \A u \in Transactions : parcel'[u] = IF u = t THEN S ELSE parcel[u]
  BY <1>1 DEF PipeInv, PipeTypes
<1>6. \A i \in Items : Carried(i)' <=> Carried(i) \/ i \in S
  BY <1>3, <1>5 DEF Carried
<1> QED
  BY <1>1, <1>2, <1>3, <1>4, <1>6

\* One that carries new items keeps them apart from the others.
LEMMA HandParcel ==
    ASSUME PipeInv, NEW S \in SUBSET Items, Hand(S), UNCHANGED <<content, given>>,
           S \subseteq given, \A i \in S : ~Carried(i)
    PROVE  OneParcel'
<1>1. PICK t \in Transactions :
              /\ fate' = [fate EXCEPT ![t] = "live"] /\ parcel' = [parcel EXCEPT ![t] = S]
  BY HandFacts
<1>2. \A u \in Transactions : /\ parcel'[u] = IF u = t THEN S ELSE parcel[u]
                              /\ fate'[u] = IF u = t THEN "live" ELSE fate[u]
  BY <1>1 DEF PipeInv, PipeTypes
<1>3. \A u \in Transactions : fate'[u] = "none" => parcel'[u] = {}
  BY <1>2 DEF PipeInv, OneParcel
<1>4. \A u, v \in Transactions : parcel'[u] \cap parcel'[v] # {} => u = v
  <2> SUFFICES ASSUME NEW u \in Transactions, NEW v \in Transactions,
                      NEW i \in parcel'[u], i \in parcel'[v] PROVE u = v
    OBVIOUS
  <2>1. i \in Items
    BY <1>2 DEF PipeInv, PipeTypes
  <2>2. CASE u = t \/ v = t
    BY <1>2, <2>1, <2>2 DEF Carried
  <2>3. CASE u # t /\ v # t
    <3>1. parcel[u] \cap parcel[v] # {}
      BY <1>2, <2>3
    <3> QED
      BY <3>1 DEF PipeInv, OneParcel
  <2> QED
    BY <2>2, <2>3
<1>5. /\ \A u \in Transactions : parcel'[u] \subseteq given'
      /\ \A i \in Items : content'[i] # "unused" => i \in given'
  BY <1>2 DEF PipeInv, OneParcel
<1> QED
  BY <1>3, <1>4, <1>5 DEF OneParcel

\* What the serializer keeps, when it does nothing.
LEMMA SerializerRests ==
    ASSUME Inductive, UNCHANGED serializerVars
    PROVE  Inductive'
BY InductiveStep

-----------------------------------------------------------------------------
(***************************************************************************)
(* The steps keep the invariant.                                           *)
(***************************************************************************)
\* The other steps of the turn are not taken in a push.
LEMMA TurnPlaces ==
    ASSUME TurnGoesOn
    PROVE  pc # "push"
BY DEF TurnGoesOn, NoMetadata, Publish, Sleep, MetadataFails, Skip, RunSome, Run, AtCheck

\* The other steps of the turn change neither the serializer nor a payload.
LEMMA TurnStep ==
    ASSUME PipeInv, TurnGoesOn
    PROVE  PipeInv'
<1>1. UNCHANGED <<serializerVars, deliveryVars, sent, given>> /\ pc # "push"
  BY TurnPlaces DEF TurnGoesOn
<1>2. Inductive'
  BY <1>1, SerializerRests DEF PipeInv
<1>3. PipeTypes' /\ Emptied' /\ OneParcel' /\ CarriedSoFar' /\ InPush'
  BY <1>1 DEF PipeInv, serializerVars, submission, turn, counts, deliveryVars, PipeTypes, Emptied, OneParcel, CarriedSoFar,
              Carried, AmongFirst, InPush
<1> QED
  BY <1>2, <1>3 DEF PipeInv

\* A payload without items, of the metadata or of dogstatsd.
LEMMA OtherPayload ==
    ASSUME PipeInv, Hand({}), UNCHANGED <<serializerVars, sent, given>>,
           pc' = pc \/ pc # "push"
    PROVE  PipeInv'
<1>1. Inductive'
  BY SerializerRests DEF PipeInv
<1>2. OneParcel'
  BY HandParcel DEF serializerVars, submission, turn, counts
<1>3. PipeTypes' /\ \A i \in Items : Carried(i)' <=> Carried(i)
  BY HandFacts DEF PipeInv, PipeTypes
<1>4. Emptied' /\ InPush'
  BY DEF PipeInv, serializerVars, submission, turn, counts, Emptied, InPush
<1>5. CarriedSoFar'
  BY <1>3 DEF PipeInv, serializerVars, submission, turn, counts, CarriedSoFar, AmongFirst
<1> QED
  BY <1>1, <1>2, <1>3, <1>4, <1>5 DEF PipeInv

\* The metadata is a payload of its own.
LEMMA MetadataStep ==
    ASSUME PipeInv, SendMetadata
    PROVE  PipeInv'
<1>1. pc = "metadata" /\ Hand({}) /\ UNCHANGED <<serializerVars, sent, given>>
  BY DEF SendMetadata, Metadata
<1> QED
  BY <1>1, OtherPayload

\* So is what dogstatsd submits.
LEMMA ReporterStep ==
    ASSUME PipeInv, ReporterSubmits
    PROVE  PipeInv'
<1>1. Hand({}) /\ UNCHANGED <<serializerVars, sent, given>> /\ pc' = pc
  BY DEF ReporterSubmits, collectorVars
<1> QED
  BY <1>1, OtherPayload

\* A check submits item i.
LEMMA SubmitStep ==
    ASSUME PipeInv, CheckRuns
    PROVE  PipeInv'
<1>1. PICK i \in Items \ given, v \in Contents : CheckSubmits(i, v) /\ given' = given \cup {i}
  BY DEF CheckRuns
<1>2. pc = "checks" /\ UNCHANGED <<collectorVars, deliveryVars, sent>>
  BY DEF CheckRuns, AtCheck
<1>3. Inductive'
  BY <1>1, CheckStep DEF PipeInv
<1>4. /\ content' = [content EXCEPT ![i] = v] /\ lists' = With(lists, i)
      /\ UNCHANGED <<dogstatsd, held, stage, encoding>>
  BY <1>1 DEF CheckSubmits, submission, turn
<1>5. PipeTypes' /\ InPush'
  BY <1>1, <1>2, <1>4 DEF PipeInv, PipeTypes, InPush, deliveryVars, collectorVars
<1>6. Emptied'
  BY <1>2, <1>4 DEF PipeInv, InPush, Emptied
<1>7. OneParcel'
  BY <1>1, <1>2, <1>4 DEF PipeInv, OneParcel, deliveryVars, Inductive, Shapes
<1>8. CarriedSoFar'
  <2>1. sent = 0 /\ sent' = 0
    BY <1>2 DEF PipeInv, InPush
  <2>2. ~Carried(i)
    BY <1>1 DEF PipeInv, OneParcel, Carried
  <2>3. \A j \in Items : ~AmongFirst(j, 0)
    BY DEF AmongFirst
  <2>4. \A j \in Items : content'[j] # "unused" => j = i \/ content[j] # "unused"
    BY <1>4 DEF PipeInv, Inductive, Shapes
  <2>5. \A j \in Items : Carried(j)' <=> Carried(j)
    BY <1>2 DEF Carried, deliveryVars
  <2> QED
    BY <2>1, <2>2, <2>3, <2>4, <2>5 DEF PipeInv, CarriedSoFar, AmongFirst
<1> QED
  BY <1>3, <1>5, <1>6, <1>7, <1>8 DEF PipeInv

\* A kind is flushed, summed up, or encoded.
LEMMA SerializeStep ==
    ASSUME PipeInv, Serialize
    PROVE  PipeInv'
<1>1. pc = "push" /\ UNCHANGED <<collectorVars, deliveryVars, sent, given>>
  BY DEF Serialize
<1>2. CASE Encoded
  <2>1. Inductive'
    BY <1>2, EncodedStep DEF PipeInv
  <2>2. UNCHANGED <<dogstatsd, content, lists, held, stage>> /\ encoding /\ encoding' = FALSE
    BY <1>2 DEF Encoded
  <2>3. PipeTypes' /\ Emptied' /\ OneParcel' /\ CarriedSoFar'
    BY <1>1, <2>2 DEF PipeInv, deliveryVars, PipeTypes, Emptied, OneParcel, CarriedSoFar, Carried, AmongFirst
  <2>4. InPush'
    BY <1>1, <2>2 DEF PipeInv, collectorVars, InPush
  <2> QED
    BY <2>1, <2>3, <2>4 DEF PipeInv
<1>3. ASSUME NEW k \in Kinds, Flush(k) PROVE PipeInv'
  <2>1. Inductive'
    BY <1>3, FlushStep DEF PipeInv
  <2>2. /\ UNCHANGED <<dogstatsd, content, held>> /\ stage < 3 /\ stage' = stage + 1
        /\ k = KindOrder[stage + 1] /\ lists' = [lists EXCEPT ![k] = {}]
    BY <1>3 DEF Flush, Takes
  <2>3. PipeTypes' /\ OneParcel' /\ CarriedSoFar'
    BY <1>1, <2>2 DEF PipeInv, deliveryVars, PipeTypes, OneParcel, CarriedSoFar, Carried, AmongFirst
  <2>4. InPush'
    BY <1>1, <2>2 DEF PipeInv, collectorVars, InPush, PipeTypes
  <2>5. Emptied'
    <3> SUFFICES ASSUME NEW j \in 1 .. 3, j <= stage' PROVE lists'[KindOrder[j]] = {}
      BY DEF Emptied
    <3>1. KindOrder[j] \in Kinds /\ lists'[KindOrder[j]] = IF j = stage + 1 THEN {} ELSE lists[KindOrder[j]]
      BY <2>2, KindFacts DEF PipeInv, Inductive, Shapes
    <3>2. stage \in 0 .. 3 /\ (j = stage + 1 \/ j <= stage)
      BY <2>2 DEF PipeInv, Inductive, Shapes
    <3> QED
      BY <3>1, <3>2 DEF PipeInv, Emptied
  <2> QED
    BY <2>1, <2>3, <2>4, <2>5 DEF PipeInv
<1>4. CASE AddToTotal \/ ResetCount
  <2>1. Inductive'
    BY <1>4, CountStep DEF PipeInv
  <2>2. UNCHANGED <<dogstatsd, content, lists, held, stage, encoding>>
    BY <1>4 DEF AddToTotal, ResetCount, Tallies, submission
  <2>3. PipeTypes' /\ Emptied' /\ OneParcel' /\ CarriedSoFar'
    BY <1>1, <2>2 DEF PipeInv, deliveryVars, PipeTypes, Emptied, OneParcel, CarriedSoFar, Carried, AmongFirst
  <2>4. InPush'
    BY <1>1, <2>2 DEF PipeInv, collectorVars, InPush
  <2> QED
    BY <2>1, <2>3, <2>4 DEF PipeInv
<1> QED
  BY <1>1, <1>2, <1>3, <1>4 DEF Serialize

\* What the next payload carries: all that waits of its kind, and nothing that is in another.
LEMMA PayloadItems ==
    ASSUME PipeInv, stage = 3, sent < 3
    PROVE  /\ sent + 1 \in 1 .. 3
           /\ flushed[KindOrder[sent + 1]] \in SUBSET Items
           /\ \A i \in Items :
                 i \in flushed[KindOrder[sent + 1]] <=>
                    content[i] # "unused" /\ KindOf[i] = KindOrder[sent + 1]
           /\ \A i \in flushed[KindOrder[sent + 1]] : ~Carried(i) /\ i \in given
<1> DEFINE k == KindOrder[sent + 1]
<1>1. sent \in 0 .. 2 /\ sent + 1 \in 1 .. 3 /\ k \in Kinds
  BY KindFacts DEF PipeInv, PipeTypes
<1>2. flushed[k] \in SUBSET Items /\ lists[k] = {} /\ held = NoItem
  BY <1>1 DEF PipeInv, Inductive, Shapes, Emptied, InPush
<1>3. ASSUME NEW i \in Items
      PROVE  i \in flushed[k] <=> content[i] # "unused" /\ KindOf[i] = k
  <2>1. KindOf[i] \in Kinds /\ i # held
    BY <1>2, SerializerAssumption
  <2>2. i \in flushed[k] => KindOf[i] = k
    BY <1>1 DEF PipeInv, Inductive, OfKind
  <2> QED
    BY <1>2, <2>1, <2>2 DEF PipeInv, Inductive, Apart
<1>4. ASSUME NEW i \in flushed[k] PROVE ~Carried(i) /\ i \in given
  <2>1. i \in Items /\ content[i] # "unused" /\ KindOf[i] = k
    BY <1>2, <1>3
  <2>2. ~AmongFirst(i, sent)
    <3> SUFFICES ASSUME NEW j \in 1 .. 3, j <= sent, k = KindOrder[j] PROVE FALSE
      BY <2>1 DEF AmongFirst
    <3>1. j = sent + 1
      BY <1>1, KindFacts
    <3> QED
      BY <1>1, <3>1
  <2> QED
    BY <2>1, <2>2 DEF PipeInv, CarriedSoFar, OneParcel
<1> QED
  BY <1>1, <1>2, <1>3, <1>4

\* The next payload takes along the items of one more kind.
LEMMA SendStep ==
    ASSUME PipeInv, SubmitPayload
    PROVE  PipeInv'
<1> DEFINE S == flushed[KindOrder[sent + 1]]
<1>1. /\ pc = "push" /\ stage = 3 /\ ~encoding /\ sent < 3 /\ Hand(S) /\ sent' = sent + 1
      /\ UNCHANGED <<collectorVars, serializerVars, given>>
  BY DEF SubmitPayload
<1>2. /\ S \in SUBSET Items /\ sent + 1 \in 1 .. 3
      /\ \A i \in Items : i \in S <=> content[i] # "unused" /\ KindOf[i] = KindOrder[sent + 1]
      /\ \A i \in S : ~Carried(i) /\ i \in given
  BY <1>1, PayloadItems
<1> HIDE DEF S
<1>3. Inductive'
  BY <1>1, SerializerRests DEF PipeInv
<1>4. UNCHANGED <<dogstatsd, content, lists, held, stage, encoding, given, pc>>
  BY <1>1 DEF serializerVars, submission, turn, counts, collectorVars
<1>5. OneParcel'
  BY <1>1, <1>2, <1>4, HandParcel
<1>6. PipeTypes' /\ \A i \in Items : Carried(i)' <=> Carried(i) \/ i \in S
  BY <1>1, <1>2, HandFacts DEF PipeInv, PipeTypes
<1>7. Emptied'
  BY <1>4 DEF PipeInv, Emptied
<1>8. InPush'
  BY <1>1, <1>4, <1>3 DEF PipeInv, InPush, Inductive, Shapes
<1>9. CarriedSoFar'
  <2> SUFFICES ASSUME NEW i \in Items, content[i] # "unused"
               PROVE  Carried(i)' <=> AmongFirst(i, sent + 1)
    BY <1>1, <1>4 DEF CarriedSoFar, AmongFirst
  <2>1. AmongFirst(i, sent + 1) <=> AmongFirst(i, sent) \/ KindOf[i] = KindOrder[sent + 1]
    BY <1>2 DEF AmongFirst, PipeInv, PipeTypes
  <2> QED
    BY <1>2, <1>6, <2>1 DEF PipeInv, CarriedSoFar
<1> QED
  BY <1>3, <1>5, <1>6, <1>7, <1>8, <1>9 DEF PipeInv

\* The push ends, by its last payload or an exception.
LEMMA EndPushFacts ==
    ASSUME PipeInv, EndPush
    PROVE  /\ Inductive' /\ EndTurn /\ pc' = "sleep" /\ sent' = 0
           /\ UNCHANGED <<deliveryVars, given>>
           /\ (sent = 3 /\ stage = 3) \/ (sent = 0 /\ Fails)
<1>1. pc' = "sleep" /\ sent' = 0 /\ UNCHANGED <<deliveryVars, given>>
  BY DEF EndPush, Push
<1>2. (sent = 3 /\ PushPayloads) \/ Fails
  BY DEF EndPush
<1>3. Inductive'
  BY <1>2, FailsStep, PushStep DEF PipeInv
<1>4. EndTurn
  BY <1>2 DEF PushPayloads, Fails
<1>5. Fails => sent = 0
  BY DEF Fails, PipeInv, InPush, PipeTypes
<1> QED
  BY <1>1, <1>2, <1>3, <1>4, <1>5 DEF PushPayloads

\* What the serializer still has after a push is in no payload.
LEMMA EndStepOfPush ==
    ASSUME PipeInv, EndPush
    PROVE  PipeInv'
<1>1. /\ Inductive' /\ EndTurn /\ pc' = "sleep" /\ sent' = 0
      /\ UNCHANGED <<deliveryVars, given>>
      /\ (sent = 3 /\ stage = 3) \/ (sent = 0 /\ Fails)
  BY EndPushFacts
<1>2. /\ UNCHANGED <<dogstatsd, held, lists>> /\ stage' = 0 /\ encoding' = FALSE
      /\ content' = [i \in Items |-> IF i \in Everything THEN "unused" ELSE content[i]]
  BY <1>1 DEF EndTurn
<1>3. PipeTypes' /\ InPush' /\ Emptied' /\ OneParcel'
  BY <1>1, <1>2 DEF PipeInv, deliveryVars, PipeTypes, InPush, Emptied, OneParcel
<1>4. CarriedSoFar'
  <2> SUFFICES ASSUME NEW i \in Items, content'[i] # "unused"
               PROVE  ~Carried(i)
    BY <1>1 DEF CarriedSoFar, Carried, AmongFirst, deliveryVars
  <2>1. content[i] # "unused" /\ i \notin Everything
    BY <1>2
  <2>2. CASE sent = 0
    BY <2>1, <2>2 DEF PipeInv, CarriedSoFar, AmongFirst
  <2>3. CASE stage = 3
    <3>1. i \notin flushed[KindOf[i]] /\ KindOf[i] \in Kinds
      BY <2>1, EverythingFlushed, SerializerAssumption DEF PipeInv, Inductive
    <3>2. i \in lists[KindOf[i]]
      BY <2>1, <3>1, SerializerAssumption DEF PipeInv, Inductive, Apart, InPush
    <3>3. lists[KindOf[i]] = {}
      BY <2>3, <3>1, KindFacts DEF PipeInv, Emptied
    <3> QED
      BY <3>2, <3>3
  <2> QED
    BY <1>1, <2>2, <2>3
<1> QED
  BY <1>1, <1>3, <1>4 DEF PipeInv

\* The payloads that end in a step of the forwarder.
LEMMA ForwarderFacts ==
    ASSUME PipeInv, ForwarderWorks, "none" \notin Final
    PROVE  /\ UNCHANGED <<collectorVars, serializerVars, parcel, sent, given>>
           /\ fate' \in [Transactions -> Final \cup {"none", "live"}]
           /\ \A t \in Transactions :
                 \/ fate'[t] = fate[t]
                 \/ fate[t] = "live" /\ fate'[t] # "none"
<1>1. UNCHANGED <<collectorVars, serializerVars, parcel, sent, given>>
  BY DEF ForwarderWorks
<1>2. fate \in [Transactions -> Final \cup {"none", "live"}]
  BY DEF PipeInv, PipeTypes
<1>3. ASSUME NEW t \in Transactions, NEW taken \in BOOLEAN, NEW end \in Final \cup {"live"},
             Forwarder!Attempt(t, taken, end)
      PROVE  /\ fate' \in [Transactions -> Final \cup {"none", "live"}]
             /\ \A u \in Transactions : fate'[u] = fate[u] \/ (fate[u] = "live" /\ fate'[u] # "none")
  BY <1>2, <1>3 DEF Forwarder!Attempt
<1>4. ASSUME NEW S \in SUBSET Transactions, NEW why \in Final, Forwarder!Drop(S, why)
      PROVE  /\ fate' \in [Transactions -> Final \cup {"none", "live"}]
             /\ \A u \in Transactions : fate'[u] = fate[u] \/ (fate[u] = "live" /\ fate'[u] # "none")
  BY <1>2, <1>4 DEF Forwarder!Drop
<1>5. \/ \E t \in Transactions, taken \in BOOLEAN, end \in Final \cup {"live"} :
            Forwarder!Attempt(t, taken, end)
      \/ \E S \in SUBSET Transactions, why \in Final : Forwarder!Drop(S, why)
  BY DEF ForwarderWorks
<1> QED
  BY <1>1, <1>3, <1>4, <1>5

\* The forwarder ends payloads that are live and changes no other.
LEMMA ForwarderStep ==
    ASSUME PipeInv, ForwarderWorks, "none" \notin Final
    PROVE  PipeInv'
<1>1. /\ UNCHANGED <<collectorVars, serializerVars, parcel, sent, given>>
      /\ fate' \in [Transactions -> Final \cup {"none", "live"}]
      /\ \A t \in Transactions : fate'[t] = fate[t] \/ (fate[t] = "live" /\ fate'[t] # "none")
  BY ForwarderFacts
<1>2. Inductive'
  BY <1>1, SerializerRests DEF PipeInv
<1>3. PipeTypes' /\ Emptied' /\ InPush'
  BY <1>1 DEF PipeInv, serializerVars, submission, turn, counts, collectorVars, PipeTypes, Emptied, InPush
<1>4. OneParcel' /\ CarriedSoFar'
  BY <1>1 DEF PipeInv, serializerVars, submission, turn, counts, OneParcel, CarriedSoFar, Carried, AmongFirst
<1> QED
  BY <1>2, <1>3, <1>4 DEF PipeInv

\* Every step keeps the invariant.
LEMMA PipeStep ==
    ASSUME "none" \notin Final
    PROVE  PipeInv /\ [PipelineNext]_pipelineVars => PipeInv'
<1> SUFFICES ASSUME PipeInv, [PipelineNext]_pipelineVars PROVE PipeInv'
  OBVIOUS
<1>1. CASE UNCHANGED pipelineVars
  <2>1. Inductive'
    BY <1>1, SerializerRests DEF PipeInv, pipelineVars
  <2>2. PipeTypes' /\ Emptied' /\ InPush' /\ OneParcel' /\ CarriedSoFar'
    BY <1>1 DEF PipeInv, pipelineVars, serializerVars, submission, turn, counts, collectorVars, deliveryVars, PipeTypes, Emptied,
                InPush, OneParcel, CarriedSoFar, Carried, AmongFirst
  <2> QED
    BY <2>1, <2>2 DEF PipeInv
<1> QED
  BY <1>1, TurnStep, MetadataStep, ReporterStep, SubmitStep, SerializeStep, SendStep, EndStepOfPush,
     ForwarderStep DEF PipelineNext

\* The invariant holds.
LEMMA PipeInvHolds ==
    ASSUME "none" \notin Final
    PROVE  PipelineSpec => []PipeInv
BY PipeInit, PipeStep, PTL DEF PipelineSpec

-----------------------------------------------------------------------------
(***************************************************************************)
(* Pipeline implements Passage.                                            *)
(***************************************************************************)
\* Where an item is, by its payload if it has one, or else by the serializer.
PlacesFollow ==
    \A i \in Items :
        /\ \A t \in Transactions :
              i \in parcel[t] => Place(i) = IF fate[t] = "live" THEN "travelling" ELSE "ended"
        /\ ~Carried(i) => Place(i) = IF content[i] # "unused" THEN "waiting"
                                     ELSE IF i \in given THEN "lost" ELSE "outside"

\* It follows from there being one payload at most.
LEMMA PlacesHold == OneParcel => PlacesFollow
<1> SUFFICES ASSUME OneParcel, NEW i \in Items
             PROVE  /\ \A t \in Transactions : i \in parcel[t] =>
                          Place(i) = IF fate[t] = "live" THEN "travelling" ELSE "ended"
                    /\ ~Carried(i) => Place(i) = IF content[i] # "unused" THEN "waiting"
                                                 ELSE IF i \in given THEN "lost" ELSE "outside"
  BY DEF PlacesFollow
<1>1. ASSUME NEW t \in Transactions, i \in parcel[t]
      PROVE  Place(i) = IF fate[t] = "live" THEN "travelling" ELSE "ended"
  <2>1. {u \in Transactions : i \in parcel[u]} = {t}
    BY <1>1 DEF OneParcel
  <2> QED
    BY <2>1 DEF Place
<1>2. ASSUME ~Carried(i)
      PROVE  Place(i) = IF content[i] # "unused" THEN "waiting"
                        ELSE IF i \in given THEN "lost" ELSE "outside"
  <2>1. {u \in Transactions : i \in parcel[u]} = {}
    BY <1>2 DEF Carried
  <2> QED
    BY <2>1 DEF Place
<1> QED
  BY <1>1, <1>2

\* And in the next state.
LEMMA PlacesHoldNext == OneParcel' => PlacesFollow'
BY PlacesHold, PTL

\* A step that moves the items of a set and no others.
LEMMA MovedIs ==
    ASSUME NEW S, NEW where,
           \A i \in Items : Place(i)' = IF i \in S THEN where ELSE Place(i)
    PROVE  PlaceOf' = PassageOf!Moved(S, where)
BY DEF PlaceOf, PassageOf!Moved

\* A step that moves none.
LEMMA NoneMoved ==
    ASSUME \A i \in Items : Place(i)' = Place(i), UNCHANGED content
    PROVE  UNCHANGED <<PlaceOf, Spoiled>>
BY DEF PlaceOf, Spoiled

\* Items that leave the serializer are no longer among those that may have no encoding.
LEMMA SpoiledWithout ==
    ASSUME NEW S, NEW where, where # "waiting",
           \A i \in Items : Place(i)' = IF i \in S THEN where ELSE Place(i),
           \A i \in Items \ S : content'[i] = content[i]
    PROVE  Spoiled' = Spoiled \ S
BY DEF Spoiled

\* Initially every item is outside.
LEMMA PassageInit == PipelineInit => PassageOf!Init
<1> SUFFICES ASSUME PipelineInit PROVE PassageOf!Init
  OBVIOUS
<1>1. /\ parcel = [t \in Transactions |-> {}] /\ given = {} /\ sent = 0
      /\ \A i \in Items : content[i] = "unused"
  BY DEF PipelineInit, SerializerInit
<1>2. PlacesFollow /\ \A i \in Items : ~Carried(i)
  BY <1>1, PipeInit, PlacesHold DEF PipeInv, Carried
<1>3. \A i \in Items : Place(i) = "outside"
  BY <1>1, <1>2 DEF PlacesFollow
<1> QED
  BY <1>1, <1>3 DEF PassageOf!Init, PlaceOf, Spoiled

\* A step in which no payload gets or loses items or ends, and the serializer's items stay.
LEMMA NothingMoves ==
    ASSUME PipeInv, PipeInv', UNCHANGED <<content, given, sent>>,
           \A i \in Items : Carried(i)' => Carried(i),
           \A t \in Transactions : parcel[t] # {} => parcel'[t] = parcel[t] /\ fate'[t] = fate[t]
    PROVE  UNCHANGED <<PlaceOf, Spoiled, sent>>
<1>1. PlacesFollow /\ PlacesFollow'
  BY PlacesHold, PlacesHoldNext DEF PipeInv
<1>2. ASSUME NEW i \in Items PROVE Place(i)' = Place(i)
  <2>1. CASE Carried(i)
    <3>1. PICK t \in Transactions : i \in parcel[t]
      BY <2>1 DEF Carried
    <3>2. i \in parcel'[t] /\ fate'[t] = fate[t]
      BY <3>1
    <3> QED
      BY <1>1, <3>1, <3>2 DEF PlacesFollow
  <2>2. CASE ~Carried(i)
    BY <1>1, <2>2 DEF PlacesFollow
  <2> QED
    BY <2>1, <2>2
<1> QED
  BY <1>2, NoneMoved

\* A payload without items moves nothing.
LEMMA OtherMoves ==
    ASSUME PipeInv, PipeInv', Hand({}), UNCHANGED <<content, given, sent>>
    PROVE  UNCHANGED <<PlaceOf, Spoiled, sent>>
<1>1. PICK t \in Transactions :
        /\ parcel[t] = {} /\ fate' = [fate EXCEPT ![t] = "live"]
        /\ parcel' = [parcel EXCEPT ![t] = {}]
        /\ \A i \in Items : Carried(i)' <=> Carried(i)
  BY HandFacts
<1>2. \A u \in Transactions : parcel[u] # {} => parcel'[u] = parcel[u] /\ fate'[u] = fate[u]
  BY <1>1 DEF PipeInv, PipeTypes
<1> QED
  BY <1>1, <1>2, NothingMoves

\* A check that submits is Passage's Submit.
LEMMA SubmitMoves ==
    ASSUME PipeInv, PipeInv', CheckRuns
    PROVE  \E i \in Items : PassageOf!Submit(i)
<1>1. PICK i \in Items \ given, v \in Contents : CheckSubmits(i, v) /\ given' = given \cup {i}
  BY DEF CheckRuns
<1>2. /\ pc = "checks" /\ UNCHANGED <<fate, parcel, sent>>
      /\ content' = [content EXCEPT ![i] = v]
  BY <1>1 DEF CheckRuns, AtCheck, deliveryVars, CheckSubmits
<1>3. sent = 0 /\ sent' = 0
  BY <1>2 DEF PipeInv, InPush
<1>4. PlacesFollow /\ PlacesFollow'
  BY PlacesHold, PlacesHoldNext DEF PipeInv
<1>5. \A j \in Items : /\ Carried(j)' <=> Carried(j)
                       /\ j # i => content'[j] = content[j] /\ (j \in given' <=> j \in given)
  BY <1>1, <1>2 DEF Carried, PipeInv, Inductive, Shapes
<1>6. ~Carried(i) /\ content[i] = "unused" /\ content'[i] = v /\ v # "unused"
  BY <1>1, <1>2, SerializerAssumption DEF PipeInv, OneParcel, Carried, Inductive, Shapes
<1>7. Place(i) = "outside" /\ Place(i)' = "waiting"
  BY <1>1, <1>4, <1>5, <1>6 DEF PlacesFollow
<1>8. ASSUME NEW j \in Items, j # i PROVE Place(j)' = Place(j)
  <2>1. CASE Carried(j)
    BY <1>2, <1>4, <2>1 DEF PlacesFollow, Carried
  <2>2. CASE ~Carried(j)
    BY <1>4, <1>5, <1>8, <2>2 DEF PlacesFollow
  <2> QED
    BY <2>1, <2>2
<1>9. \A j \in Items : Place(j)' = IF j \in {i} THEN "waiting" ELSE Place(j)
  BY <1>7, <1>8
<1>10. PlaceOf' = PassageOf!Moved({i}, "waiting")
  BY <1>9, MovedIs
<1>11. Spoiled' \in {Spoiled, Spoiled \cup {i}}
  BY <1>5, <1>7, <1>8 DEF Spoiled
<1>12. PlaceOf[i] = "outside"
  BY <1>7 DEF PlaceOf
<1> QED
  BY <1>3, <1>10, <1>11, <1>12 DEF PassageOf!Submit

\* A payload of the push is Passage's Send.
LEMMA SendMoves ==
    ASSUME PipeInv, PipeInv', SubmitPayload
    PROVE  PassageOf!Send
<1> DEFINE k == KindOrder[sent + 1]
           S == flushed[k]
<1>1. /\ stage = 3 /\ sent < 3 /\ Hand(S) /\ sent' = sent + 1
      /\ UNCHANGED <<content, given>>
  BY DEF SubmitPayload, serializerVars, submission, turn, counts
<1>2. /\ S \in SUBSET Items
      /\ \A i \in Items : i \in S <=> content[i] # "unused" /\ KindOf[i] = k
      /\ \A i \in S : ~Carried(i)
  BY <1>1, PayloadItems
<1> HIDE DEF S, k
<1>3. PICK t \in Transactions :
        /\ parcel[t] = {} /\ fate' = [fate EXCEPT ![t] = "live"]
        /\ parcel' = [parcel EXCEPT ![t] = S]
        /\ \A i \in Items : Carried(i)' <=> Carried(i) \/ i \in S
  BY <1>1, <1>2, HandFacts
<1>4. \A u \in Transactions : /\ parcel'[u] = IF u = t THEN S ELSE parcel[u]
                              /\ fate'[u] = IF u = t THEN "live" ELSE fate[u]
  BY <1>3 DEF PipeInv, PipeTypes
<1>5. PlacesFollow /\ PlacesFollow'
  BY PlacesHold, PlacesHoldNext DEF PipeInv
<1>6. ASSUME NEW i \in Items PROVE Place(i)' = IF i \in S THEN "travelling" ELSE Place(i)
  <2>1. CASE i \in S
    BY <1>4, <1>5, <2>1 DEF PlacesFollow
  <2>2. CASE i \notin S /\ Carried(i)
    <3>1. PICK u \in Transactions : i \in parcel[u]
      BY <2>2 DEF Carried
    <3>2. u # t /\ i \in parcel'[u] /\ fate'[u] = fate[u]
      BY <1>3, <1>4, <3>1
    <3> QED
      BY <1>5, <2>2, <3>1, <3>2 DEF PlacesFollow
  <2>3. CASE i \notin S /\ ~Carried(i)
    BY <1>1, <1>3, <1>5, <2>3 DEF PlacesFollow
  <2> QED
    BY <2>1, <2>2, <2>3
<1>7. PlaceOf' = PassageOf!Moved(S, "travelling")
  BY <1>6, MovedIs
<1>8. Spoiled' = Spoiled \ S
  BY <1>1, <1>6, SpoiledWithout
<1>9. S = {i \in PassageOf!Waiting : KindOf[i] = k}
  <2> SUFFICES ASSUME NEW i \in Items
               PROVE  i \in S <=> Place(i) = "waiting" /\ KindOf[i] = k
    BY <1>2 DEF PassageOf!Waiting, PlaceOf
  <2>1. CASE Carried(i)
    BY <1>2, <1>5, <2>1 DEF PlacesFollow, Carried
  <2>2. CASE ~Carried(i)
    BY <1>2, <1>5, <2>2 DEF PlacesFollow
  <2> QED
    BY <2>1, <2>2
<1>10. k = KindOrder[sent']
  BY <1>1 DEF k
<1> QED
  BY <1>1, <1>7, <1>8, <1>9, <1>10 DEF PassageOf!Send

\* The end of a push is Passage's EndTurn, or its Lose.
LEMMA EndMoves ==
    ASSUME PipeInv, PipeInv', EndPush
    PROVE  PassageOf!EndTurn \/ \E S \in SUBSET Items : S \subseteq PassageOf!Waiting /\ PassageOf!Lose(S)
<1>1. /\ EndTurn /\ sent' = 0 /\ UNCHANGED <<fate, parcel, given>>
      /\ (sent = 3 /\ stage = 3) \/ (sent = 0 /\ Fails)
  BY EndPushFacts DEF deliveryVars
<1>2. /\ content' = [i \in Items |-> IF i \in Everything THEN "unused" ELSE content[i]]
      /\ Everything \in SUBSET Items
  BY <1>1 DEF EndTurn, Everything, PipeInv, Inductive, Shapes
<1>3. PlacesFollow /\ PlacesFollow' /\ \A i \in Items : Carried(i)' <=> Carried(i)
  BY <1>1, PlacesHold, PlacesHoldNext DEF PipeInv, Carried
<1>4. \A i \in Items : i \in Everything => content[i] # "unused"
  BY EverythingFlushed DEF PipeInv, Inductive, Apart
<1>5. ASSUME NEW i \in Items, Carried(i) PROVE Place(i)' = Place(i) /\ Place(i) # "waiting"
  BY <1>1, <1>3, <1>5 DEF PlacesFollow, Carried
<1>6. CASE sent = 3
  <2>1. ASSUME NEW i \in Items, content[i] # "unused" PROVE Carried(i)
    <3>1. \E j \in 1 .. 3 : KindOf[i] = KindOrder[j]
      BY KindFacts, SerializerAssumption
    <3> QED
      BY <1>6, <2>1, <3>1 DEF PipeInv, CarriedSoFar, AmongFirst
  <2>2. ASSUME NEW i \in Items PROVE Place(i)' = Place(i) /\ Place(i) # "waiting"
    <3>1. CASE Carried(i)
      BY <1>5, <3>1
    <3>2. CASE ~Carried(i)
      <4>1. content[i] = "unused" /\ content'[i] = "unused"
        BY <1>2, <2>1, <3>2
      <4> QED
        BY <1>1, <1>3, <3>2, <4>1 DEF PlacesFollow
    <3> QED
      BY <3>1, <3>2
  <2>3. UNCHANGED <<PlaceOf, Spoiled>>
    BY <2>2 DEF PlaceOf, Spoiled
  <2> QED
    BY <1>1, <1>6, <2>3 DEF PassageOf!EndTurn
<1>7. CASE sent = 0 /\ Fails
  <2>1. \A i \in Items : content[i] # "unused" => ~Carried(i)
    BY <1>7 DEF PipeInv, CarriedSoFar, AmongFirst
  <2>2. ASSUME NEW i \in Items PROVE Place(i)' = IF i \in Everything THEN "lost" ELSE Place(i)
    <3>1. CASE i \in Everything
      <4>1. ~Carried(i) /\ i \in given /\ content'[i] = "unused"
        BY <1>2, <1>4, <2>1, <3>1 DEF PipeInv, OneParcel
      <4> QED
        BY <1>1, <1>3, <3>1, <4>1 DEF PlacesFollow
    <3>2. CASE i \notin Everything /\ Carried(i)
      BY <1>5, <3>2
    <3>3. CASE i \notin Everything /\ ~Carried(i)
      <4>1. content'[i] = content[i]
        BY <1>2, <3>3
      <4> QED
        BY <1>1, <1>3, <3>3, <4>1 DEF PlacesFollow
    <3> QED
      BY <3>1, <3>2, <3>3
  <2>3. PlaceOf' = PassageOf!Moved(Everything, "lost")
    BY <2>2, MovedIs
  <2>4. Spoiled' = Spoiled \ Everything
    BY <1>2, <2>2, SpoiledWithout
  <2>5. \A i \in Everything : i \in Items /\ Place(i) = "waiting"
    BY <1>2, <1>3, <1>4, <2>1 DEF PlacesFollow
  <2>6. Everything \cap Spoiled # {}
    <3>1. stage \in 1 .. 3 /\ KindOrder[stage] \in Kinds
      BY <1>7, KindFacts DEF Fails, PipeInv, Inductive, Late
    <3>2. PICK i \in flushed[KindOrder[stage]] : content[i] \in {"object", "map"}
      BY <1>7 DEF Fails, Encodes, Has
    <3>3. i \in Everything
      BY <3>1, <3>2 DEF Everything
    <3> QED
      BY <2>5, <3>2, <3>3 DEF Spoiled
  <2>7. Everything \subseteq PassageOf!Waiting
    BY <2>5 DEF PassageOf!Waiting, PlaceOf
  <2>8. PassageOf!Lose(Everything)
    BY <1>1, <1>7, <2>3, <2>4, <2>6 DEF PassageOf!Lose
  <2> QED
    BY <1>2, <2>7, <2>8
<1> QED
  BY <1>1, <1>6, <1>7

\* What the forwarder does with its payloads is Passage's End.
LEMMA ForwarderMoves ==
    ASSUME PipeInv, PipeInv', ForwarderWorks, "none" \notin Final
    PROVE  \E S \in SUBSET Items : PassageOf!End(S)
<1>1. /\ UNCHANGED <<content, parcel, sent, given>>
      /\ \A t \in Transactions : fate'[t] = fate[t] \/ (fate[t] = "live" /\ fate'[t] # "none")
  BY ForwarderFacts DEF serializerVars, submission, turn, counts
<1>2. PlacesFollow /\ PlacesFollow'
  BY PlacesHold, PlacesHoldNext DEF PipeInv
<1> DEFINE S == {i \in Items : \E t \in Transactions :
                     i \in parcel[t] /\ fate[t] = "live" /\ fate'[t] # "live"}
<1>3. \A i \in S : Place(i) = "travelling"
  BY <1>2 DEF PlacesFollow
<1>4. ASSUME NEW i \in Items PROVE Place(i)' = IF i \in S THEN "ended" ELSE Place(i)
  <2>1. CASE Carried(i)
    <3>1. PICK t \in Transactions : i \in parcel[t]
      BY <2>1 DEF Carried
    <3>2. i \in S <=> fate[t] = "live" /\ fate'[t] # "live"
      BY <3>1 DEF PipeInv, OneParcel
    <3>3. /\ Place(i) = IF fate[t] = "live" THEN "travelling" ELSE "ended"
          /\ Place(i)' = IF fate'[t] = "live" THEN "travelling" ELSE "ended"
      BY <1>1, <1>2, <3>1 DEF PlacesFollow
    <3> QED
      BY <1>1, <3>2, <3>3
  <2>2. CASE ~Carried(i)
    <3>1. i \notin S /\ ~Carried(i)'
      BY <1>1, <2>2 DEF Carried
    <3> QED
      BY <1>1, <1>2, <2>2, <3>1 DEF PlacesFollow
  <2> QED
    BY <2>1, <2>2
<1>5. S \in SUBSET Items
  OBVIOUS
<1> HIDE DEF S
<1>6. PlaceOf' = PassageOf!Moved(S, "ended")
  BY <1>4, MovedIs
<1>7. Spoiled' = Spoiled
  BY <1>1, <1>3, <1>4 DEF Spoiled
<1>8. \A i \in S : PlaceOf[i] = "travelling"
  BY <1>3, <1>5 DEF PlaceOf
<1> QED
  BY <1>1, <1>5, <1>6, <1>7, <1>8 DEF PassageOf!End

\* A step of the pipeline is one of Passage, or moves nothing.
LEMMA PassageStep ==
    ASSUME PipeInv, PipeInv', [PipelineNext]_pipelineVars, "none" \notin Final
    PROVE  [PassageOf!Next]_<<PlaceOf, Spoiled, sent>>
<1>1. CASE TurnGoesOn \/ Serialize \/ UNCHANGED pipelineVars
  <2>1. UNCHANGED <<content, given, sent, parcel, fate>>
    BY <1>1 DEF TurnGoesOn, Serialize, Encoded, Flush, Takes, AddToTotal, ResetCount, Tallies, pipelineVars, serializerVars, submission, turn, counts, deliveryVars
  <2>2. UNCHANGED <<PlaceOf, Spoiled, sent>>
    BY <2>1, NothingMoves DEF Carried
  <2> QED
    BY <2>2
<1>2. CASE SendMetadata \/ ReporterSubmits
  <2>1. Hand({}) /\ UNCHANGED <<content, given, sent>>
    BY <1>2 DEF SendMetadata, ReporterSubmits, serializerVars, submission, turn, counts
  <2>2. UNCHANGED <<PlaceOf, Spoiled, sent>>
    BY <2>1, OtherMoves
  <2> QED
    BY <2>2
<1>3. CASE CheckRuns
  BY <1>3, SubmitMoves DEF PassageOf!Next
<1>4. CASE SubmitPayload
  BY <1>4, SendMoves DEF PassageOf!Next
<1>5. CASE EndPush
  BY <1>5, EndMoves DEF PassageOf!Next
<1>6. CASE ForwarderWorks
  BY <1>6, ForwarderMoves DEF PassageOf!Next
<1> QED
  BY <1>1, <1>2, <1>3, <1>4, <1>5, <1>6 DEF PipelineNext

\* End to end, for any checks, items, contents and payloads: an item leaves in one payload
\* with the others of its kind, a turn sends three payloads or none, and only a value
\* without encoding loses items.  No way to end may be called what a payload is before it is submitted.
THEOREM PassageImplemented ==
    ASSUME "none" \notin Final
    PROVE  PipelineSpec => ImplementsPassage
<1>1. PipeInv /\ PipeInv' /\ [PipelineNext]_pipelineVars => [PassageOf!Next]_<<PlaceOf, Spoiled, sent>>
  BY PassageStep
<1> QED
  BY <1>1, PassageInit, PipeInvHolds, PTL DEF PipelineSpec, ImplementsPassage, PassageOf!Spec

-----------------------------------------------------------------------------
(***************************************************************************)
(* Flare.  The tree of the directories.                                    *)
(***************************************************************************)
LEMMA Tree ==
    /\ \A d \in Dirs : ToSet(Subdirs[d]) \subseteq Dirs /\ Subdirs[d] \in Seq(Dirs)
    /\ \A d \in Dirs : DirsBelow(d) \subseteq Dirs
    /\ \A d \in Dirs : \A c : c \in ToSet(Subdirs[d]) <=> \E i \in 1 .. Len(Subdirs[d]) : c = Subdirs[d][i]
BY FlareAssumption DEF ToSet, DirsBelow

\* A set with the directory and what is in its members has all that are below it.
LEMMA ClosedHasAll ==
    ASSUME NEW d \in Dirs, NEW S \in SUBSET Dirs, d \in S, \A x \in S : ToSet(Subdirs[x]) \subseteq S
    PROVE  DirsBelow(d) \subseteq S
BY DEF DirsBelow

\* Those below a directory are such a set.
LEMMA BelowIsClosed ==
    ASSUME NEW d \in Dirs
    PROVE  d \in DirsBelow(d) /\ \A x \in DirsBelow(d) : ToSet(Subdirs[x]) \subseteq DirsBelow(d)
<1>1. d \in DirsBelow(d)
  BY DEF DirsBelow
<1>2. ASSUME NEW x \in DirsBelow(d), NEW c \in ToSet(Subdirs[x]) PROVE c \in DirsBelow(d)
  <2>1. x \in Dirs /\ c \in Dirs
    BY Tree
  <2>2. ASSUME NEW S \in SUBSET Dirs, d \in S, \A y \in S : ToSet(Subdirs[y]) \subseteq S PROVE c \in S
    <3>1. x \in S
      BY <2>2, ClosedHasAll
    <3> QED
      BY <3>1, <2>2
  <2> QED
    BY <2>1, <2>2 DEF DirsBelow
<1> QED
  BY <1>1, <1>2

LEMMA BelowOfBelow ==
    ASSUME NEW d \in Dirs, NEW e \in DirsBelow(d)
    PROVE  DirsBelow(e) \subseteq DirsBelow(d)
<1>1. e \in Dirs /\ DirsBelow(d) \subseteq Dirs
  BY Tree
<1> QED
  BY <1>1, BelowIsClosed, ClosedHasAll

\* What is below a directory is itself, or below one that is in it; and it is itself, or
\* in one that is below.
LEMMA BelowByChildren ==
    ASSUME NEW d \in Dirs
    PROVE  /\ \A e : e \in DirsBelow(d) <=> e = d \/ \E c \in ToSet(Subdirs[d]) : e \in DirsBelow(c)
           /\ \A e \in DirsBelow(d) : e = d \/ \E x \in DirsBelow(d) : e \in ToSet(Subdirs[x])
<1>1. ToSet(Subdirs[d]) \subseteq Dirs /\ d \in DirsBelow(d) /\ ToSet(Subdirs[d]) \subseteq DirsBelow(d)
  BY Tree, BelowIsClosed
<1>2. ASSUME NEW c \in ToSet(Subdirs[d]) PROVE DirsBelow(c) \subseteq DirsBelow(d)
  BY <1>1, BelowOfBelow
<1> DEFINE S == {d} \cup UNION {DirsBelow(c) : c \in ToSet(Subdirs[d])}
           T == {e \in DirsBelow(d) : e = d \/ \E x \in DirsBelow(d) : e \in ToSet(Subdirs[x])}
<1>3. DirsBelow(d) \subseteq S
  <2>1. S \in SUBSET Dirs /\ d \in S
    BY <1>1, Tree
  <2>2. ASSUME NEW x \in S PROVE ToSet(Subdirs[x]) \subseteq S
    <3>1. CASE x = d
      BY <1>1, <3>1, BelowIsClosed
    <3>2. ASSUME NEW c \in ToSet(Subdirs[d]), x \in DirsBelow(c) PROVE ToSet(Subdirs[x]) \subseteq S
      <4>1. ToSet(Subdirs[x]) \subseteq DirsBelow(c)
        BY <1>1, <3>2, BelowIsClosed
      <4> QED
        BY <4>1
    <3> QED
      BY <3>1, <3>2
  <2> HIDE DEF S
  <2> QED
    BY <2>1, <2>2, ClosedHasAll
<1>4. DirsBelow(d) \subseteq T
  <2>1. T \in SUBSET Dirs /\ d \in T
    BY <1>1, Tree
  <2>2. ASSUME NEW x \in T PROVE ToSet(Subdirs[x]) \subseteq T
    BY BelowIsClosed
  <2> HIDE DEF T
  <2> QED
    BY <2>1, <2>2, ClosedHasAll
<1> QED
  BY <1>1, <1>2, <1>3, <1>4

\* Of two directories above one, one is above the other.
LEMMA AboveInLine ==
    ASSUME NEW a \in Dirs, NEW b \in Dirs, NEW e \in DirsBelow(a), e \in DirsBelow(b)
    PROVE  a \in DirsBelow(b) \/ b \in DirsBelow(a)
<1> DEFINE S == {x \in DirsBelow(a) : x \in DirsBelow(b) => a \in DirsBelow(b) \/ b \in DirsBelow(a)}
<1>1. S \in SUBSET Dirs /\ a \in S
  BY Tree, BelowIsClosed
<1>2. ASSUME NEW x \in S, NEW c \in ToSet(Subdirs[x]) PROVE c \in S
  <2>1. x \in Dirs /\ c \in Dirs /\ c \in DirsBelow(a)
    BY Tree, BelowIsClosed
  <2>2. ASSUME c \in DirsBelow(b) PROVE a \in DirsBelow(b) \/ b \in DirsBelow(a)
    <3>1. CASE c = b
      BY <2>1, <3>1
    <3>2. ASSUME NEW y \in DirsBelow(b), c \in ToSet(Subdirs[y]) PROVE a \in DirsBelow(b) \/ b \in DirsBelow(a)
      <4>1. y \in Dirs
        BY Tree
      <4>2. y = x
        BY <1>2, <2>1, <3>2, <4>1, FlareAssumption
      <4> QED
        BY <4>2
    <3> QED
      BY <2>2, <3>1, <3>2, BelowByChildren
  <2> QED
    BY <2>1, <2>2
<1>3. DirsBelow(a) \subseteq S
  <2> HIDE DEF S
  <2> QED
    BY <1>1, <1>2, ClosedHasAll
<1> QED
  BY <1>3

\* The directories in one have nothing in common, and it is below none of them.
LEMMA ChildrenApart ==
    ASSUME NEW d \in Dirs
    PROVE  /\ \A i \in 1 .. Len(Subdirs[d]) : Subdirs[d][i] \in Dirs /\ d \notin DirsBelow(Subdirs[d][i])
           /\ \A i, j \in 1 .. Len(Subdirs[d]) :
                 i # j => DirsBelow(Subdirs[d][i]) \cap DirsBelow(Subdirs[d][j]) = {}
<1> DEFINE In == ToSet(Subdirs[d])
<1>1. /\ In \subseteq Dirs /\ \A c \in In : d \notin DirsBelow(c)
      /\ \A i \in 1 .. Len(Subdirs[d]) : Subdirs[d][i] \in In
      /\ DOMAIN Subdirs[d] = 1 .. Len(Subdirs[d])
  BY Tree, FlareAssumption
<1>2. ASSUME NEW a \in In, NEW b \in In, a \in DirsBelow(b) PROVE a = b
  <2>1. CASE a # b
    <3>1. PICK y \in DirsBelow(b) : a \in ToSet(Subdirs[y])
      BY <1>1, <1>2, <2>1, BelowByChildren
    <3>2. y = d
      BY <1>1, <3>1, Tree, FlareAssumption
    <3> QED
      BY <1>1, <3>1, <3>2
  <2> QED
    BY <2>1
<1>3. ASSUME NEW i \in 1 .. Len(Subdirs[d]), NEW j \in 1 .. Len(Subdirs[d]), i # j,
             NEW e \in DirsBelow(Subdirs[d][i]), e \in DirsBelow(Subdirs[d][j])
      PROVE  FALSE
  <2>1. Subdirs[d][i] \in In /\ Subdirs[d][j] \in In /\ Subdirs[d][i] # Subdirs[d][j]
    BY <1>1, <1>3, FlareAssumption
  <2>2. Subdirs[d][i] \in DirsBelow(Subdirs[d][j]) \/ Subdirs[d][j] \in DirsBelow(Subdirs[d][i])
    BY <1>1, <1>3, <2>1, AboveInLine
  <2> HIDE DEF In
  <2> QED
    BY <1>2, <2>1, <2>2
<1> QED
  BY <1>1, <1>3

\* The files below a directory: its own, and those below what is in it.
LEMMA FilesBelow ==
    ASSUME NEW d \in Dirs
    PROVE  /\ \A f : f \in Below(d) <=> f \in FilesIn[d] \/ \E i \in 1 .. Len(Subdirs[d]) : f \in Below(Subdirs[d][i])
           /\ \A f \in FilesIn[d], e \in Dirs : f \in Below(e) <=> d \in DirsBelow(e)
<1>1. ASSUME NEW f PROVE f \in Below(d) <=> f \in FilesIn[d] \/ \E c \in ToSet(Subdirs[d]) : f \in Below(c)
  BY BelowByChildren DEF Below
<1>2. ASSUME NEW f \in FilesIn[d], NEW e \in Dirs PROVE f \in Below(e) <=> d \in DirsBelow(e)
  <2>1. f \in Files
    BY FlareAssumption
  <2>2. \A x \in DirsBelow(e) : x \in Dirs /\ (f \in FilesIn[x] => x = d)
    BY <2>1, <1>2, Tree, FlareAssumption
  <2> QED
    BY <1>2, <2>2 DEF Below
<1>3. ASSUME NEW f
      PROVE  (\E c \in ToSet(Subdirs[d]) : f \in Below(c)) <=> \E i \in 1 .. Len(Subdirs[d]) : f \in Below(Subdirs[d][i])
  BY Tree
<1> QED
  BY <1>1, <1>2, <1>3

\* Two directories without a common one have no common file.
LEMMA ApartNoFile ==
    ASSUME NEW d \in Dirs, NEW e \in Dirs, DirsBelow(d) \cap DirsBelow(e) = {}
    PROVE  Below(d) \cap Below(e) = {}
<1> SUFFICES ASSUME NEW f \in Below(d), f \in Below(e) PROVE FALSE
  OBVIOUS
<1>1. PICK x \in DirsBelow(d) : f \in FilesIn[x]
  BY DEF Below
<1>2. PICK y \in DirsBelow(e) : f \in FilesIn[y]
  BY DEF Below
<1>3. x \in Dirs /\ y \in Dirs /\ f \in Files
  BY <1>1, <1>2, Tree, FlareAssumption
<1>4. x = y
  BY <1>1, <1>2, <1>3, FlareAssumption
<1> QED
  BY <1>4

-----------------------------------------------------------------------------
(***************************************************************************)
(* Flare.  The inductive invariant.                                        *)
(***************************************************************************)
PlaceToPack(i) == IF Paths[i] \in Dirs THEN Paths[i] ELSE DirOf(Paths[i])

Pending(f) == f \in names \/ \E i \in DOMAIN walk : f \in Below(walk[i])

Walked(W, f) == {d \in W : f \in Below(d)}

\* W are the directories that were walked or are.  They, and those that are left, are the
\* places of paths that were there, of all that stayed among them; and a file that stayed
\* is in the archive, or will be, once for each that is above it.
RightArchive(W) ==
    /\ W \subseteq Dirs /\ roots \subseteq Dirs /\ roots \cap W = {}
    /\ \A i \in 1 .. added : Paths[i] \notin changed /\ Exists(Paths[i]) => PlaceToPack(i) \in roots \cup W
    /\ \A d \in roots \cup W : \E i \in 1 .. added :
          d = PlaceToPack(i) /\ (Paths[i] \in changed \/ Exists(Paths[i]))
    /\ \A f \in Files \ changed :
          IF There(f) /\ f \notin Unreadable
          THEN /\ Len(packed[f]) + (IF Pending(f) THEN 1 ELSE 0) = Cardinality(Walked(W, f))
               /\ ToSet(packed[f]) \subseteq {version[f]}
          ELSE packed[f] = <<>>
    /\ step \in {"prompt", "new", "add"} => W = {}

\* What is to be listed has nothing in common.
WalkApart ==
    /\ \A i, j \in DOMAIN walk : i # j => DirsBelow(walk[i]) \cap DirsBelow(walk[j]) = {}
    /\ \A f \in names, i \in DOMAIN walk : f \notin Below(walk[i])

\* What is known at each step; a rotation changes both logs.
StepKnows ==
    /\ rotates \in 0 .. MaxRotates /\ (rotates > 0 => {Log, OldLog} \subseteq changed)
    /\ step \in {"prompt", "new", "add", "pack"} => tempdir \in {"none", "made"} /\ ~accepted /\ posts = 0
    /\ step = "pack" \/ tempdir \in {"closed", "removed"} => added = Len(Paths)
    /\ tempdir \in {"closed", "removed"} => roots = {} /\ walk = <<>> /\ names = {}
    /\ step \in {"consent", "submit"} => tempdir = "closed" /\ ~accepted /\ posts = 0
    /\ step \in {"submit", "cleanup"} => consent
    /\ step = "cleanup" => tempdir = "closed" /\ accepted
    /\ SentOrKept

FlareInductive == FlareTypeOK /\ WalkApart /\ StepKnows /\ \E W \in SUBSET Dirs : RightArchive(W)

\* The files and places there are.
LEMMA FlareFacts ==
    /\ Len(Paths) \in Nat /\ \A i \in 1 .. Len(Paths) : Paths[i] \in Files \cup Dirs /\ PlaceToPack(i) \in Dirs
    /\ \A i : Root(Paths[i]) = {PlaceToPack(i)}
    /\ Log \in Files /\ OldLog \in Files /\ MaxRotates \in Nat
<1>1. /\ Len(Paths) \in Nat /\ \A i \in 1 .. Len(Paths) : Paths[i] \in Files \cup Dirs
      /\ Log \in Files /\ OldLog \in Files /\ MaxRotates \in Nat
  BY FlareAssumption
<1>2. \A f \in Files : DirOf(f) \in Dirs
  <2> SUFFICES ASSUME NEW f \in Files PROVE DirOf(f) \in Dirs
    OBVIOUS
  <2>1. \E d \in Dirs : f \in FilesIn[d]
    BY FlareAssumption
  <2> QED
    BY <2>1 DEF DirOf
<1> QED
  BY <1>1, <1>2 DEF PlaceToPack, Root

\* It holds when the command begins: nothing is packed yet.
LEMMA FlareInitially == FlareInit => FlareInductive
<1> SUFFICES ASSUME FlareInit PROVE FlareInductive
  OBVIOUS
<1>1. FlareTypeOK
  <2>1. version \in [Files -> 0 .. (MaxRotates + 1)]
    BY FlareFacts DEF FlareInit
  <2>2. packed \in [Files -> Seq(1 .. (MaxRotates + 1))]
    BY DEF FlareInit
  <2>3. {consent, accepted} \subseteq BOOLEAN
    BY DEF FlareInit
  <2> QED
    BY <2>1, <2>2, <2>3, FlareFacts DEF FlareInit, FlareTypeOK
<1>2. WalkApart
  BY DEF FlareInit, WalkApart
<1>3. StepKnows
  BY FlareFacts DEF FlareInit, StepKnows, SentOrKept
<1>4. RightArchive({})
  <2>1. \A f : Walked({}, f) = {} /\ ~Pending(f)
    BY DEF FlareInit, Walked, Pending
  <2>2. \A f \in Files : packed[f] = <<>> /\ ToSet(<<>>) = {}
    BY DEF FlareInit, ToSet
  <2>3. /\ added = 0 /\ roots = {} /\ 1 .. 0 = {}
        /\ step = "prompt" /\ Cardinality({}) = 0 /\ Len(<<>>) = 0
    BY FS_EmptySet DEF FlareInit
  <2>4. \A f \in Files : Len(packed[f]) = 0 /\ ToSet(packed[f]) \subseteq {version[f]}
    BY <2>2, <2>3
  <2>5. \A f \in Files : (IF Pending(f) THEN 1 ELSE 0) = 0 /\ Cardinality(Walked({}, f)) = 0
    BY <2>1, <2>3
  <2>6. \A f \in Files : Len(packed[f]) + (IF Pending(f) THEN 1 ELSE 0) = Cardinality(Walked({}, f))
    <3> SUFFICES ASSUME NEW f \in Files
                 PROVE  Len(packed[f]) + (IF Pending(f) THEN 1 ELSE 0) = Cardinality(Walked({}, f))
      OBVIOUS
    <3> HIDE DEF Pending, Walked
    <3>1. Len(packed[f]) = 0 /\ (IF Pending(f) THEN 1 ELSE 0) = 0 /\ Cardinality(Walked({}, f)) = 0
      BY <2>4, <2>5
    <3> QED
      BY <3>1
  <2> QED
    BY <2>2, <2>3, <2>4, <2>6 DEF RightArchive
<1> QED
  BY <1>1, <1>2, <1>3, <1>4 DEF FlareInductive

\* What others do to a file is noted as a change.
LEMMA OthersKeep ==
    ASSUME FlareInductive, Others
    PROVE  FlareInductive'
<1> USE DEF FlareInductive
<1>1. /\ UNCHANGED <<step, added, roots, walk, names, packed, tempdir, consent, posts, accepted>>
      /\ step \notin Ends
      /\ MoveLog \/ NewLog \/ \E f \in Files : EditFile(f)
  BY DEF Others, packing
<1>2. /\ changed \subseteq changed'
      /\ \A f \in Files \ changed' : f \notin changed /\ version'[f] = version[f]
      /\ version' \in [Files -> 0 .. (MaxRotates + 1)]
      /\ rotates' \in 0 .. MaxRotates /\ (rotates' > 0 => {Log, OldLog} \subseteq changed')
  <2>0. /\ version \in [Files -> 0 .. (MaxRotates + 1)] /\ rotates \in 0 .. MaxRotates
        /\ Log \in Files /\ OldLog \in Files /\ MaxRotates \in Nat
        /\ rotates > 0 => {Log, OldLog} \subseteq changed
    BY FlareFacts DEF FlareTypeOK, StepKnows
  <2>1. CASE MoveLog
    BY <2>0, <2>1 DEF MoveLog
  <2>2. CASE NewLog
    BY <2>0, <2>2 DEF NewLog
  <2>3. ASSUME NEW f \in Files, EditFile(f) PROVE <1>2!1 /\ <1>2!2 /\ <1>2!3 /\ <1>2!4
    BY <2>0, <2>3 DEF EditFile
  <2> QED
    BY <1>1, <2>1, <2>2, <2>3
<1>3. FlareTypeOK'
  BY <1>1, <1>2 DEF FlareTypeOK, Ends
<1>4. WalkApart'
  BY <1>1 DEF WalkApart
<1>5. StepKnows'
  BY <1>1, <1>2 DEF StepKnows, SentOrKept
<1>6. PICK W \in SUBSET Dirs : RightArchive(W)
  OBVIOUS
<1>7. RightArchive(W)'
  <2>1. \A f \in Files \ changed' : (There(f)' <=> There(f)) /\ (Pending(f)' <=> Pending(f))
    BY <1>1, <1>2 DEF There, Pending
  <2>2. \A i \in 1 .. added' : Paths[i] \notin changed' => Paths[i] \notin changed /\ (Exists(Paths[i])' <=> Exists(Paths[i]))
    BY <1>1, <1>2, <2>1 DEF Exists
  <2>3. \A i \in 1 .. added' : Paths[i] \notin changed' /\ Exists(Paths[i])' => PlaceToPack(i) \in roots' \cup W
    BY <1>1, <1>6, <2>2 DEF RightArchive
  <2>4. \A d \in roots' \cup W : \E i \in 1 .. added' :
            d = PlaceToPack(i) /\ (Paths[i] \in changed' \/ Exists(Paths[i])')
    BY <1>1, <1>2, <1>6, <2>2 DEF RightArchive
  <2>5. ASSUME NEW f \in Files \ changed'
        PROVE  IF There(f)' /\ f \notin Unreadable
               THEN /\ Len(packed'[f]) + (IF Pending(f)' THEN 1 ELSE 0) = Cardinality(Walked(W, f))
                    /\ ToSet(packed'[f]) \subseteq {version'[f]}
               ELSE packed'[f] = <<>>
    BY <1>1, <1>2, <1>6, <2>1 DEF RightArchive
  <2> QED
    BY <1>1, <1>6, <2>3, <2>4, <2>5 DEF RightArchive, Walked, PlaceToPack
<1> QED
  BY <1>3, <1>4, <1>5, <1>7

\* Steps of the command that neither look at files nor pack.
LEMMA ControlKeeps ==
    ASSUME FlareInductive,
           AskCase \/ Interrupt \/ New \/ AskStatus \/ CloseArchive \/ Consent \/ TooLarge \/ Cleanup
              \/ \E answer \in {"accepted", "odd", "refused", "timeout", "unreachable"} : Submit(answer)
    PROVE  FlareInductive'
<1> USE DEF FlareInductive
<1>1. UNCHANGED <<files, packing>> /\ (step' \in {"prompt", "new", "add"} => step \in {"prompt", "new", "add"})
  BY DEF AskCase, Interrupt, New, AskStatus, CloseArchive, Consent, TooLarge, Cleanup, Submit, Goto, From, NextAfter
<1>2. WalkApart'
  BY <1>1 DEF WalkApart, packing
<1>3. PICK W \in SUBSET Dirs : RightArchive(W)
  OBVIOUS
<1>4. RightArchive(W)'
  <2>1. UNCHANGED <<version, changed, added, roots, walk, names, packed>>
    BY <1>1 DEF files, packing
  <2>2. \A f : There(f)' = There(f) /\ Exists(f)' = Exists(f) /\ Walked(W, f)' = Walked(W, f)
    BY <2>1 DEF There, Exists, Walked
  <2>3. \A f : Pending(f)' = Pending(f)
    BY <2>1 DEF Pending
  <2> QED
    BY <1>1, <1>3, <2>1, <2>2, <2>3 DEF RightArchive, PlaceToPack
<1>5. FlareTypeOK' /\ StepKnows'
  <2>1. UNCHANGED <<version, rotates, changed, added, roots, walk, names, packed>>
    BY <1>1 DEF files, packing
  <2>2. ASSUME NEW answer \in {"accepted", "odd", "refused", "timeout", "unreachable"}, Submit(answer)
        PROVE  FlareTypeOK' /\ StepKnows'
    <3>1. /\ step = "submit" /\ posts' = posts + 1 /\ accepted' = (answer \in {"accepted", "odd"})
          /\ UNCHANGED <<tempdir, consent>>
          /\ step' = NextAfter(answer)
      BY <2>2 DEF Submit, From, Goto
    <3>2. /\ answer = "accepted" => step' = "cleanup" /\ accepted' = TRUE
          /\ answer = "odd" => step' = "exit 1" /\ accepted' = TRUE
          /\ answer \in {"refused", "timeout"} => step' = "exit 0" /\ accepted' = FALSE
          /\ answer = "unreachable" => step' = "exit 1" /\ accepted' = FALSE
      <4>1. /\ NextAfter("accepted") = "cleanup" /\ NextAfter("odd") = "exit 1" /\ NextAfter("unreachable") = "exit 1"
            /\ NextAfter("refused") = "exit 0" /\ NextAfter("timeout") = "exit 0"
        BY DEF NextAfter
      <4>2. accepted' = (answer \in {"accepted", "odd"}) /\ step' = NextAfter(answer)
        BY <3>1
      <4>3. ASSUME answer \in {"accepted", "odd"} PROVE accepted' = TRUE
        BY <4>2, <4>3
      <4>4. ASSUME answer \notin {"accepted", "odd"} PROVE accepted' = FALSE
        <5>1. (answer \in {"accepted", "odd"}) = FALSE
          BY <4>4
        <5> QED
          BY <4>2, <5>1, Zenon
      <4> QED
        BY <4>1, <4>2, <4>3, <4>4
    <3>3. \/ step' = "cleanup" /\ accepted' = TRUE
          \/ step' = "exit 0" /\ accepted' = FALSE
          \/ step' = "exit 1" /\ accepted' \in BOOLEAN
      BY <3>2
    <3>4. tempdir = "closed" /\ ~accepted /\ posts = 0 /\ consent /\ posts' = 1
      BY <3>1 DEF StepKnows
    <3>5. FlareTypeOK'
      BY <2>1, <3>1, <3>3, <3>4 DEF FlareTypeOK, Ends
    <3>6. SentOrKept'
      BY <3>1, <3>3, <3>4 DEF SentOrKept
    <3>7. tempdir' = "closed" /\ consent' = consent /\ roots = {} /\ walk = <<>> /\ names = {} /\ added = Len(Paths)
      BY <3>1, <3>4 DEF StepKnows
    <3>8. step' \notin {"prompt", "new", "add", "pack", "consent", "submit"} /\ (step' = "cleanup" => accepted')
      BY <3>3
    <3>9. rotates \in 0 .. MaxRotates /\ (rotates > 0 => {Log, OldLog} \subseteq changed)
      BY DEF StepKnows
    <3> QED
      BY <2>1, <3>4, <3>5, <3>6, <3>7, <3>8, <3>9 DEF StepKnows
  <2>3. ASSUME AskCase \/ Interrupt \/ New \/ AskStatus
        PROVE  FlareTypeOK' /\ StepKnows'
    <3>1. /\ step \in {"prompt", "new", "add", "consent"} /\ UNCHANGED <<consent, posts, accepted>>
          /\ step = "consent" => tempdir' = tempdir /\ step' = "interrupted"
          /\ step \in {"prompt", "new", "add"} =>
                 /\ step' \in {"new", "add", "pack", "exit 1", "interrupted"} /\ tempdir' \in {tempdir, "made"}
                 /\ step' = "pack" => added = Len(Paths)
      BY <2>3 DEF AskCase, Interrupt, New, AskStatus, Goto, From
    <3>2. FlareTypeOK'
      BY <2>1, <3>1 DEF FlareTypeOK, Ends
    <3>3. SentOrKept'
      BY <3>1 DEF StepKnows, SentOrKept
    <3> QED
      BY <2>1, <3>1, <3>2, <3>3 DEF StepKnows
  <2>4. ASSUME CloseArchive
        PROVE  FlareTypeOK' /\ StepKnows'
    <3>1. /\ step = "pack" /\ UNCHANGED <<consent, posts, accepted>> /\ walk = <<>> /\ names = {} /\ roots = {}
          /\ \/ tempdir' = "closed" /\ step' = "consent"
             \/ tempdir' = tempdir /\ step' = "exit 1"
      BY <2>4 DEF CloseArchive, Goto, From
    <3>2. FlareTypeOK'
      BY <2>1, <3>1 DEF FlareTypeOK, Ends
    <3>3. SentOrKept'
      BY <3>1 DEF StepKnows, SentOrKept
    <3> QED
      BY <2>1, <3>1, <3>2, <3>3 DEF StepKnows
  <2>5. ASSUME Consent \/ TooLarge \/ Cleanup
        PROVE  FlareTypeOK' /\ StepKnows'
    <3>1. /\ UNCHANGED <<posts, accepted>>
          /\ \/ step = "consent" /\ consent' = TRUE /\ step' = "submit" /\ tempdir' = tempdir
             \/ step \in {"consent", "submit"} /\ consent' = consent /\ step' = "exit 0" /\ tempdir' = tempdir
             \/ step = "cleanup" /\ consent' = consent /\ step' = "exit 0" /\ tempdir' = "removed"
      BY <2>5 DEF Consent, TooLarge, Cleanup, Goto, From
    <3>2. consent' \in BOOLEAN
      BY <3>1 DEF FlareTypeOK
    <3>3. FlareTypeOK'
      BY <2>1, <3>1, <3>2 DEF FlareTypeOK, Ends
    <3>4. SentOrKept'
      BY <3>1 DEF StepKnows, SentOrKept
    <3> QED
      BY <2>1, <3>1, <3>3, <3>4 DEF StepKnows
  <2> QED
    BY <2>2, <2>3, <2>4, <2>5
<1> QED
  BY <1>2, <1>3, <1>4, <1>5

\* The place of the next path, if it is there.
LEMMA AddKeeps ==
    ASSUME FlareInductive, AddPath
    PROVE  FlareInductive'
<1> USE DEF FlareInductive
<1>1. /\ step = "add" /\ added < Len(Paths) /\ added' = added + 1 /\ added \in Nat
      /\ UNCHANGED <<step, version, rotates, changed, walk, names, packed, tempdir, consent, posts, accepted>>
      /\ roots' = IF Exists(Paths[added + 1]) THEN roots \cup {PlaceToPack(added + 1)} ELSE roots
  <2>1. Root(Paths[added + 1]) = {PlaceToPack(added + 1)}
    BY FlareFacts
  <2>2. added \in Nat
    BY FlareFacts DEF FlareTypeOK
  <2> QED
    BY <2>1, <2>2 DEF AddPath, From, files
<1>2. PICK W \in SUBSET Dirs : RightArchive(W)
  OBVIOUS
<1>3. 1 .. added' = (1 .. added) \cup {added + 1} /\ added' \in 1 .. Len(Paths)
  BY <1>1, FlareFacts
<1>4. roots' \subseteq Dirs
  BY <1>1, <1>3, FlareFacts DEF FlareTypeOK
<1>5. FlareTypeOK'
  BY <1>1, <1>3, <1>4, FlareFacts DEF FlareTypeOK
<1>6. WalkApart' /\ StepKnows'
  BY <1>1 DEF WalkApart, StepKnows, SentOrKept
<1>7. RightArchive(W)'
  <2>1. W = {}
    BY <1>1, <1>2 DEF RightArchive
  <2>2. \A f : There(f)' = There(f) /\ Exists(f)' = Exists(f) /\ Walked(W, f)' = Walked(W, f)
    BY <1>1 DEF There, Exists, Walked
  <2>3. \A f : Pending(f)' = Pending(f)
    BY <1>1 DEF Pending
  <2>4. \A i \in 1 .. added' : Paths[i] \notin changed' /\ Exists(Paths[i]) => PlaceToPack(i) \in roots' \cup W
    BY <1>1, <1>2, <1>3 DEF RightArchive
  <2>5. \A d \in roots' \cup W : \E i \in 1 .. added' : d = PlaceToPack(i) /\ (Paths[i] \in changed' \/ Exists(Paths[i]))
    BY <1>1, <1>2, <1>3 DEF RightArchive
  <2> QED
    BY <1>1, <1>2, <1>4, <2>1, <2>2, <2>3, <2>4, <2>5 DEF RightArchive, PlaceToPack
<1> QED
  BY <1>5, <1>6, <1>7

\* The files below a directory are to come once more.
LEMMA RootKeeps ==
    ASSUME FlareInductive, NextRoot
    PROVE  FlareInductive'
<1> USE DEF FlareInductive
<1>1. PICK d \in roots : walk' = <<d>> /\ roots' = roots \ {d}
  BY DEF NextRoot
<1>2. /\ step = "pack" /\ walk = <<>> /\ names = {} /\ d \in Dirs
      /\ UNCHANGED <<step, version, rotates, changed, added, names, packed, tempdir, consent, posts, accepted>>
  BY DEF NextRoot, From, files, FlareTypeOK
<1>3. PICK W \in SUBSET Dirs : RightArchive(W)
  OBVIOUS
<1>4. FlareTypeOK'
  BY <1>1, <1>2 DEF FlareTypeOK
<1>5. WalkApart'
  BY <1>1, <1>2 DEF WalkApart
<1>6. StepKnows'
  BY <1>2 DEF StepKnows, SentOrKept
<1> DEFINE V == W \cup {d}
<1>7. V \in SUBSET Dirs /\ d \notin W /\ roots' \cup V = roots \cup W /\ roots' \cap V = {}
  BY <1>1, <1>2, <1>3 DEF RightArchive
<1>8. ASSUME NEW f PROVE Cardinality(Walked(V, f)) = Cardinality(Walked(W, f)) + (IF Pending(f)' THEN 1 ELSE 0)
  <2>1. Pending(f)' <=> f \in Below(d)
    BY <1>1, <1>2 DEF Pending
  <2>2. IsFiniteSet(Walked(W, f)) /\ Cardinality(Walked(W, f)) \in Nat /\ d \notin Walked(W, f)
    BY <1>7, FlareAssumption, FS_Subset, FS_CardinalityType DEF Walked
  <2>3. CASE f \in Below(d)
    <3>1. Walked(V, f) = Walked(W, f) \cup {d}
      BY <2>3 DEF Walked
    <3> QED
      BY <2>1, <2>2, <2>3, <3>1, FS_AddElement
  <2>4. CASE f \notin Below(d)
    <3>1. Walked(V, f) = Walked(W, f)
      BY <2>4 DEF Walked
    <3> QED
      BY <2>1, <2>2, <2>4, <3>1
  <2> QED
    BY <2>3, <2>4
<1>9. \A f : ~Pending(f) /\ There(f)' = There(f) /\ Exists(f)' = Exists(f) /\ Walked(V, f)' = Walked(V, f)
  BY <1>2 DEF Pending, There, Exists, Walked
<1>10. RightArchive(V)'
  <2>1. ASSUME NEW f \in Files \ changed', There(f), f \notin Unreadable
        PROVE  /\ Len(packed'[f]) + (IF Pending(f)' THEN 1 ELSE 0) = Cardinality(Walked(V, f))
               /\ ToSet(packed'[f]) \subseteq {version'[f]}
    <3>1. Len(packed[f]) + 0 = Cardinality(Walked(W, f)) /\ ToSet(packed[f]) \subseteq {version[f]}
      BY <1>2, <1>3, <1>9, <2>1 DEF RightArchive
    <3>2. Len(packed[f]) \in Nat
      BY <2>1 DEF FlareTypeOK
    <3> DEFINE p == IF Pending(f)' THEN 1 ELSE 0
               v == Cardinality(Walked(V, f))
    <3>3. v = Cardinality(Walked(W, f)) + p /\ p \in {0, 1}
      BY <1>8
    <3>4. packed'[f] = packed[f] /\ version'[f] = version[f]
      BY <1>2
    <3>5. Len(packed'[f]) + p = v
      <4> HIDE DEF p, v
      <4> QED
        BY <3>1, <3>2, <3>3, <3>4
    <3> QED
      BY <3>1, <3>4, <3>5
  <2>2. ASSUME NEW f \in Files \ changed', ~(There(f) /\ f \notin Unreadable)
        PROVE  packed'[f] = <<>>
    BY <1>2, <1>3, <2>2 DEF RightArchive
  <2>3. /\ \A i \in 1 .. added : Paths[i] \notin changed /\ Exists(Paths[i]) => PlaceToPack(i) \in roots' \cup V
        /\ \A e \in roots' \cup V : \E i \in 1 .. added : e = PlaceToPack(i) /\ (Paths[i] \in changed \/ Exists(Paths[i]))
    BY <1>3, <1>7 DEF RightArchive
  <2> HIDE DEF V
  <2> QED
    BY <1>2, <1>4, <1>7, <1>9, <2>1, <2>2, <2>3 DEF RightArchive, PlaceToPack, FlareTypeOK
<1> HIDE DEF V
<1> QED
  BY <1>4, <1>5, <1>6, <1>7, <1>10

\* Instead of a directory its files are to come, and the directories in it.
LEMMA ListKeeps ==
    ASSUME FlareInductive, ListDir
    PROVE  FlareInductive'
<1> USE DEF FlareInductive
<1> DEFINE d == Head(walk)
           new == Subdirs[d]
           rest == Tail(walk)
<1>1. /\ step = "pack" /\ walk # <<>> /\ names = {} /\ walk \in Seq(Dirs)
      /\ names' = {f \in FilesIn[d] : There(f)}
      /\ walk' = new \o rest
      /\ UNCHANGED <<step, version, rotates, changed, added, roots, packed, tempdir, consent, posts, accepted>>
  BY DEF ListDir, From, files, FlareTypeOK
<1>2. /\ d \in Dirs /\ d = walk[1] /\ new \in Seq(Dirs) /\ rest \in Seq(Dirs)
      /\ Len(new) \in Nat /\ Len(rest) \in Nat /\ Len(walk) = Len(rest) + 1
      /\ \A j \in 1 .. Len(rest) : rest[j] = walk[j + 1]
  BY <1>1, FlareAssumption
<1> HIDE DEF d, new, rest
<1>3. /\ walk' \in Seq(Dirs) /\ DOMAIN walk' = 1 .. Len(new) + Len(rest)
      /\ \A i \in 1 .. Len(new) + Len(rest) : walk'[i] = IF i <= Len(new) THEN new[i] ELSE rest[i - Len(new)]
  BY <1>1, <1>2
<1>4. DOMAIN walk = 1 .. Len(rest) + 1 /\ \A j \in 1 .. Len(rest) : walk[j + 1] = rest[j] /\ rest[j] \in Dirs
  BY <1>1, <1>2
<1>5. \A i \in 1 .. Len(new) : new[i] \in Dirs /\ new[i] \in DirsBelow(d) /\ DirsBelow(new[i]) \subseteq DirsBelow(d)
  <2> SUFFICES ASSUME NEW i \in 1 .. Len(new)
               PROVE  new[i] \in Dirs /\ new[i] \in DirsBelow(d) /\ DirsBelow(new[i]) \subseteq DirsBelow(d)
    OBVIOUS
  <2>1. new[i] \in ToSet(Subdirs[d])
    BY <1>2, Tree DEF new
  <2> QED
    BY <1>2, <2>1, Tree, BelowIsClosed, BelowOfBelow
<1>6. \A j \in 1 .. Len(rest) : DirsBelow(d) \cap DirsBelow(rest[j]) = {}
  <2> SUFFICES ASSUME NEW j \in 1 .. Len(rest) PROVE DirsBelow(d) \cap DirsBelow(rest[j]) = {}
    OBVIOUS
  <2>1. 1 \in DOMAIN walk /\ j + 1 \in DOMAIN walk /\ j + 1 # 1
    BY <1>2, <1>4
  <2> QED
    BY <1>2, <1>4, <2>1 DEF WalkApart
<1>7. \A i, j \in 1 .. Len(rest) : i # j => DirsBelow(rest[i]) \cap DirsBelow(rest[j]) = {}
  <2> SUFFICES ASSUME NEW i \in 1 .. Len(rest), NEW j \in 1 .. Len(rest), i # j
               PROVE  DirsBelow(rest[i]) \cap DirsBelow(rest[j]) = {}
    OBVIOUS
  <2>1. i + 1 \in DOMAIN walk /\ j + 1 \in DOMAIN walk /\ i + 1 # j + 1
    BY <1>2, <1>4
  <2> QED
    BY <1>4, <2>1 DEF WalkApart
<1>8. WalkApart'
  <2>1. ASSUME NEW i \in DOMAIN walk', NEW j \in DOMAIN walk', i # j
        PROVE  DirsBelow(walk'[i]) \cap DirsBelow(walk'[j]) = {}
    <3>1. CASE i <= Len(new) /\ j <= Len(new)
      <4>1. i \in 1 .. Len(Subdirs[d]) /\ j \in 1 .. Len(Subdirs[d]) /\ walk'[i] = Subdirs[d][i] /\ walk'[j] = Subdirs[d][j]
        BY <1>2, <1>3, <3>1 DEF new
      <4> QED
        BY <1>2, <2>1, <4>1, ChildrenApart
    <3>2. CASE i <= Len(new) /\ ~(j <= Len(new))
      <4>1. i \in 1 .. Len(new) /\ j - Len(new) \in 1 .. Len(rest) /\ walk'[i] = new[i] /\ walk'[j] = rest[j - Len(new)]
        BY <1>2, <1>3, <3>2
      <4> QED
        BY <1>5, <1>6, <4>1
    <3>3. CASE ~(i <= Len(new)) /\ j <= Len(new)
      <4>1. j \in 1 .. Len(new) /\ i - Len(new) \in 1 .. Len(rest) /\ walk'[j] = new[j] /\ walk'[i] = rest[i - Len(new)]
        BY <1>2, <1>3, <3>3
      <4> QED
        BY <1>5, <1>6, <4>1
    <3>4. CASE ~(i <= Len(new)) /\ ~(j <= Len(new))
      <4>1. /\ i - Len(new) \in 1 .. Len(rest) /\ j - Len(new) \in 1 .. Len(rest) /\ i - Len(new) # j - Len(new)
            /\ walk'[i] = rest[i - Len(new)] /\ walk'[j] = rest[j - Len(new)]
        BY <1>2, <1>3, <2>1, <3>4
      <4> QED
        BY <1>7, <4>1
    <3> QED
      BY <3>1, <3>2, <3>3, <3>4
  <2>2. ASSUME NEW f \in names', NEW i \in DOMAIN walk' PROVE f \notin Below(walk'[i])
    <3>1. f \in FilesIn[d] /\ d \in DirsBelow(d)
      BY <1>1, <1>2, BelowIsClosed
    <3>2. walk'[i] \in Dirs /\ d \notin DirsBelow(walk'[i])
      <4>1. CASE i <= Len(new)
        <5>1. i \in 1 .. Len(Subdirs[d]) /\ walk'[i] = Subdirs[d][i]
          BY <1>2, <1>3, <4>1 DEF new
        <5> QED
          BY <1>2, <5>1, ChildrenApart
      <4>2. CASE ~(i <= Len(new))
        <5>1. i - Len(new) \in 1 .. Len(rest) /\ walk'[i] = rest[i - Len(new)]
          BY <1>2, <1>3, <4>2
        <5> QED
          BY <1>4, <1>6, <3>1, <5>1
      <4> QED
        BY <4>1, <4>2
    <3> QED
      BY <1>2, <3>1, <3>2, FilesBelow
  <2> QED
    BY <2>1, <2>2 DEF WalkApart
\* A file that is there is to come as before.
<1>9. ASSUME NEW f, There(f) PROVE Pending(f)' <=> Pending(f)
  <2>1. Pending(f) <=> f \in Below(d) \/ \E j \in 1 .. Len(rest) : f \in Below(rest[j])
    <3>1. Pending(f) <=> \E i \in 1 .. Len(rest) + 1 : f \in Below(walk[i])
      BY <1>1, <1>4 DEF Pending
    <3>2. ASSUME NEW i \in 1 .. Len(rest) + 1, f \in Below(walk[i])
          PROVE  f \in Below(d) \/ \E j \in 1 .. Len(rest) : f \in Below(rest[j])
      <4>1. CASE i = 1
        BY <1>2, <3>2, <4>1
      <4>2. CASE i # 1
        <5> DEFINE k == i - 1
        <5>1. k \in 1 .. Len(rest) /\ k + 1 = i
          BY <1>2, <4>2
        <5> HIDE DEF k
        <5>2. walk[k + 1] = rest[k]
          BY <1>4, <5>1
        <5>3. f \in Below(rest[k])
          BY <3>2, <5>1, <5>2
        <5> QED
          BY <5>1, <5>3
      <4> QED
        BY <4>1, <4>2
    <3>3. ASSUME NEW j \in 1 .. Len(rest), f \in Below(rest[j])
          PROVE  \E i \in 1 .. Len(rest) + 1 : f \in Below(walk[i])
      <4>1. j + 1 \in 1 .. Len(rest) + 1 /\ walk[j + 1] = rest[j]
        BY <1>2, <1>4
      <4> QED
        BY <3>3, <4>1
    <3>4. 1 \in 1 .. Len(rest) + 1
      BY <1>2
    <3> QED
      BY <1>2, <3>1, <3>2, <3>3, <3>4
  <2>2. Pending(f)' <=> \/ f \in FilesIn[d]
                        \/ \E i \in 1 .. Len(new) : f \in Below(new[i])
                        \/ \E j \in 1 .. Len(rest) : f \in Below(rest[j])
    <3>1. Pending(f)' <=> f \in FilesIn[d] \/ \E i \in 1 .. Len(new) + Len(rest) : f \in Below(walk'[i])
      BY <1>1, <1>3, <1>9 DEF Pending
    <3>2. ASSUME NEW i \in 1 .. Len(new) + Len(rest), f \in Below(walk'[i])
          PROVE  \/ \E k \in 1 .. Len(new) : f \in Below(new[k])
                 \/ \E j \in 1 .. Len(rest) : f \in Below(rest[j])
      <4>1. \/ i \in 1 .. Len(new) /\ walk'[i] = new[i]
            \/ i - Len(new) \in 1 .. Len(rest) /\ walk'[i] = rest[i - Len(new)]
        BY <1>2, <1>3
      <4> QED
        BY <3>2, <4>1
    <3>3. ASSUME NEW i \in 1 .. Len(new), f \in Below(new[i])
          PROVE  \E k \in 1 .. Len(new) + Len(rest) : f \in Below(walk'[k])
      <4>1. i \in 1 .. Len(new) + Len(rest) /\ walk'[i] = new[i]
        BY <1>2, <1>3
      <4> QED
        BY <3>3, <4>1
    <3>4. ASSUME NEW j \in 1 .. Len(rest), f \in Below(rest[j])
          PROVE  \E k \in 1 .. Len(new) + Len(rest) : f \in Below(walk'[k])
      <4>1. j + Len(new) \in 1 .. Len(new) + Len(rest) /\ walk'[j + Len(new)] = rest[j]
        BY <1>2, <1>3
      <4> QED
        BY <3>4, <4>1
    <3> QED
      BY <3>1, <3>2, <3>3, <3>4
  <2>3. f \in Below(d) <=> f \in FilesIn[d] \/ \E i \in 1 .. Len(new) : f \in Below(new[i])
    BY <1>2, FilesBelow DEF new
  <2> QED
    BY <2>1, <2>2, <2>3
<1>10. FlareTypeOK'
  <2>1. names' \subseteq Files
    BY <1>1, <1>2, FlareAssumption
  <2> QED
    BY <1>1, <1>3, <2>1 DEF FlareTypeOK
<1>11. StepKnows'
  BY <1>1 DEF StepKnows, SentOrKept
<1>12. PICK W \in SUBSET Dirs : RightArchive(W)
  OBVIOUS
<1>13. RightArchive(W)'
  <2>1. \A f : There(f)' = There(f) /\ Exists(f)' = Exists(f) /\ Walked(W, f)' = Walked(W, f)
    BY <1>1 DEF There, Exists, Walked
  <2> QED
    BY <1>1, <1>9, <1>12, <2>1 DEF RightArchive, PlaceToPack
<1> QED
  BY <1>8, <1>10, <1>11, <1>13

\* A file that was to come is packed.
LEMMA PackKeeps ==
    ASSUME FlareInductive, NEW f \in Files, Pack(f)
    PROVE  FlareInductive'
<1> USE DEF FlareInductive
<1>1. /\ step = "pack" /\ f \in names /\ names' = names \ {f}
      /\ packed' = IF There(f) /\ f \notin Unreadable
                   THEN [packed EXCEPT ![f] = Append(@, version[f])]
                   ELSE packed
      /\ UNCHANGED <<step, version, rotates, changed, added, roots, walk, tempdir, consent, posts, accepted>>
  BY DEF Pack, From, files
<1>2. PICK W \in SUBSET Dirs : RightArchive(W)
  OBVIOUS
<1>3. packed \in [Files -> Seq(1 .. (MaxRotates + 1))] /\ (There(f) => version[f] \in 1 .. (MaxRotates + 1))
  BY FlareFacts DEF FlareTypeOK, There
<1>4. packed' \in [Files -> Seq(1 .. (MaxRotates + 1))]
  BY <1>1, <1>3
<1>5. FlareTypeOK' /\ WalkApart' /\ StepKnows'
  BY <1>1, <1>4 DEF FlareTypeOK, WalkApart, StepKnows, SentOrKept
<1>6. /\ Pending(f) /\ ~Pending(f)'
      /\ \A g : g # f => (Pending(g)' <=> Pending(g))
  BY <1>1 DEF Pending, WalkApart
<1>7. RightArchive(W)'
  <2>1. \A g : There(g)' = There(g) /\ Exists(g)' = Exists(g) /\ Walked(W, g)' = Walked(W, g)
    BY <1>1 DEF There, Exists, Walked
  <2>2. ASSUME NEW g \in Files \ changed, There(g), g \notin Unreadable
        PROVE  /\ Len(packed'[g]) + (IF Pending(g)' THEN 1 ELSE 0) = Cardinality(Walked(W, g))
               /\ ToSet(packed'[g]) \subseteq {version[g]}
    <3>1. /\ Len(packed[g]) + (IF Pending(g) THEN 1 ELSE 0) = Cardinality(Walked(W, g))
          /\ ToSet(packed[g]) \subseteq {version[g]}
          /\ packed[g] \in Seq(1 .. (MaxRotates + 1)) /\ Len(packed[g]) \in Nat
      BY <1>2, <1>3, <2>2 DEF RightArchive
    <3>2. CASE g # f
      BY <1>1, <1>3, <1>6, <3>1, <3>2
    <3>3. CASE g = f
      <4>1. packed'[f] = Append(packed[f], version[f])
        BY <1>1, <1>3, <2>2, <3>3
      <4>2. Len(packed'[f]) = Len(packed[f]) + 1
        BY <3>1, <3>3, <4>1
      <4>3. ToSet(packed'[f]) \subseteq {version[f]}
        <5>1. \A i \in DOMAIN packed[f] : packed[f][i] = version[f]
          BY <3>1, <3>3 DEF ToSet
        <5>2. \A i \in DOMAIN packed'[f] : packed'[f][i] = version[f]
          BY <3>1, <3>3, <4>1, <5>1
        <5> QED
          BY <5>2 DEF ToSet
      <4> QED
        BY <1>6, <3>1, <3>3, <4>2, <4>3
    <3> QED
      BY <3>2, <3>3
  <2>3. ASSUME NEW g \in Files \ changed, ~(There(g) /\ g \notin Unreadable)
        PROVE  packed'[g] = <<>>
    <3>1. packed[g] = <<>>
      BY <1>2, <2>3 DEF RightArchive
    <3> QED
      BY <1>1, <1>3, <2>3, <3>1
  <2> QED
    BY <1>1, <1>2, <2>1, <2>2, <2>3 DEF RightArchive, PlaceToPack
<1> QED
  BY <1>5, <1>7

\* Every step keeps it.
LEMMA FlareMoves ==
    ASSUME FlareInductive, [FlareNext]_flareVars
    PROVE  FlareInductive'
<1>1. ASSUME UNCHANGED flareVars PROVE FlareInductive'
  <2>1. UNCHANGED <<step, version, edits, rotates, changed, added, roots, walk, names, packed,
                    tempdir, consent, posts, accepted>>
    BY <1>1 DEF flareVars, files, packing
  <2>2. FlareTypeOK' /\ WalkApart' /\ StepKnows'
    BY <2>1 DEF FlareInductive, FlareTypeOK, WalkApart, StepKnows, SentOrKept
  <2>3. PICK W \in SUBSET Dirs : RightArchive(W)
    BY DEF FlareInductive
  <2>4. /\ \A f : There(f)' = There(f) /\ Exists(f)' = Exists(f) /\ Walked(W, f)' = Walked(W, f)
        /\ \A f : Pending(f)' = Pending(f)
    BY <2>1 DEF There, Exists, Walked, Pending
  <2>5. RightArchive(W)'
    BY <2>1, <2>3, <2>4 DEF RightArchive, PlaceToPack
  <2> QED
    BY <2>2, <2>3, <2>5 DEF FlareInductive
<1> QED
  BY <1>1, OthersKeep, ControlKeeps, AddKeeps, RootKeeps, ListKeeps, PackKeeps DEF FlareNext

\* A closed archive is complete.
LEMMA ClosedIsComplete == FlareInductive => ArchiveComplete
<1> SUFFICES ASSUME FlareInductive, tempdir = "closed", NEW f \in Files \ changed
             PROVE  LET sure == {p \in ToSet(Paths) : p \notin changed /\ Exists(p)}
                        perhaps == sure \cup (changed \cap ToSet(Paths))
                        entries == Len(packed[f])
                    IN IF There(f) /\ f \notin Unreadable
                       THEN /\ Cardinality(Above(f, sure)) <= entries
                            /\ entries <= Cardinality(Above(f, perhaps))
                            /\ ToSet(packed[f]) \subseteq {version[f]}
                       ELSE entries = 0
  BY DEF ArchiveComplete
<1> DEFINE sure == {p \in ToSet(Paths) : p \notin changed /\ Exists(p)}
           perhaps == sure \cup (changed \cap ToSet(Paths))
<1>1. PICK W \in SUBSET Dirs : RightArchive(W)
  BY DEF FlareInductive
<1>2. added = Len(Paths) /\ roots = {} /\ walk = <<>> /\ names = {}
  BY DEF FlareInductive, StepKnows
<1>3. \A p : p \in ToSet(Paths) <=> \E i \in 1 .. Len(Paths) : p = Paths[i]
  BY FlareAssumption DEF ToSet
<1>4. ~Pending(f)
  BY <1>2 DEF Pending
<1>5. CASE There(f) /\ f \notin Unreadable
  <2>1. Len(packed[f]) + 0 = Cardinality(Walked(W, f)) /\ ToSet(packed[f]) \subseteq {version[f]} /\ Len(packed[f]) \in Nat
    BY <1>1, <1>4, <1>5 DEF RightArchive, FlareInductive, FlareTypeOK
  <2>2. Above(f, sure) \subseteq Walked(W, f)
    <3> SUFFICES ASSUME NEW p \in sure, f \in Below(IF p \in Dirs THEN p ELSE DirOf(p))
                 PROVE  (IF p \in Dirs THEN p ELSE DirOf(p)) \in W
      BY DEF Above, Walked
    <3>1. PICK i \in 1 .. Len(Paths) : p = Paths[i]
      BY <1>3
    <3> QED
      BY <1>1, <1>2, <3>1 DEF RightArchive, PlaceToPack
  <2>3. Walked(W, f) \subseteq Above(f, perhaps)
    <3> SUFFICES ASSUME NEW d \in W, f \in Below(d) PROVE d \in Above(f, perhaps)
      BY DEF Walked
    <3>1. PICK i \in 1 .. Len(Paths) : d = PlaceToPack(i) /\ (Paths[i] \in changed \/ Exists(Paths[i]))
      BY <1>1, <1>2 DEF RightArchive
    <3>2. Paths[i] \in perhaps
      BY <1>3, <3>1
    <3> QED
      BY <3>1, <3>2 DEF Above, PlaceToPack
  <2>4. IsFiniteSet(Above(f, perhaps)) /\ IsFiniteSet(Walked(W, f))
    <3>1. Above(f, perhaps) \subseteq Dirs
      <4>1. ASSUME NEW p \in ToSet(Paths) PROVE (IF p \in Dirs THEN p ELSE DirOf(p)) \in Dirs
        BY <1>3, FlareFacts DEF PlaceToPack
      <4> QED
        BY <4>1 DEF Above
    <3>2. Walked(W, f) \subseteq Dirs
      BY DEF Walked
    <3> QED
      BY <3>1, <3>2, FlareAssumption, FS_Subset
  <2>5. /\ Cardinality(Above(f, sure)) <= Cardinality(Walked(W, f))
        /\ Cardinality(Walked(W, f)) <= Cardinality(Above(f, perhaps))
    BY <2>2, <2>3, <2>4, FS_Subset
  <2> QED
    BY <1>5, <2>1, <2>5
<1>6. CASE ~(There(f) /\ f \notin Unreadable)
  <2>1. packed[f] = <<>>
    BY <1>1, <1>6 DEF RightArchive
  <2> QED
    BY <1>6, <2>1
<1> QED
  BY <1>5, <1>6

\* For any tree of directories and any places, whatever others do to the files during the
\* command: a closed archive has every file that stayed, once for each configured place above
\* it, nothing is sent without consent, and the archive is there until the intake has it.
THEOREM FlareInvHolds == FlareSpec => []FlareInv
<1>1. FlareInductive => FlareInv
  BY ClosedIsComplete DEF FlareInductive, StepKnows, FlareInv
<1> QED
  BY <1>1, FlareInitially, FlareMoves, PTL DEF FlareSpec
=============================================================================
