------------------------------ MODULE Pipeline ------------------------------
(***************************************************************************)
(* The way of what a check submits through the agent: the thread of the    *)
(* AgentRunner (Collector) runs the checks, which submit to the aggregator *)
(* while they run; at the end of its turn the Serializer takes it out and  *)
(* hands three payloads to the forwarder, one after the other.  The        *)
(* forwarder also gets the metadata and the payloads of dogstatsd, and is  *)
(* taken by its promise, Delivery, which Forwarder implements.             *)
(***************************************************************************)
EXTENDS Collector, Serializer

CONSTANTS
    Transactions,  \* bound: payloads of one run
    Final,         \* bound: how they may end
    MaxCopies      \* bound: copies are not counted beyond it

VARIABLES
    fate, copies, \* the forwarder, as Delivery sees it
    parcel,       \* what is in each payload
    sent,         \* how many payloads serialize_and_push has submitted
    given     \* history: the items that checks have submitted

deliveryVars == <<fate, copies, parcel>>
pipelineVars == <<collectorVars, serializerVars, deliveryVars, sent, given>>

Forwarder == INSTANCE Delivery

PipelineInit ==
    /\ CollectorInit
    /\ SerializerInit /\ ~dogstatsd
    /\ Forwarder!Init
    /\ parcel = [t \in Transactions |-> {}]
    /\ sent = 0
    /\ given = {}

\* A payload with the items S in it is submitted.
Hand(S) ==
    \E t \in Transactions :
        /\ Forwarder!Submit(t)
        /\ parcel' = [parcel EXCEPT ![t] = S]

\* The turn of the thread where it neither submits nor pushes.
TurnGoesOn ==
    /\ \/ NoMetadata \/ Publish \/ Sleep
       \/ \E d \in Durations : MetadataFails(d)
       \/ \E c \in Instances : Skip(c) \/ RunSome(c)
    /\ UNCHANGED <<serializerVars, deliveryVars, sent, given>>

\* submit_metadata
SendMetadata ==
    /\ \E d \in Durations : Metadata(d)
    /\ Hand({})
    /\ UNCHANGED <<serializerVars, sent, given>>

\* A check that runs submits an item; the run may fail after it.
CheckRuns ==
    /\ \E c \in Instances : AtCheck(c) /\ Due(c)
    /\ \E i \in Items \ given, v \in Contents :
          /\ CheckSubmits(i, v)
          /\ given' = given \cup {i}
    /\ UNCHANGED <<collectorVars, deliveryVars, sent>>

\* serialize_and_push takes a kind out of the aggregator, sums up the count of the
\* events, or encodes the kind.
Serialize ==
    /\ pc = "push"
    /\ Encoded \/ (\E k \in Kinds : Flush(k)) \/ AddToTotal \/ ResetCount
    /\ UNCHANGED <<collectorVars, deliveryVars, sent, given>>

\* Mutant: each payload is submitted as soon as it is encoded.
SubmitAtOnce ==
    /\ pc = "push" /\ ~encoding /\ sent < stage
    /\ Hand(flushed[KindOrder[sent + 1]])
    /\ sent' = sent + 1
    /\ UNCHANGED <<collectorVars, serializerVars, given>>

\* It submits the next of the three payloads, empty or not.
SubmitPayload ==
    /\ pc = "push" /\ stage = 3 /\ ~encoding /\ sent < 3
    /\ Hand(flushed[KindOrder[sent + 1]])
    /\ sent' = sent + 1
    /\ UNCHANGED <<collectorVars, serializerVars, given>>

\* It returns, or raises.
EndPush ==
    /\ (sent = 3 /\ PushPayloads) \/ Fails
    /\ \E d \in Durations : Push(d)
    /\ sent' = 0
    /\ UNCHANGED <<deliveryVars, given>>

\* The Reporter of dogstatsd submits to the same forwarder.
ReporterSubmits ==
    /\ Hand({})
    /\ UNCHANGED <<collectorVars, serializerVars, sent, given>>

\* A payload with something in it is POSTed or dropped.
ForwarderWorks ==
    /\ \/ \E t \in Transactions, taken \in BOOLEAN,
             end \in Final \cup {"live"} :
             parcel[t] # {} /\ Forwarder!Attempt(t, taken, end)
       \/ \E S \in SUBSET {t \in Transactions : parcel[t] # {}},
             why \in Final \ {"accepted"} : Forwarder!Drop(S, why)
    /\ UNCHANGED <<collectorVars, serializerVars, parcel, sent, given>>

PipelineNext ==
    \/ TurnGoesOn \/ SendMetadata \/ CheckRuns
    \/ Serialize \/ SubmitPayload \/ EndPush
    \/ ReporterSubmits \/ ForwarderWorks

PipelineSpec == PipelineInit /\ [][PipelineNext]_pipelineVars

-----------------------------------------------------------------------------
\* Where an item is, as Passage sees it.
Place(i) ==
    LET carriers == {t \in Transactions : i \in parcel[t]}
    IN  CASE \E t \in carriers : fate[t] = "live" -> "travelling"
          [] carriers # {} /\ \A t \in carriers : fate[t] # "live" -> "ended"
          [] carriers = {} /\ content[i] # "unused" -> "waiting"
          [] carriers = {} /\ content[i] = "unused" ->
                IF i \in given THEN "lost" ELSE "outside"

PlaceOf == [i \in Items |-> Place(i)]

\* The items that wait and may have no encoding.
Spoiled == {i \in Items : Place(i) = "waiting" /\ content[i] \in {"object", "map"}}

\* End to end, an item keeps the promise of Passage: it leaves in one payload with
\* the others of its kind, in the turn in which it was submitted or a later one; a turn
\* sends three payloads or none; and only a value without encoding makes one lose items.
PassageOf == INSTANCE Passage WITH
    Order <- KindOrder,
    place <- PlaceOf,
    spoiled <- Spoiled,
    left <- sent
ImplementsPassage == PassageOf!Spec
=============================================================================
