---------------------------- MODULE MCCollection ----------------------------
(***************************************************************************)
(* Four views of the collection thread, side by side: when it runs which   *)
(* check, what its push takes out of the aggregator, with dogstatsd's      *)
(* threads as a second case, what the status page shows of it, and what it *)
(* says of the host.  They share no state here, so a behaviour is one of   *)
(* them, chosen by part, while the others rest.                            *)
(*                                                                         *)
(* Three checks, one due at every turn, one at every second, one at every  *)
(* third at the earliest, and turns that take 2 to 12 seconds.  A metric,  *)
(* two service checks and an event at a time, which is enough for a batch  *)
(* to hold a value that can be encoded beside one that cannot, and for     *)
(* each kind to wait while another fails.  A page of a named and an        *)
(* unnamed instance that is built at any moment of two turns or more.      *)
(* Machines of each kind, with two interfaces, for two metadata payloads   *)
(* and two turns that fail.                                                *)
(***************************************************************************)
EXTENDS Collector, Serializer, StatusPage, Inventory, TLC

CONSTANTS
    fast, medium, slow,
    metric, check1, check2, event,
    plain, named

ThreeChecks == <<fast, medium, slow>>
TheirIntervals == fast :> 2 @@ medium :> 3 @@ slow :> 6
FourItems == {metric, check1, check2, event}
TheirKinds == metric :> "metrics" @@ check1 :> "service_checks"
                  @@ check2 :> "service_checks" @@ event :> "events"

TheMachines ==
    {m \in [os : {"aix", "linux", "other"}, dist : BOOLEAN, name : {"valid", "invalid", "none"},
            gohai : BOOLEAN, tags : BOOLEAN] :
        /\ m.os = "linux" \/ m.dist
        /\ m.tags \/ m.name = "valid"}

\* A loopback is known by its name or by an address; a macaddress is seldom missing; and
\* an interface that is listed has an address of some kind.
TheInterfaces ==
    {i \in [loopback : BOOLEAN, ipv4 : BOOLEAN, ipv6 : BOOLEAN,
            mac : {"known", "entstat", "none"}] :
        /\ i.loopback => i.ipv4 /\ i.ipv6
        /\ i.ipv4 \/ i.ipv6 \/ i.mac # "none"
        /\ i.mac # "known" => ~i.loopback /\ ~i.ipv6}

VARIABLE part

collectionVars == <<part, collectorVars, serializerVars, pageVars, inventoryVars>>

CollectorRests == since = Interval /\ CollectorInit
SerializerRests == dogstatsd = FALSE /\ SerializerInit
PageRests == PageInit
InventoryRests ==
    machine = (CHOOSE m \in TheMachines : TRUE) /\ InventoryInit

Init ==
    \/ part = "collector" /\ CollectorInit /\ SerializerRests /\ PageRests /\ InventoryRests
    \/ part = "serializer" /\ SerializerInit /\ CollectorRests /\ PageRests /\ InventoryRests
    \/ part = "page" /\ PageInit /\ CollectorRests /\ SerializerRests /\ InventoryRests
    \/ part = "inventory" /\ InventoryInit /\ CollectorRests /\ SerializerRests /\ PageRests

CollectorProceeds ==
    /\ part = "collector" /\ CollectorNext
    /\ UNCHANGED <<part, serializerVars, pageVars, inventoryVars>>
SerializerProceeds(action) ==
    /\ part = "serializer" /\ action
    /\ UNCHANGED <<part, collectorVars, pageVars, inventoryVars>>
PageProceeds ==
    /\ part = "page" /\ PageNext
    /\ UNCHANGED <<part, collectorVars, serializerVars, inventoryVars>>
InventoryProceeds ==
    /\ part = "inventory" /\ InventoryNext
    /\ UNCHANGED <<part, collectorVars, serializerVars, pageVars>>

Next ==
    \/ CollectorProceeds \/ SerializerProceeds(SerializerNext) \/ PageProceeds
    \/ InventoryProceeds

\* SerializerFairness where the serializer runs.
Fairness ==
    /\ WF_collectionVars(SerializerProceeds(SerializerTurn))
    /\ WF_collectionVars(SerializerProceeds(PacketGoesOn))

Spec == Init /\ [][Next]_collectionVars /\ Fairness
=============================================================================
