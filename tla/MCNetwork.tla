------------------------------ MODULE MCNetwork ------------------------------
(***************************************************************************)
(* What crosses the agent's borders, side by side: the datagrams that      *)
(* dogstatsd receives, the requests that the agent's threads send, and the *)
(* archive that the flare command packs and uploads.  They share no state, *)
(* so a behaviour is one of them, chosen by part, while the others rest.   *)
(*                                                                         *)
(* The requests: hosts above, at and below a rule's name, an address and   *)
(* the local host; every place where rules and proxies may be set, and one *)
(* setting with every kind of payload.                                     *)
(*                                                                         *)
(* The archive: the default places, where that of additional checks is     *)
(* inside that of the configuration and both logs are in one directory,    *)
(* with a file in each, and the log the agent rotates.                     *)
(***************************************************************************)
EXTENDS MCDogstatsd, HttpRequests, Flare

Dd == <<"com", "dd">>
Intake == <<"com", "dd", "intake">>
Local == <<"localhost">>
Address == <<"10.0.0.1">>
SomeHosts == {Dd, Intake, Local, Address}

Plain(n) == [form |-> "plain", name |-> n]
Dotted(n) == [form |-> "dotted", name |-> n]
Net(hs) == [form |-> "net", hosts |-> hs]
Skip == <<Plain(Local), Net({<<"127.0.0.1">>})>>

Both(v) == [http |-> v, https |-> v]
MixedProxies == [http |-> None, https |-> "own"]

Proxies == {<<None, "yaml", "os">>, <<"dd", "yaml", None>>, <<None, None, "os">>}
DdRules == {None, <<Plain(Intake)>>}
YamlRules == {None, <<>>, <<Dotted(Dd)>>, <<[form |-> "literal", rules |-> <<Plain(Dd), Star>>]>>}
EnvRules == {<<>>, <<Star>>, <<Net({Address}), Plain(Local)>>}

SomeSettings ==
    {[dd |-> [http |-> None, https |-> p[1]], yaml |-> Both(p[2]), os |-> Both(p[3]),
      dd_no_proxy |-> d, yaml_no_proxy |-> y, no_proxy |-> e, NO_PROXY |-> u,
      payloads |-> {[type |-> "str", smaller |-> TRUE]}] :
        p \in Proxies, d \in DdRules, y \in YamlRules, e \in EnvRules, u \in {<<>>, <<Plain(Dd)>>}}

SomePayloads ==
    {[type |-> "str", smaller |-> TRUE], [type |-> "dict", smaller |-> FALSE],
     [type |-> "none", smaller |-> TRUE]}

AllPayloads ==
    [dd |-> Both(None), yaml |-> MixedProxies, os |-> Both(None), dd_no_proxy |-> None,
     yaml_no_proxy |-> <<Dotted(Dd)>>, no_proxy |-> <<>>, NO_PROXY |-> <<>>,
     payloads |-> SomePayloads]

NoProxies ==
    [AllPayloads EXCEPT !.yaml = Both(None), !.payloads = {[type |-> "str", smaller |-> TRUE]}]

TheSettings == SomeSettings \cup {AllPayloads, NoProxies}

CONSTANTS yaml, image, check, agentLog, agentLog1, etc, checksd, logs

SomeFilesIn == etc :> {yaml, image} @@ checksd :> {check} @@ logs :> {agentLog, agentLog1}
TheirSubdirs == etc :> <<checksd>> @@ checksd :> <<>> @@ logs :> <<>>
ThePaths == <<etc, yaml, agentLog, checksd>>

VARIABLE part

networkVars == <<part, dogstatsdVars, httpVars, flareVars>>

DogstatsdRests == traffic = "lines" /\ DogstatsdInit
HttpRests == settings = AllPayloads /\ HttpInit
FlareRests == version = [f \in Files |-> 1] /\ FlareInit

Init ==
    \/ part = "dogstatsd" /\ DogstatsdInit /\ HttpRests /\ FlareRests
    \/ part = "http" /\ HttpInit /\ DogstatsdRests /\ FlareRests
    \/ part = "flare" /\ FlareInit /\ DogstatsdRests /\ HttpRests

Next ==
    /\ UNCHANGED part
    /\ \/ part = "dogstatsd" /\ DogstatsdNext /\ UNCHANGED <<httpVars, flareVars>>
       \/ part = "http" /\ HttpNext /\ UNCHANGED <<dogstatsdVars, flareVars>>
       \/ part = "flare" /\ FlareNext /\ UNCHANGED <<dogstatsdVars, httpVars>>

Spec == Init /\ [][Next]_networkVars
==============================================================================
