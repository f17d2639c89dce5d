---------------------------- MODULE MCAgentConfig ----------------------------
(***************************************************************************)
(* Two search paths and a directory of the user's own; files that are      *)
(* empty, have an empty section, a part of one, or none; every subset of   *)
(* the options in the environment.                                         *)
(***************************************************************************)
EXTENDS AgentConfig, TLC

Port == <<"dogstatsd", "port">>

TheDefaults ==
    ConfPath :> Yaml("etc") @@ CollectionInterval :> Yaml("15") @@ Expiry :> Yaml("300")
        @@ Enabled :> Yaml("false") @@ Port :> Yaml("8125")

SomeFiles ==
    {None,
     Top :> ("min_collection_interval" :> Yaml("30")),
     Top :> <<>> @@ "dogstatsd" :> None,
     Top :> ("conf_path" :> Yaml("own")) @@ "dogstatsd" :> ("port" :> Yaml("8126") @@ "enable" :> Yaml("true"))}

Texts == [{ConfPath} -> {"own", "etc", ""}] \cup [{} -> {""}]
SomeIntervals == [{CollectionInterval} -> {"20"}] \cup [{Expiry, CollectionInterval} -> {"20"}] \cup [{} -> {""}]
Flags == [{Enabled} -> {"true", "false"}] \cup [{Port} -> {"9125"}] \cup [{} -> {""}]
SomeEnvironments == {a @@ b @@ c : a \in Texts, b \in SomeIntervals, c \in Flags}

TwoPaths == <<"etc", "opt">>
ThreeDirs == {"etc", "opt", "own"}
==============================================================================
