------------------------------ MODULE MCStartup ------------------------------
(***************************************************************************)
(* What the agent does before its first collection, side by side: it reads *)
(* its configuration, then that of its checks, then it loads them.  Each   *)
(* ends before the next begins and they share no state, so a behaviour is  *)
(* one of them, chosen by part, while the others rest.                     *)
(*                                                                         *)
(* The files of the checks: a check with two files of the user's and a     *)
(* default, and a file outside of a *.d directory; lists that grow, shrink *)
(* and move an instance.                                                   *)
(***************************************************************************)
EXTENDS MCAgentConfig, ConfigFiles, MCCheckLoading

CONSTANTS flat, conf, default, stray

FourFiles == {flat, conf, default, stray}
TheirNames == [f \in FourFiles |-> IF f = stray THEN None ELSE "cpu"]
TheDefault == {default}
Lists == {<<>>, <<"a">>, <<"b", "a">>}
Orders == {<<flat, conf, default, stray>>, <<default, stray, conf, flat>>}

VARIABLE part

allVars == <<part, configVars, filesVars, loadingVars>>

SomeEnvironment == CHOOSE e \in Environments : TRUE
SomeSurrounding == CHOOSE s \in Surroundings : TRUE

ConfigRests ==
    /\ disk = [d \in Dirs |-> NoFile]
    /\ env = SomeEnvironment
    /\ ConfigInit

FilesRest ==
    /\ kind = [f \in Files |-> "gone"]
    /\ instances = [f \in Files |-> <<>>]
    /\ FilesInit

LoadingRests == LoadingBegins(SomeSurrounding)

Init ==
    \/ part = "config" /\ ConfigInit /\ FilesRest /\ LoadingRests
    \/ part = "files" /\ FilesInit /\ ConfigRests /\ LoadingRests
    \/ part = "loading" /\ LoadingInit /\ ConfigRests /\ FilesRest

ConfigStep == part = "config" /\ ConfigNext /\ UNCHANGED <<part, filesVars, loadingVars>>
FilesStep == part = "files" /\ FilesNext /\ UNCHANGED <<part, configVars, loadingVars>>
LoadingStep == part = "loading" /\ LoadingNext /\ UNCHANGED <<part, configVars, filesVars>>

Next == ConfigStep \/ FilesStep \/ LoadingStep

Spec == Init /\ [][Next]_allVars
==============================================================================
