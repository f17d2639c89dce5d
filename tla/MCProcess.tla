----------------------------- MODULE MCProcess -----------------------------
(***************************************************************************)
(* The agent's processes, side by side: those that share a pidfile, and    *)
(* the threads of one of them.  They share no state, so a behaviour is one *)
(* of the two, chosen by part, while the other rests.                      *)
(*                                                                         *)
(* Three processes: an agent that runs, a stop or a restart of it, and one *)
(* more command, in every combination; which process has which command     *)
(* makes no difference.  Two signals: one to stop the agent, and one at    *)
(* any time before or after it.                                            *)
(***************************************************************************)
EXTENDS Daemon, AgentLifecycle

CONSTANTS p1, p2, p3

ThreeProcesses == {p1, p2, p3}

\* Every combination of commands, up to a renaming of the processes.
Combinations ==
    LET rank == [start |-> 1, stop |-> 2, restart |-> 3] IN
    /\ rank[command[p1]] <= rank[command[p2]]
    /\ rank[command[p2]] <= rank[command[p3]]

VARIABLE part

processVars == <<part, daemonVars, lifecycleVars>>

DaemonRests == command = [p \in Processes |-> "start"] /\ DaemonInit

LifecycleRests == dsd_enable = FALSE /\ LifecycleInit

Init ==
    \/ part = "daemon" /\ DaemonInit /\ Combinations /\ LifecycleRests
    \/ part = "lifecycle" /\ LifecycleInit /\ DaemonRests

Next ==
    /\ UNCHANGED part
    /\ \/ part = "daemon" /\ DaemonNext /\ UNCHANGED lifecycleVars
       \/ part = "lifecycle" /\ LifecycleNext /\ UNCHANGED daemonVars

DaemonProceeds(action) == part = "daemon" /\ action /\ UNCHANGED <<part, lifecycleVars>>
LifecycleProceeds(action) == part = "lifecycle" /\ action /\ UNCHANGED <<part, daemonVars>>

\* DaemonFairness where the daemon runs, LifecycleFairness where the agent does.
Fairness ==
    /\ \A p \in Processes :
        /\ WF_processVars(DaemonProceeds(Commands(p)))
        /\ WF_processVars(DaemonProceeds(p \in heeded /\ RunEnds(p)))
    /\ WF_processVars(LifecycleProceeds(Main)) /\ WF_processVars(LifecycleProceeds(Handler))
    /\ WF_processVars(LifecycleProceeds(Runner)) /\ WF_processVars(LifecycleProceeds(WorkersEnd))
    /\ WF_processVars(LifecycleProceeds(Api)) /\ WF_processVars(LifecycleProceeds(Reporter))
    /\ WF_processVars(LifecycleProceeds(Dsd))

Spec == Init /\ [][Next]_processVars /\ Fairness
=============================================================================
