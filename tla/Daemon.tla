------------------------------- MODULE Daemon -------------------------------
(***************************************************************************)
(* utils/daemon.py: agent.py processes that share a pidfile.  Each process *)
(* was given one command, start, stop or restart, and its accesses to the  *)
(* pidfile and to other processes fall between those of the others.        *)
(*                                                                         *)
(* A process is its pid, and pids are not used again.  The processes that  *)
(* daemonize forks are the one that runs.  An agent that was sent SIGTERM  *)
(* runs on until its threads have ended, and for ever when its API was not *)
(* up yet: AgentLifecycle has both.                                        *)
(***************************************************************************)
EXTENDS Naturals, FiniteSets

CONSTANTS
    Processes,
    Absent,    \* there is no pidfile
    Empty,     \* the pidfile is open for writing, and empty
    None       \* pid() returns None

ASSUME DaemonAssumption ==
    /\ {Absent, Empty, None} \cap Processes = {}
    /\ Absent # Empty

VARIABLES
    command,  \* the command each process was given
    at,       \* where each process is
    pidfile,  \* its content, Absent or Empty
    unlinked, \* processes that write to a pidfile that was removed meanwhile
    pid,      \* what each process has read from the pidfile
    up,       \* the agents that run and whose APIServer has its loop, or has failed
    signaled, \* the agents that run and were sent SIGTERM
    heeded,   \* those that were sent one after they were up
    overlap   \* history: a command did not wait for another, or for an agent to end

agents == <<up, signaled, heeded>>
daemonVars == <<command, at, pidfile, unlinked, pid, agents, overlap>>

Running == {p \in Processes : at[p] = "run"}
Alive(p) == at[p] \notin {"new", "gone"}

\* Another command than p's is under way, or an agent is about to end.
Busy(p) == \E q \in Processes \ {p} : Alive(q) /\ (at[q] = "run" => q \in signaled)

Goto(p, place) == at' = [at EXCEPT ![p] = place]
Advances(p, from, to) == at[p] = from /\ Goto(p, to)

\* pid(): a file that is absent or empty has none.
ReadPid(p) == pid' = [pid EXCEPT ![p] = IF pidfile \in Processes THEN pidfile ELSE None]

\* Mutant: any pid in the pidfile is taken for a dead process.
NotMyProcess(p) == FALSE

\* is_my_process(pid): the processes here all run agent.py.
IsMyProcess(p) == pid[p] # None /\ Alive(pid[p])

\* os.remove(self.pidfile): a process that has it open writes to no file.
RemovePidfile ==
    /\ pidfile' = Absent
    /\ unlinked' = unlinked \cup {p \in Processes : at[p] = "write"}

-----------------------------------------------------------------------------
DaemonInit ==
    /\ command \in [Processes -> {"start", "stop", "restart"}]
    /\ at = [p \in Processes |-> "new"]
    /\ pidfile = Absent
    /\ unlinked = {}
    /\ pid = [p \in Processes |-> None]
    /\ up = {} /\ signaled = {} /\ heeded = {}
    /\ overlap = FALSE

\* Somebody runs agent.py.
Begin(p) ==
    /\ Advances(p, "new", IF command[p] = "start" THEN "start" ELSE "stop")
    /\ overlap' = (overlap \/ Busy(p))
    /\ UNCHANGED <<command, pidfile, unlinked, pid, agents>>

(***************************************************************************)
(* start and write_pidfile.                                                *)
(***************************************************************************)

\* A restart gets here as soon as it has sent its signal.
Start(p) ==
    /\ Advances(p, "start", "check")
    /\ ReadPid(p)
    /\ overlap' = (overlap \/ Busy(p))
    /\ UNCHANGED <<command, pidfile, unlinked, agents>>

\* "Not starting, another instance is already running", or daemonize().
Check(p) ==
    /\ Advances(p, "check", IF IsMyProcess(p) THEN "gone" ELSE "open")
    /\ UNCHANGED <<command, pidfile, unlinked, pid, agents, overlap>>

\* open(self.pidfile, 'w+') truncates the file.
Open(p) ==
    /\ Advances(p, "open", "write")
    /\ pidfile' = Empty
    /\ UNCHANGED <<command, unlinked, pid, agents, overlap>>

Write(p) ==
    /\ Advances(p, "write", "chmod")
    /\ pidfile' = IF p \in unlinked THEN pidfile ELSE p
    /\ UNCHANGED <<command, unlinked, pid, agents, overlap>>

\* os.chmod fails, and the process exits, when there is no file.
Chmod(p) ==
    /\ Advances(p, "chmod", IF pidfile = Absent THEN "delpid" ELSE "run")
    /\ UNCHANGED <<command, pidfile, unlinked, pid, agents, overlap>>

\* An agent that runs no more is in none of the sets of agents.
Leaves(p, place) ==
    /\ Advances(p, "run", place)
    /\ up' = up \ {p} /\ signaled' = signaled \ {p} /\ heeded' = heeded \ {p}
    /\ UNCHANGED <<command, pidfile, unlinked, pid, overlap>>

\* Mutant: an agent takes no notice of SIGTERM.
IgnoresSignal(p) == p \notin signaled /\ Leaves(p, "delpid")

\* Agent.run ends when it was told to, or calls sys.exit itself.
RunEnds(p) == Leaves(p, "delpid")

\* The API's thread has its loop, or has failed to listen: from here on a signal
\* finds every component as its stop() expects it.
ApiUp(p) ==
    /\ at[p] = "run" /\ p \notin up
    /\ up' = up \cup {p}
    /\ UNCHANGED <<command, at, pidfile, unlinked, pid, signaled, heeded, overlap>>

\* The process dies without its exit handlers.
Crash(p) == Leaves(p, "gone")

\* atexit: delpid removes the pidfile, whatever is in it.
Delpid(p) ==
    /\ Advances(p, "delpid", "gone")
    /\ RemovePidfile
    /\ UNCHANGED <<command, pid, agents, overlap>>

(***************************************************************************)
(* stop, with which restart begins.                                        *)
(***************************************************************************)

\* After stop() a restart calls start().
Stopped(p) == IF command[p] = "restart" THEN "start" ELSE "gone"

Stop(p) ==
    /\ Advances(p, "stop", "exists")
    /\ ReadPid(p)
    /\ UNCHANGED <<command, pidfile, unlinked, agents, overlap>>

Exists(p) ==
    /\ Advances(p, "exists", IF pidfile = Absent THEN "kill" ELSE "remove")
    /\ UNCHANGED <<command, pidfile, unlinked, pid, agents, overlap>>

\* os.remove: the error of a file that is gone by now ends the process.
Remove(p) ==
    /\ Advances(p, "remove", IF pidfile = Absent THEN "gone" ELSE "kill")
    /\ RemovePidfile
    /\ UNCHANGED <<command, pid, agents, overlap>>

\* os.kill(pid, SIGTERM).  A process that has not got to its signal handlers
\* dies at once.  One whose API is not up may go on without its other threads,
\* and one whose threads have ended takes no notice.
Kill(p) ==
    LET q == pid[p] IN
    /\ at[p] = "kill"
    /\ q # None
    /\ \/ /\ at[q] = "run"
          /\ signaled' = signaled \cup {q}
          /\ heeded' = heeded \cup ({q} \cap up)
          /\ Goto(p, Stopped(p))
       \/ /\ at[q] \in {"chmod", "run"} /\ q \notin up
          /\ at' = [at EXCEPT ![p] = Stopped(p), ![q] = "gone"]
          /\ signaled' = signaled \ {q} /\ UNCHANGED heeded
       \/ /\ at[q] \notin {"chmod", "run"}
          /\ Goto(p, Stopped(p))
          /\ UNCHANGED <<signaled, heeded>>
    /\ UNCHANGED <<command, pidfile, unlinked, pid, up, overlap>>

\* No pid: "Not running?", and the pidfile is looked for once more.
NotRunning(p) ==
    /\ pid[p] = None
    /\ Advances(p, "kill", IF pidfile = Absent THEN Stopped(p) ELSE "remove_again")
    /\ UNCHANGED <<command, pidfile, unlinked, pid, agents, overlap>>

RemoveAgain(p) ==
    /\ Advances(p, "remove_again", IF pidfile = Absent THEN "gone" ELSE Stopped(p))
    /\ RemovePidfile
    /\ UNCHANGED <<command, pid, agents, overlap>>

Commands(p) ==
    \/ Start(p) \/ Check(p) \/ Open(p) \/ Write(p) \/ Chmod(p) \/ Delpid(p)
    \/ Stop(p) \/ Exists(p) \/ Remove(p) \/ Kill(p) \/ NotRunning(p) \/ RemoveAgain(p)

DaemonNext == \E p \in Processes : Begin(p) \/ Commands(p) \/ ApiUp(p) \/ RunEnds(p) \/ Crash(p)

DaemonSpec == DaemonInit /\ [][DaemonNext]_daemonVars

\* A process that has begun goes on.  An agent that was sent SIGTERM once it was up
\* ends: SignalEndsAgent of AgentLifecycle.  Of any other agent nothing is assumed.
DaemonFairness ==
    \A p \in Processes :
        WF_daemonVars(Commands(p)) /\ WF_daemonVars(p \in heeded /\ RunEnds(p))

DaemonFairSpec == DaemonSpec /\ DaemonFairness

-----------------------------------------------------------------------------
DaemonTypeOK ==
    /\ command \in [Processes -> {"start", "stop", "restart"}]
    /\ at \in [Processes -> {"new", "start", "check", "open", "write", "chmod", "run",
                             "delpid", "stop", "exists", "remove", "kill",
                             "remove_again", "gone"}]
    /\ pidfile \in Processes \cup {Absent, Empty}
    /\ unlinked \subseteq Processes
    /\ pid \in [Processes -> Processes \cup {None}]
    /\ up \subseteq Processes /\ signaled \subseteq Processes
    /\ heeded \subseteq signaled \cap up
    /\ overlap \in BOOLEAN

\* A stop has removed the pidfile and is about to signal p.
AboutToKill(p) == \E q \in Processes : at[q] = "kill" /\ pid[q] = p

\* As long as every start waits for the command before it, and for the agent that
\* one has stopped, there is one agent and the pidfile names it until it is
\* stopped, stale pidfiles of crashed agents included.
OneAtATime ==
    ~overlap =>
        /\ Cardinality(Running) <= 1
        /\ \A p \in Running : p \in signaled \/ AboutToKill(p) \/ pidfile = p

\* A stop that has read the pid of an agent whose API is up ends it, if it is not
\* disturbed.
StopEndsAgent ==
    \A q \in Processes :
        (q \in up /\ \E p \in Processes : at[p] = "exists" /\ pid[p] = q)
            ~> (at[q] = "gone" \/ overlap)

\* "Not starting, another instance is already running": there is one instance.
OneInstance == Cardinality(Running) <= 1

\* The pidfile and the agents it stands for.
DaemonInv == DaemonTypeOK /\ OneAtATime
==============================================================================
