--------------------------- MODULE ProcessProofs ---------------------------
(***************************************************************************)
(* Proofs about the agent's processes.  Daemon: one agent at a time, and a *)
(* pidfile that names it, for any number of processes and any commands     *)
(* that wait for each other.  AgentLifecycle: how far the components are   *)
(* when a process leaves, for any number of signals.                       *)
(***************************************************************************)
EXTENDS Daemon, AgentLifecycle, FiniteSetTheorems, TLAPS

\* No process is one of the other values.
LEMMA NoProcess == Absent \notin Processes /\ Empty \notin Processes /\ None \notin Processes /\ Absent # Empty
BY DaemonAssumption

USE NoProcess

-----------------------------------------------------------------------------
(***************************************************************************)
(* The inductive invariant.                                                *)
(***************************************************************************)
\* The places of a command, and those from which an agent starts.
Command == {"start", "check", "open", "write", "chmod", "stop", "exists", "remove", "kill", "remove_again"}
Starting == {"open", "write", "chmod"}
Agents == {p \in Processes : at[p] \in {"run", "delpid"}}

\* The agents that no command has stopped.
Undisturbed == {p \in Processes : at[p] = "run" /\ p \notin signaled}

\* Only an agent that runs is up, or is sent a signal that it outlives.
SignaledRan == \A p \in up \cup signaled : at[p] = "run"

\* One command at a time, and one agent.
Alone ==
    \A p, q \in Processes :
        /\ at[p] \in Command /\ at[q] \in Command => p = q
        /\ p \in Agents /\ q \in Agents => p = q

\* A start that has passed the check finds no other process, and nobody removes its file.
StartsAlone ==
    /\ unlinked = {}
    /\ \A p \in Processes : at[p] = "chmod" => pidfile = p
    /\ \A p, q \in Processes : at[p] \in Starting /\ p # q => ~Alive(q)

\* The pidfile names the agent until a command that has read it is about to signal it.
Named == \A q \in Undisturbed : AboutToKill(q) \/ pidfile = q

\* What a command has read is the agent, so a start does not pass the check, and a stop
\* signals the right process.
HasRead ==
    \A p, q \in Processes :
        /\ at[p] = "check" /\ q \in Agents => pid[p] = q
        /\ at[p] \in {"exists", "remove", "kill"} /\ q \in Undisturbed => pid[p] = q
        /\ at[p] = "remove_again" => q \notin Undisturbed

Orderly == Alone /\ StartsAlone /\ Named /\ HasRead

Inductive == DaemonTypeOK /\ SignaledRan /\ (~overlap => Orderly)

\* Initially no process has begun.
LEMMA InitiallyInductive == DaemonInit => Inductive
<1> SUFFICES ASSUME DaemonInit PROVE Inductive
  OBVIOUS
<1>1. DaemonTypeOK /\ SignaledRan
  BY DEF DaemonInit, DaemonTypeOK, SignaledRan
<1>2. Orderly
  BY DEF DaemonInit, Orderly, Alone, StartsAlone, Named, HasRead, Undisturbed, Agents, Command, Starting
<1> QED
  BY <1>1, <1>2 DEF Inductive

-----------------------------------------------------------------------------
(***************************************************************************)
(* The steps, for a process p.                                             *)
(***************************************************************************)
\* A command that begins beside another one, or beside an agent that is about to end, overlaps.
LEMMA BeginStep ==
    ASSUME Inductive, NEW p \in Processes, Begin(p)
    PROVE  Inductive'
<1> USE DEF Inductive
<1>1. PICK place \in {"start", "stop"} : at' = [at EXCEPT ![p] = place]
  BY DEF Begin, Advances, Goto
<1>2. /\ at[p] = "new" /\ overlap' = (overlap \/ Busy(p))
      /\ UNCHANGED <<command, pidfile, unlinked, pid, up, signaled, heeded>>
  BY DEF agents, Begin, Advances
<1>3. DaemonTypeOK' /\ SignaledRan'
  BY <1>1, <1>2 DEF DaemonTypeOK, SignaledRan
<1>4. ASSUME ~overlap' PROVE Orderly'
  <2>1. Orderly /\ \A q \in Processes \ {p} : at[q] \notin Command /\ at[q] # "delpid"
    BY <1>2, <1>4 DEF Busy, Alive, Command
  <2>2. Agents' = Agents /\ Undisturbed' = Undisturbed
    BY <1>1, <1>2 DEF Agents, Undisturbed, DaemonTypeOK
  <2>3. Alone'
    BY <1>1, <2>1, <2>2 DEF Orderly, Alone, DaemonTypeOK
  <2>4. StartsAlone'
    BY <1>1, <1>2, <2>1 DEF Orderly, StartsAlone, Starting, Command, DaemonTypeOK
  <2>5. Named' /\ HasRead'
    BY <1>1, <1>2, <2>1, <2>2 DEF Orderly, Named, HasRead, AboutToKill, DaemonTypeOK
  <2> QED
    BY <2>3, <2>4, <2>5 DEF Orderly
<1> QED
  BY <1>3, <1>4

\* A start that does not overlap finds at most one agent, and the pidfile names it.
LEMMA StartStep ==
    ASSUME Inductive, NEW p \in Processes, Start(p)
    PROVE  Inductive'
<1> USE DEF Inductive
<1>1. /\ at[p] = "start" /\ at' = [at EXCEPT ![p] = "check"]
      /\ pid' = [pid EXCEPT ![p] = IF pidfile \in Processes THEN pidfile ELSE None]
      /\ overlap' = (overlap \/ Busy(p)) /\ UNCHANGED <<command, pidfile, unlinked, up, signaled, heeded>>
  BY DEF agents, Start, Advances, Goto, ReadPid
<1>2. DaemonTypeOK' /\ SignaledRan'
  BY <1>1 DEF DaemonTypeOK, SignaledRan
<1>3. ASSUME ~overlap' PROVE Orderly'
  <2>1. Orderly /\ \A q \in Processes \ {p} : at[q] \notin Command /\ (q \in Agents => q \in Undisturbed)
    BY <1>1, <1>3 DEF Busy, Alive, Command, Agents, Undisturbed
  <2>2. Agents' = Agents /\ Undisturbed' = Undisturbed /\ p \notin Agents
    BY <1>1 DEF Agents, Undisturbed, DaemonTypeOK
  <2>3. \A q \in Agents : pidfile = q
    <3> SUFFICES ASSUME NEW q \in Agents PROVE pidfile = q
      OBVIOUS
    <3>1. q \in Undisturbed
      BY <2>1, <2>2 DEF Agents
    <3>2. \A r \in Processes : at[r] # "kill"
      BY <1>1, <2>1 DEF Command
    <3> QED
      BY <2>1, <3>1, <3>2 DEF Orderly, Named, AboutToKill
  <2>4. Alone'
    BY <1>1, <2>1, <2>2 DEF Orderly, Alone, DaemonTypeOK
  <2>5. StartsAlone'
    BY <1>1, <2>1 DEF Orderly, StartsAlone, Starting, Command, DaemonTypeOK
  <2>6. Named'
    BY <1>1, <2>1, <2>2 DEF Orderly, Named, AboutToKill, DaemonTypeOK
  <2>7. HasRead'
    BY <1>1, <2>1, <2>2, <2>3 DEF Orderly, HasRead, Agents, Command, DaemonTypeOK
  <2> QED
    BY <2>4, <2>5, <2>6, <2>7 DEF Orderly
<1> QED
  BY <1>2, <1>3

\* It goes on only if there is none.
LEMMA CheckStep ==
    ASSUME Inductive, NEW p \in Processes, Check(p)
    PROVE  Inductive'
<1> USE DEF Inductive
<1>1. PICK place \in {"gone", "open"} :
        at' = [at EXCEPT ![p] = place] /\ (place = "open" => ~IsMyProcess(p))
  BY DEF Check, Advances, Goto
<1>2. at[p] = "check" /\ UNCHANGED <<command, pidfile, unlinked, pid, up, signaled, heeded, overlap>>
  BY DEF agents, Check, Advances
<1>3. DaemonTypeOK' /\ SignaledRan'
  BY <1>1, <1>2 DEF DaemonTypeOK, SignaledRan
<1>4. ASSUME ~overlap' PROVE Orderly'
  <2>1. Orderly /\ \A q \in Processes \ {p} : at[q] \notin Command
    BY <1>2, <1>4 DEF Orderly, Alone, Command
  <2>2. Agents' = Agents /\ Undisturbed' = Undisturbed
    BY <1>1, <1>2 DEF Agents, Undisturbed, DaemonTypeOK
  <2>3. place = "open" => \A q \in Processes : q # p => ~Alive(q)
    <3> SUFFICES ASSUME place = "open", NEW q \in Processes, q # p, Alive(q) PROVE FALSE
      OBVIOUS
    <3>1. q \in Agents
      BY <2>1 DEF Alive, Agents, Command, DaemonTypeOK
    <3> QED
      BY <1>1, <1>2, <2>1, <3>1 DEF Orderly, HasRead, IsMyProcess
  <2>4. Alone'
    BY <1>1, <2>1, <2>2 DEF Orderly, Alone, DaemonTypeOK
  <2>5. StartsAlone'
    BY <1>1, <1>2, <2>1, <2>3 DEF Orderly, StartsAlone, Starting, Command, Alive, DaemonTypeOK
  <2>6. Named' /\ HasRead'
    BY <1>1, <1>2, <2>1, <2>2 DEF Orderly, Named, HasRead, AboutToKill, DaemonTypeOK
  <2> QED
    BY <2>4, <2>5, <2>6 DEF Orderly
<1> QED
  BY <1>3, <1>4

\* What a start does to its file when it is alone.
LEMMA StartingStep ==
    ASSUME Inductive, NEW p \in Processes, at[p] \in Starting, NEW place \in Starting,
           at' = [at EXCEPT ![p] = place], pidfile' \in Processes \cup {Absent, Empty},
           ~overlap /\ place = "chmod" => pidfile' = p,
           UNCHANGED <<command, unlinked, pid, up, signaled, heeded, overlap>>
    PROVE  Inductive'
<1> USE DEF Inductive
<1>1. DaemonTypeOK' /\ SignaledRan'
  BY DEF DaemonTypeOK, SignaledRan, Starting
<1>2. ASSUME ~overlap' PROVE Orderly'
  <2>1. Orderly /\ \A q \in Processes : q # p => ~Alive(q)
    BY <1>2 DEF Orderly, StartsAlone
  <2>2. Agents' = {} /\ Undisturbed' = {}
    BY <2>1 DEF Agents, Undisturbed, Starting, Alive, DaemonTypeOK
  <2>3. Alone'
    BY <2>1, <2>2 DEF Alone, Alive, Command, DaemonTypeOK
  <2>4. StartsAlone'
    BY <1>2, <2>1 DEF Orderly, StartsAlone, Starting, Alive, DaemonTypeOK
  <2>5. Named' /\ HasRead'
    BY <2>2 DEF Named, HasRead
  <2> QED
    BY <2>3, <2>4, <2>5 DEF Orderly
<1> QED
  BY <1>1, <1>2

\* The file is opened, and written.
LEMMA OpenWriteStep ==
    ASSUME Inductive, NEW p \in Processes, Open(p) \/ Write(p)
    PROVE  Inductive'
<1>1. CASE Open(p)
  BY <1>1, StartingStep DEF agents, Open, Advances, Goto, Starting
<1>2. CASE Write(p)
  <2>1. at[p] = "write" /\ at' = [at EXCEPT ![p] = "chmod"]
    BY <1>2 DEF Write, Advances, Goto
  <2>2. ~overlap => pidfile' = p
    BY <1>2 DEF Write, Inductive, Orderly, StartsAlone
  <2>3. pidfile' \in Processes \cup {Absent, Empty}
    BY <1>2 DEF Write, Inductive, DaemonTypeOK
  <2>4. UNCHANGED <<command, unlinked, pid, up, signaled, heeded, overlap>>
    BY <1>2 DEF agents, Write
  <2> QED
    BY <2>1, <2>2, <2>3, <2>4, StartingStep DEF Starting
<1> QED
  BY <1>1, <1>2

\* With its file written a start becomes the agent that the file names.
LEMMA ChmodStep ==
    ASSUME Inductive, NEW p \in Processes, Chmod(p)
    PROVE  Inductive'
<1> USE DEF Inductive
<1>1. PICK place \in {"delpid", "run"} : at' = [at EXCEPT ![p] = place]
  BY DEF Chmod, Advances, Goto
<1>2. at[p] = "chmod" /\ UNCHANGED <<command, pidfile, unlinked, pid, up, signaled, heeded, overlap>>
  BY DEF agents, Chmod, Advances
<1>3. DaemonTypeOK' /\ SignaledRan'
  BY <1>1, <1>2 DEF DaemonTypeOK, SignaledRan
<1>4. ASSUME ~overlap' PROVE Orderly'
  <2>1. Orderly /\ pidfile = p /\ \A q \in Processes : q # p => ~Alive(q)
    BY <1>2, <1>4 DEF Orderly, StartsAlone, Starting
  <2>2. Agents' = {p} /\ Undisturbed' \subseteq {p}
    BY <1>1, <2>1 DEF Agents, Undisturbed, Alive, DaemonTypeOK
  <2>3. \A q \in Processes : at'[q] \notin Command
    BY <1>1, <2>1 DEF Alive, Command, DaemonTypeOK
  <2>4. Alone' /\ Named'
    BY <1>2, <2>1, <2>2, <2>3 DEF Alone, Named
  <2>5. StartsAlone' /\ HasRead'
    BY <1>2, <2>1, <2>3 DEF Orderly, StartsAlone, HasRead, Starting, Command
  <2> QED
    BY <2>4, <2>5 DEF Orderly
<1> QED
  BY <1>3, <1>4

\* An agent whose threads have ended is one still; one that crashed leaves the pidfile.
LEMMA AgentEndsStep ==
    ASSUME Inductive, NEW p \in Processes, RunEnds(p) \/ Crash(p)
    PROVE  Inductive'
<1> USE DEF Inductive
<1>1. PICK place \in {"delpid", "gone"} : at' = [at EXCEPT ![p] = place]
  BY DEF RunEnds, Crash, Leaves, Advances, Goto
<1>2. /\ at[p] = "run" /\ UNCHANGED <<command, pidfile, unlinked, pid, overlap>>
      /\ up' = up \ {p} /\ signaled' = signaled \ {p} /\ heeded' = heeded \ {p}
  BY DEF RunEnds, Crash, Leaves, Advances
<1>3. DaemonTypeOK' /\ SignaledRan'
  BY <1>1, <1>2 DEF DaemonTypeOK, SignaledRan
<1>4. ASSUME ~overlap' PROVE Orderly'
  <2>1. Orderly
    BY <1>2, <1>4
  <2>2. Agents' \subseteq Agents /\ Undisturbed' \subseteq Undisturbed
    BY <1>1, <1>2 DEF Agents, Undisturbed, DaemonTypeOK
  <2>3. \A q \in Processes : /\ at'[q] \in Command <=> at[q] \in Command
                             /\ at'[q] \in Command => at'[q] = at[q]
                             /\ at'[q] = "kill" <=> at[q] = "kill"
    BY <1>1, <1>2 DEF Command, DaemonTypeOK
  <2>4. Alone'
    BY <2>1, <2>2, <2>3 DEF Orderly, Alone
  <2>5. StartsAlone'
    BY <1>1, <1>2, <2>1 DEF Orderly, StartsAlone, Starting, Alive, DaemonTypeOK
  <2>6. Named'
    BY <1>2, <2>1, <2>2, <2>3 DEF Orderly, Named, AboutToKill
  <2>7. HasRead'
    BY <1>2, <2>1, <2>2, <2>3 DEF Orderly, HasRead, Command
  <2> QED
    BY <2>4, <2>5, <2>6, <2>7 DEF Orderly
<1> QED
  BY <1>3, <1>4

\* That its API is up changes nothing for the commands.
LEMMA ApiUpStep ==
    ASSUME Inductive, NEW p \in Processes, ApiUp(p)
    PROVE  Inductive'
<1> USE DEF Inductive
<1>1. /\ at[p] = "run" /\ up' = up \cup {p}
      /\ UNCHANGED <<command, at, pidfile, unlinked, pid, signaled, heeded, overlap>>
  BY DEF ApiUp
<1>2. DaemonTypeOK' /\ SignaledRan'
  BY <1>1 DEF DaemonTypeOK, SignaledRan
<1>3. (~overlap => Orderly)'
  BY <1>1 DEF Orderly, Alone, StartsAlone, Named, HasRead, AboutToKill, Agents, Undisturbed, Alive
<1> QED
  BY <1>2, <1>3

\* The agent that removes the pidfile is the only one.
LEMMA DelpidStep ==
    ASSUME Inductive, NEW p \in Processes, Delpid(p)
    PROVE  Inductive'
<1> USE DEF Inductive
<1>1. /\ at[p] = "delpid" /\ at' = [at EXCEPT ![p] = "gone"] /\ pidfile' = Absent
      /\ unlinked' = unlinked \cup {q \in Processes : at[q] = "write"}
      /\ UNCHANGED <<command, pid, up, signaled, heeded, overlap>>
  BY DEF agents, Delpid, Advances, Goto, RemovePidfile
<1>2. DaemonTypeOK' /\ SignaledRan'
  BY <1>1 DEF DaemonTypeOK, SignaledRan
<1>3. ASSUME ~overlap' PROVE Orderly'
  <2>1. Orderly /\ \A q \in Processes : q # p => q \notin Agents
    BY <1>1, <1>3 DEF Orderly, Alone, Agents
  <2>2. Agents' = {} /\ Undisturbed' = {}
    BY <1>1, <2>1 DEF Agents, Undisturbed, DaemonTypeOK
  <2>3. \A q \in Processes : at[q] \notin Starting
    BY <1>1, <2>1 DEF Orderly, StartsAlone, Alive, Starting
  <2>4. Alone'
    BY <1>1, <2>1, <2>2 DEF Orderly, Alone, Command, DaemonTypeOK
  <2>5. StartsAlone'
    BY <1>1, <2>1, <2>3 DEF Orderly, StartsAlone, Starting, DaemonTypeOK
  <2>6. Named' /\ HasRead'
    BY <2>2 DEF Named, HasRead
  <2> QED
    BY <2>4, <2>5, <2>6 DEF Orderly
<1> QED
  BY <1>2, <1>3

\* A stop reads the pid of the agent, if there is one.
LEMMA StopStep ==
    ASSUME Inductive, NEW p \in Processes, Stop(p)
    PROVE  Inductive'
<1> USE DEF Inductive
<1>1. /\ at[p] = "stop" /\ at' = [at EXCEPT ![p] = "exists"]
      /\ pid' = [pid EXCEPT ![p] = IF pidfile \in Processes THEN pidfile ELSE None]
      /\ UNCHANGED <<command, pidfile, unlinked, up, signaled, heeded, overlap>>
  BY DEF agents, Stop, Advances, Goto, ReadPid
<1>2. DaemonTypeOK' /\ SignaledRan'
  BY <1>1 DEF DaemonTypeOK, SignaledRan
<1>3. ASSUME ~overlap' PROVE Orderly'
  <2>1. Orderly /\ \A q \in Processes \ {p} : at[q] \notin Command
    BY <1>1, <1>3 DEF Orderly, Alone, Command
  <2>2. Agents' = Agents /\ Undisturbed' = Undisturbed
    BY <1>1 DEF Agents, Undisturbed, DaemonTypeOK
  <2>3. \A q \in Undisturbed : pidfile = q
    <3>1. \A r \in Processes : at[r] # "kill"
      BY <1>1, <2>1 DEF Command
    <3> QED
      BY <2>1, <3>1 DEF Orderly, Named, AboutToKill
  <2>4. Alone'
    BY <1>1, <2>1, <2>2 DEF Orderly, Alone, Command, DaemonTypeOK
  <2>5. StartsAlone'
    BY <1>1, <2>1 DEF Orderly, StartsAlone, Starting, Command, Alive, DaemonTypeOK
  <2>6. Named'
    BY <1>1, <2>2, <2>3 DEF Named
  <2>7. HasRead'
    BY <1>1, <2>1, <2>2, <2>3 DEF Orderly, HasRead, Command, Undisturbed, DaemonTypeOK
  <2> QED
    BY <2>4, <2>5, <2>6, <2>7 DEF Orderly
<1> QED
  BY <1>2, <1>3

\* What the steps of a stop have in common up to its signal: whatever becomes of the pidfile,
\* the agent it has read is the one there is.
LEMMA StoppingStep ==
    ASSUME Inductive, NEW p \in Processes, at[p] \in {"exists", "remove", "kill", "remove_again"},
           NEW place \in {"remove", "kill", "remove_again", "start", "gone"},
           at' = [at EXCEPT ![p] = place],
           \/ UNCHANGED <<pidfile, unlinked>>
           \/ /\ pidfile' = Absent
              /\ unlinked' = unlinked \cup {q \in Processes : at[q] = "write"},
           ~overlap => \/ Undisturbed = {}
                       \/ at[p] \in {"exists", "remove"} /\ place = "kill"
                       \/ at[p] = "exists" /\ place = "remove" /\ pidfile' = pidfile,
           UNCHANGED <<command, pid, up, signaled, heeded, overlap>>
    PROVE  Inductive'
<1> USE DEF Inductive
<1>1. DaemonTypeOK' /\ SignaledRan'
  BY DEF DaemonTypeOK, SignaledRan
<1>2. ASSUME ~overlap' PROVE Orderly'
  <2>1. Orderly /\ \A q \in Processes \ {p} : at[q] \notin Command
    BY <1>2 DEF Orderly, Alone, Command
  <2>2. Agents' = Agents /\ Undisturbed' = Undisturbed
    BY DEF Agents, Undisturbed, DaemonTypeOK
  <2>3. Alone'
    BY <2>1, <2>2 DEF Orderly, Alone, Command, DaemonTypeOK
  <2>4. StartsAlone'
    BY <2>1 DEF Orderly, StartsAlone, Starting, Command, Alive, DaemonTypeOK
  <2>5. CASE Undisturbed = {}
    <3>1. Named' /\ HasRead'
      BY <2>1, <2>2, <2>5 DEF Named, HasRead, Command, DaemonTypeOK
    <3> QED
      BY <2>3, <2>4, <3>1 DEF Orderly
  <2>6. CASE at[p] \in {"exists", "remove"} /\ place = "kill"
    <3>1. HasRead'
      BY <2>1, <2>2, <2>6 DEF Orderly, HasRead, Command, DaemonTypeOK
    <3>2. \A q \in Undisturbed : pid[p] = q
      BY <2>1, <2>6 DEF Orderly, HasRead, Undisturbed
    <3>3. Named'
      BY <2>2, <2>6, <3>2 DEF Named, AboutToKill, DaemonTypeOK
    <3> QED
      BY <2>3, <2>4, <3>1, <3>3 DEF Orderly
  <2>7. CASE at[p] = "exists" /\ place = "remove" /\ pidfile' = pidfile
    <3>1. HasRead'
      BY <2>1, <2>2, <2>7 DEF Orderly, HasRead, Command, DaemonTypeOK
    <3>2. Named'
      BY <2>1, <2>2, <2>7 DEF Orderly, Named, AboutToKill, DaemonTypeOK
    <3> QED
      BY <2>3, <2>4, <3>1, <3>2 DEF Orderly
  <2> QED
    BY <1>2, <2>5, <2>6, <2>7
<1> QED
  BY <1>1, <1>2

\* While a stop looks for the pidfile it is the only command, so nobody else may signal the agent.
LEMMA NamedByFile ==
    ASSUME Inductive, ~overlap, NEW p \in Processes, at[p] \in {"exists", "remove"},
           pidfile = Absent
    PROVE  Undisturbed = {}
<1>1. \A r \in Processes : at[r] # "kill"
  BY DEF Inductive, Orderly, Alone, Command
<1> QED
  BY <1>1 DEF Inductive, Orderly, Named, AboutToKill, Undisturbed

\* A stop looks for the file.
LEMMA ExistsStep ==
    ASSUME Inductive, NEW p \in Processes, Exists(p)
    PROVE  Inductive'
<1>1. PICK place \in {"kill", "remove"} : at' = [at EXCEPT ![p] = place]
  BY DEF Exists, Advances, Goto
<1>2. at[p] = "exists" /\ UNCHANGED <<command, pidfile, unlinked, pid, up, signaled, heeded, overlap>>
  BY DEF agents, Exists, Advances
<1> QED
  BY <1>1, <1>2, StoppingStep

\* It removes the file, unless that is gone by now.
LEMMA RemoveStep ==
    ASSUME Inductive, NEW p \in Processes, Remove(p)
    PROVE  Inductive'
<1>1. /\ at[p] = "remove" /\ at' = [at EXCEPT ![p] = IF pidfile = Absent THEN "gone" ELSE "kill"]
      /\ pidfile' = Absent /\ unlinked' = unlinked \cup {q \in Processes : at[q] = "write"}
      /\ UNCHANGED <<command, pid, up, signaled, heeded, overlap>>
  BY DEF agents, Remove, Advances, Goto, RemovePidfile
<1>2. CASE pidfile = Absent
  <2>1. ~overlap => Undisturbed = {}
    BY <1>1, <1>2, NamedByFile
  <2> QED
    BY <1>1, <1>2, <2>1, StoppingStep
<1>3. CASE pidfile # Absent
  BY <1>1, <1>3, StoppingStep
<1> QED
  BY <1>2, <1>3

\* Without a pid there is no agent to signal.
LEMMA NotRunningStep ==
    ASSUME Inductive, NEW p \in Processes, NotRunning(p)
    PROVE  Inductive'
<1>1. PICK place \in {"start", "gone", "remove_again"} : at' = [at EXCEPT ![p] = place]
  BY DEF NotRunning, Advances, Goto, Stopped
<1>2. /\ at[p] = "kill" /\ pid[p] = None
      /\ UNCHANGED <<command, pidfile, unlinked, pid, up, signaled, heeded, overlap>>
  BY DEF agents, NotRunning, Advances
<1>3. ~overlap => Undisturbed = {}
  BY <1>2 DEF Inductive, Orderly, HasRead, Undisturbed
<1> QED
  BY <1>1, <1>2, <1>3, StoppingStep

\* Nor one whose file it could remove.
LEMMA RemoveAgainStep ==
    ASSUME Inductive, NEW p \in Processes, RemoveAgain(p)
    PROVE  Inductive'
<1>1. PICK place \in {"start", "gone"} : at' = [at EXCEPT ![p] = place]
  BY DEF RemoveAgain, Advances, Goto, Stopped
<1>2. /\ at[p] = "remove_again" /\ pidfile' = Absent
      /\ unlinked' = unlinked \cup {q \in Processes : at[q] = "write"}
      /\ UNCHANGED <<command, pid, up, signaled, heeded, overlap>>
  BY DEF agents, RemoveAgain, Advances, RemovePidfile
<1>3. ~overlap => Undisturbed = {}
  BY <1>2 DEF Inductive, Orderly, HasRead, Undisturbed
<1> QED
  BY <1>1, <1>2, <1>3, StoppingStep

\* The signal goes to the agent that there is: it is ended, or told to.
LEMMA KillStep ==
    ASSUME Inductive, NEW p \in Processes, Kill(p)
    PROVE  Inductive'
<1> USE DEF Inductive
<1> DEFINE q == pid[p]
<1>1. /\ at[p] = "kill" /\ q \in Processes
      /\ UNCHANGED <<command, pidfile, unlinked, pid, up, overlap>>
  BY DEF Kill, DaemonTypeOK
<1>2. PICK place \in {"start", "gone"} :
        \/ /\ at[q] = "run" /\ at' = [at EXCEPT ![p] = place]
           /\ signaled' = signaled \cup {q} /\ heeded' = heeded \cup ({q} \cap up)
        \/ /\ at[q] \in {"chmod", "run"} /\ q \notin up
           /\ at' = [at EXCEPT ![p] = place, ![q] = "gone"]
           /\ signaled' = signaled \ {q} /\ heeded' = heeded
        \/ /\ at[q] \notin {"chmod", "run"} /\ at' = [at EXCEPT ![p] = place]
           /\ signaled' = signaled /\ heeded' = heeded
  BY DEF Kill, Goto, Stopped
<1>3. DaemonTypeOK' /\ SignaledRan'
  BY <1>1, <1>2 DEF Kill, DaemonTypeOK, SignaledRan
<1>4. ASSUME ~overlap' PROVE Orderly'
  <2>1. Orderly /\ \A r \in Processes \ {p} : at[r] \notin Command
    BY <1>1, <1>4 DEF Orderly, Alone, Command
  <2>2. Agents' \subseteq Agents /\ Undisturbed' \subseteq Undisturbed \ {q}
    BY <1>1, <1>2 DEF Agents, Undisturbed, DaemonTypeOK
  <2>3. \A r \in Undisturbed : r = q
    BY <1>1, <2>1 DEF Orderly, HasRead, Undisturbed
  <2>4. Undisturbed' = {}
    BY <2>2, <2>3
  <2>5. \A r \in Processes \ {p} : at'[r] \notin Command
    BY <1>1, <1>2, <2>1 DEF Command, DaemonTypeOK
  <2>6. at'[p] \in {"start", "gone"}
    BY <1>1, <1>2 DEF DaemonTypeOK
  <2>7. Alone'
    BY <2>1, <2>2, <2>5 DEF Orderly, Alone
  <2>8. StartsAlone'
    BY <1>1, <2>1, <2>5, <2>6 DEF Orderly, StartsAlone, Starting, Command
  <2>9. Named' /\ HasRead'
    BY <2>4, <2>5, <2>6 DEF Named, HasRead, Command
  <2> QED
    BY <2>7, <2>8, <2>9 DEF Orderly
<1> QED
  BY <1>3, <1>4

\* Every step keeps the invariant.
LEMMA InductiveStep == Inductive /\ [DaemonNext]_daemonVars => Inductive'
<1> SUFFICES ASSUME Inductive, [DaemonNext]_daemonVars PROVE Inductive'
  OBVIOUS
<1>1. ASSUME NEW p \in Processes, Begin(p) \/ Commands(p) \/ ApiUp(p) \/ RunEnds(p) \/ Crash(p)
      PROVE  Inductive'
  <2>1. CASE Begin(p)
    BY <2>1, BeginStep
  <2>2. CASE RunEnds(p) \/ Crash(p)
    BY <2>2, AgentEndsStep
  <2>3. CASE Commands(p)
    BY <2>3, StartStep, CheckStep, OpenWriteStep, ChmodStep, DelpidStep, StopStep, ExistsStep,
       RemoveStep, KillStep, NotRunningStep, RemoveAgainStep DEF Commands
  <2>4. CASE ApiUp(p)
    BY <2>4, ApiUpStep
  <2> QED
    BY <1>1, <2>1, <2>2, <2>3, <2>4
<1>2. CASE UNCHANGED daemonVars
  BY <1>2 DEF daemonVars, agents, Inductive, DaemonTypeOK, SignaledRan, Orderly, Alone, StartsAlone, Named,
              HasRead, AboutToKill, Agents, Undisturbed, Alive
<1> QED
  BY <1>1, <1>2 DEF DaemonNext

-----------------------------------------------------------------------------
(***************************************************************************)
(* The theorem.                                                            *)
(***************************************************************************)
\* One agent runs, and it was signaled, or is about to be, or is in the pidfile.
LEMMA InductiveImplies == Inductive => DaemonInv
<1> SUFFICES ASSUME Inductive PROVE DaemonInv
  OBVIOUS
<1> USE DEF Inductive
<1>1. ASSUME ~overlap
      PROVE  /\ Cardinality(Running) <= 1
             /\ \A p \in Running : p \in signaled \/ AboutToKill(p) \/ pidfile = p
  <2>1. \A p, q \in Running : p = q
    BY <1>1 DEF Orderly, Alone, Agents, Running
  <2>2. Cardinality(Running) <= 1
    <3>1. CASE Running = {}
      BY <3>1, FS_EmptySet
    <3>2. CASE Running # {}
      <4>1. PICK p \in Running : TRUE
        BY <3>2
      <4>2. Running = {p}
        BY <2>1, <4>1
      <4>3. Cardinality({p}) = 1
        BY FS_Singleton
      <4> QED
        BY <4>2, <4>3
    <3> QED
      BY <3>1, <3>2
  <2>3. \A p \in Running : p \in signaled \/ AboutToKill(p) \/ pidfile = p
    BY <1>1 DEF Orderly, Named, Undisturbed, Running
  <2> QED
    BY <2>2, <2>3
<1> QED
  BY <1>1 DEF DaemonInv, OneAtATime

\* However many processes are started with whatever commands, as long as each waits for
\* the one before and for the agent it has stopped, there is one agent and the pidfile names it.
THEOREM DaemonInvHolds == DaemonSpec => []DaemonInv
<1> QED
  BY InitiallyInductive, InductiveStep, InductiveImplies, PTL DEF DaemonSpec

-----------------------------------------------------------------------------
(***************************************************************************)
(* AgentLifecycle: how the process leaves.                                 *)
(***************************************************************************)
\* The types, thread by thread.
Typed ==
    /\ pc = [t \in Threads |-> pc[t]]
    /\ pc["main"] \in {"handle", "start_handler", "start_runner", "start_api",
                       "start_reporter", "start_dsd", "join_dsd", "join_runner",
                       "join_api", "stop_handler", "close", "join_handler",
                       "shutdown", "exited", "killed"}
    /\ pc["handler"] \in {"unborn", "clear", "loop", "select", "read", "stop", "ended"}
    /\ pc["runner"] \in {"unborn", "check", "collect", "sleep", "ended"}
    /\ pc["workers"] \in {"run", "ended"}
    /\ pc["api"] \in {"unborn", "listen", "set_loop", "serve", "ended"}
    /\ pc["reporter"] \in {"unborn", "check", "wait", "ended"}
    /\ pc["dsd"] \in {"unborn", "bind", "serve", "ended"}
    /\ dsd_enable \in BOOLEAN /\ handled \in BOOLEAN
    /\ signals \in 0 .. MaxSignals /\ pipe \in 0 .. signals
    /\ fds \in {"open", "closed"} /\ stop_flag \in BOOLEAN
    /\ runner_event \in BOOLEAN /\ last_runs \in 0 .. 2
    /\ forwarder \in {"up", "joining", "stopped"}
    /\ ioloop \in {"none", "set", "stop"}
    /\ finished \in BOOLEAN /\ dsd_stop \in BOOLEAN /\ dsd_error \in BOOLEAN

\* How many components there are to stop.
Last == IF dsd_enable THEN 5 ELSE 3

\* The handler reads a byte that is there, and is at a component while it stops them.
HandlerPlaces ==
    /\ stopping \in 0 .. Last
    /\ pc["handler"] = "stop" <=> stopping > 0
    /\ pc["handler"] = "read" => pipe > 0

\* An AgentRunner that was told to stop does not begin a collection.
RunnerPlaces ==
    /\ last_runs > 0 => last_runs = 1 /\ runner_event /\ pc["runner"] # "collect"
    /\ pc["runner"] = "ended" => runner_event

\* Since the AgentRunner was told to stop, the handler has stopped all other components,
\* or has yet to reach them for the first time.
StopOrder ==
    runner_event =>
        /\ stopping # 2 => forwarder = "stopped"
        /\ dsd_enable /\ stopping \notin 2 .. 4 => finished
        /\ dsd_enable /\ stopping \notin 2 .. 5 => dsd_stop

\* The main thread starts the handler once, waits for the AgentRunner, and at last for the
\* handler.
Joined ==
    /\ pc["main"] \in {"handle", "start_handler"} => pc["handler"] = "unborn"
    /\ pc["main"] \in {"join_api", "stop_handler", "close", "join_handler", "shutdown", "exited"}
          => pc["runner"] = "ended"
    /\ pc["main"] \in {"shutdown", "exited"} => pc["handler"] = "ended"

LifecycleInductive == Typed /\ HandlerPlaces /\ RunnerPlaces /\ StopOrder /\ Joined

\* Thread t goes to another place, and the others stay.
LEMMA OneMoves ==
    ASSUME Typed, NEW t \in Threads, NEW to, pc' = [pc EXCEPT ![t] = to]
    PROVE  /\ pc' = [u \in Threads |-> pc'[u]] /\ pc'[t] = to
           /\ t # "main" => pc'["main"] = pc["main"]
           /\ t # "handler" => pc'["handler"] = pc["handler"]
           /\ t # "runner" => pc'["runner"] = pc["runner"]
           /\ t # "workers" => pc'["workers"] = pc["workers"]
           /\ t # "api" => pc'["api"] = pc["api"]
           /\ t # "reporter" => pc'["reporter"] = pc["reporter"]
           /\ t # "dsd" => pc'["dsd"] = pc["dsd"]
BY DEF Typed, Threads

\* The components in their order.
LEMMA ComponentOrder ==
    ASSUME dsd_enable \in BOOLEAN
    PROVE  /\ Len(Components) = Last
           /\ Components[1] = "runner" /\ Components[2] = "forwarder" /\ Components[3] = "api"
           /\ dsd_enable => Components[4] = "reporter" /\ Components[5] = "dsd_server"
<1>1. CASE dsd_enable
  <2>1. Components = <<"runner", "forwarder", "api">> \o <<"reporter", "dsd_server">>
    BY <1>1 DEF Components
  <2> QED
    BY <1>1, <2>1 DEF Last
<1>2. CASE ~dsd_enable
  <2>1. Components = <<"runner", "forwarder", "api">> \o <<>>
    BY <1>2 DEF Components
  <2> QED
    BY <1>2, <2>1 DEF Last
<1> QED
  BY <1>1, <1>2

\* Which component the handler is at.
LEMMA AtComponent ==
    ASSUME LifecycleInductive, NEW c, Stopping(c)
    PROVE  /\ stopping \in 1 .. Last
           /\ c = "runner" => stopping = 1
           /\ c = "forwarder" => stopping = 2
           /\ c = "api" => stopping = 3
           /\ c = "reporter" => stopping = 4 /\ dsd_enable
           /\ c = "dsd_server" => stopping = 5 /\ dsd_enable
<1>1. /\ stopping \in 1 .. Last /\ pc["handler"] = "stop" /\ c = Components[stopping]
      /\ dsd_enable \in BOOLEAN
  BY DEF LifecycleInductive, HandlerPlaces, Stopping, Last, Typed
<1>2. stopping = 1 \/ stopping = 2 \/ stopping = 3 \/ (dsd_enable /\ (stopping = 4 \/ stopping = 5))
  BY <1>1 DEF Last
<1> QED
  BY <1>1, <1>2, ComponentOrder

\* On to the next component.
LEMMA Onward ==
    ASSUME LifecycleInductive, pc["handler"] = "stop", NextComponent
    PROVE  /\ pc' = [pc EXCEPT !["handler"] = IF stopping = Last THEN "loop" ELSE "stop"]
           /\ stopping' = IF stopping = Last THEN 0 ELSE stopping + 1
BY ComponentOrder DEF NextComponent, IsLast, Moves, LifecycleInductive, Typed

\* Nothing has begun.
LEMMA LifecycleInitially == LifecycleInit => LifecycleInductive
<1> SUFFICES ASSUME LifecycleInit PROVE LifecycleInductive
  OBVIOUS
<1>1. /\ pc = [t \in Threads |-> pc[t]]
      /\ pc["main"] = "handle" /\ pc["workers"] = "run"
      /\ pc["handler"] = "unborn" /\ pc["runner"] = "unborn" /\ pc["api"] = "unborn"
      /\ pc["reporter"] = "unborn" /\ pc["dsd"] = "unborn"
  BY DEF LifecycleInit, Threads
<1>2. 0 \in 0 .. MaxSignals
  BY LifecycleAssumption
<1>3. Typed
  <2>1. signals \in 0 .. MaxSignals /\ pipe \in 0 .. signals /\ last_runs \in 0 .. 2
    BY <1>2 DEF LifecycleInit
  <2> QED
    BY <1>1, <2>1 DEF LifecycleInit, Typed
<1>4. HandlerPlaces /\ RunnerPlaces /\ StopOrder /\ Joined
  BY <1>1 DEF LifecycleInit, HandlerPlaces, RunnerPlaces, StopOrder, Joined, Last
<1> QED
  BY <1>3, <1>4 DEF LifecycleInductive

\* A SIGTERM ends the process or is a byte in the pipe.
LEMMA SignalStep ==
    ASSUME LifecycleInductive, Signal
    PROVE  LifecycleInductive'
<1> USE DEF LifecycleInductive
<1>1. /\ signals < MaxSignals /\ signals' = signals + 1
      /\ pc' = pc \/ pc' = [pc EXCEPT !["main"] = "killed"]
      /\ pipe' = pipe + 1 \/ pipe' = pipe
      /\ UNCHANGED <<dsd_enable, handled, fds, stop_flag, stopping, runner_event, last_runs,
                     forwarder, ioloop, finished, dsd_stop, dsd_error>>
  BY DEF Signal, handlerVars, components, runnerVars, dsdVars
<1>2. pc' = pc \/ (pc' = [pc EXCEPT !["main"] = "killed"] /\ pc'["main"] = "killed")
  BY <1>1 DEF Typed, Threads
<1>3. signals \in Nat /\ pipe \in 0 .. signals /\ MaxSignals \in Nat
  BY LifecycleAssumption DEF Typed
<1>4. signals' \in 0 .. MaxSignals /\ pipe' \in 0 .. signals' /\ pipe' >= pipe
  BY <1>1, <1>3
<1>5. \A t \in Threads \ {"main"} : pc'[t] = pc[t]
  BY <1>1 DEF Typed, Threads
<1>6. pc' = [t \in Threads |-> pc'[t]]
  BY <1>1 DEF Typed, Threads
<1>7. Typed'
  BY <1>1, <1>2, <1>4, <1>5, <1>6 DEF Typed, Threads
<1>8. (HandlerPlaces /\ RunnerPlaces /\ StopOrder /\ Joined)'
  BY <1>1, <1>2, <1>3, <1>4, <1>5 DEF HandlerPlaces, RunnerPlaces, StopOrder, Joined, Last, Threads
<1> QED
  BY <1>7, <1>8

\* The main thread starts another one.
LEMMA StartsStep ==
    ASSUME LifecycleInductive, NEW from, NEW to, NEW t, NEW begin, Starts(from, to, t, begin),
           to \in {"start_runner", "start_api", "start_reporter", "start_dsd", "join_dsd",
                   "join_runner"},
           \/ t = "handler" /\ begin = "clear" /\ from = "start_handler"
           \/ t = "runner" /\ begin = "check"
           \/ t = "api" /\ begin = "listen"
           \/ t = "reporter" /\ begin = "check"
           \/ t = "dsd" /\ begin = "bind"
    PROVE  LifecycleInductive'
<1> USE DEF LifecycleInductive
<1>1. /\ pc["main"] = from /\ pc' = [pc EXCEPT !["main"] = to, ![t] = begin]
      /\ UNCHANGED <<dsd_enable, handled, signals, pipe, fds, stop_flag, stopping, runner_event,
                     last_runs, forwarder, ioloop, finished, dsd_stop, dsd_error>>
  BY DEF Starts, process, handlerVars, components, runnerVars, dsdVars
<1>2. t \in Threads /\ t # "main" /\ "main" \in Threads
  BY DEF Threads
<1>3. /\ pc' = [u \in Threads |-> pc'[u]] /\ pc'["main"] = to /\ pc'[t] = begin
      /\ \A u \in Threads : u # "main" /\ u # t => pc'[u] = pc[u]
  BY <1>1, <1>2 DEF Typed
<1>4. /\ t # "handler" => pc'["handler"] = pc["handler"]
      /\ t # "runner" => pc'["runner"] = pc["runner"]
      /\ t # "workers" => pc'["workers"] = pc["workers"]
      /\ t # "api" => pc'["api"] = pc["api"]
      /\ t # "reporter" => pc'["reporter"] = pc["reporter"]
      /\ t # "dsd" => pc'["dsd"] = pc["dsd"]
  BY <1>3 DEF Threads
<1>5. t = "handler" => pc["handler"] = "unborn"
  BY <1>1 DEF Joined
<1>6. Typed'
  BY <1>1, <1>3, <1>4 DEF Typed
<1>7. (HandlerPlaces /\ RunnerPlaces /\ StopOrder /\ Joined)'
  BY <1>1, <1>3, <1>4, <1>5 DEF HandlerPlaces, RunnerPlaces, StopOrder, Joined, Last
<1> QED
  BY <1>6, <1>7

\* The main thread goes on, past the threads it waits for.
LEMMA MainMoves ==
    ASSUME LifecycleInductive, NEW to, pc' = [pc EXCEPT !["main"] = to],
           to \in {"start_handler", "join_runner", "join_api", "stop_handler", "close",
                   "join_handler", "shutdown", "exited"},
           to = "start_handler" => pc["main"] = "handle",
           to \in {"join_api", "stop_handler", "close", "join_handler", "shutdown", "exited"}
               => pc["runner"] = "ended",
           to \in {"shutdown", "exited"} => pc["handler"] = "ended",
           handled' \in BOOLEAN, fds' \in {"open", "closed"}, stop_flag' \in BOOLEAN,
           finished' \in BOOLEAN, finished => finished',
           UNCHANGED <<dsd_enable, signals, pipe, stopping, runner_event, last_runs, forwarder,
                       ioloop, dsd_stop, dsd_error>>
    PROVE  LifecycleInductive'
<1> USE DEF LifecycleInductive
<1>1. "main" \in Threads
  BY DEF Threads
<1>2. /\ pc' = [u \in Threads |-> pc'[u]] /\ pc'["main"] = to
      /\ pc'["handler"] = pc["handler"] /\ pc'["runner"] = pc["runner"]
      /\ pc'["workers"] = pc["workers"] /\ pc'["api"] = pc["api"]
      /\ pc'["reporter"] = pc["reporter"] /\ pc'["dsd"] = pc["dsd"]
  BY <1>1, OneMoves
<1>3. Typed'
  BY <1>2 DEF Typed
<1>4. (HandlerPlaces /\ RunnerPlaces /\ StopOrder /\ Joined)'
  BY <1>2 DEF HandlerPlaces, RunnerPlaces, StopOrder, Joined, Last
<1> QED
  BY <1>3, <1>4

\* The main thread starts the others and waits for them.
LEMMA MainStep ==
    ASSUME LifecycleInductive, Main
    PROVE  LifecycleInductive'
<1> USE DEF process, handlerVars, components, runnerVars, dsdVars, Moves
<1>0. /\ handled \in BOOLEAN /\ fds \in {"open", "closed"} /\ stop_flag \in BOOLEAN
      /\ finished \in BOOLEAN /\ dsd_error \in BOOLEAN /\ dsd_enable \in BOOLEAN
  BY DEF LifecycleInductive, Typed
<1>j. /\ pc["main"] \in {"join_api", "stop_handler", "close", "join_handler", "shutdown"}
            => pc["runner"] = "ended"
      /\ pc["main"] = "shutdown" => pc["handler"] = "ended"
  BY DEF LifecycleInductive, Joined
<1>1. CASE StartHandler
  BY <1>1, <1>0, StartsStep DEF StartHandler
<1>2. CASE StartRunner
  BY <1>2, <1>0, StartsStep DEF StartRunner
<1>3. CASE StartApi
  BY <1>3, <1>0, StartsStep DEF StartApi
<1>4. CASE StartReporter
  BY <1>4, <1>0, StartsStep DEF StartReporter
<1>5. CASE StartDsd
  BY <1>5, <1>0, StartsStep DEF StartDsd
<1>6. CASE Handle
  <2>1. /\ pc' = [pc EXCEPT !["main"] = "start_handler"] /\ handled' \in BOOLEAN
        /\ fds' \in {"open", "closed"} /\ stop_flag' \in BOOLEAN
        /\ finished' \in BOOLEAN /\ (finished => finished')
    BY <1>6, <1>0 DEF Handle
  <2> QED
    BY <1>6, <1>j, <2>1, MainMoves DEF Handle
<1>7. CASE JoinDsd
  <2>1. /\ pc' = [pc EXCEPT !["main"] = "join_runner"] /\ handled' \in BOOLEAN
        /\ fds' \in {"open", "closed"} /\ stop_flag' \in BOOLEAN
        /\ finished' \in BOOLEAN /\ (finished => finished')
    BY <1>7, <1>0 DEF JoinDsd, Joins, RaiseForStatus
  <2> QED
    BY <1>7, <1>j, <2>1, MainMoves DEF JoinDsd, Joins, RaiseForStatus
<1>8. CASE JoinRunner
  <2>1. /\ pc' = [pc EXCEPT !["main"] = "join_api"] /\ handled' \in BOOLEAN
        /\ fds' \in {"open", "closed"} /\ stop_flag' \in BOOLEAN
        /\ finished' \in BOOLEAN /\ (finished => finished')
    BY <1>8, <1>0 DEF JoinRunner, Joins
  <2> QED
    BY <1>8, <1>j, <2>1, MainMoves DEF JoinRunner, Joins
<1>9. CASE JoinApi
  <2>1. /\ pc' = [pc EXCEPT !["main"] = "stop_handler"] /\ handled' \in BOOLEAN
        /\ fds' \in {"open", "closed"} /\ stop_flag' \in BOOLEAN
        /\ finished' \in BOOLEAN /\ (finished => finished')
    BY <1>9, <1>0 DEF JoinApi, Joins
  <2> QED
    BY <1>9, <1>j, <2>1, MainMoves DEF JoinApi, Joins
<1>10. CASE StopHandler
  <2>1. /\ pc' = [pc EXCEPT !["main"] = "close"] /\ handled' \in BOOLEAN
        /\ fds' \in {"open", "closed"} /\ stop_flag' \in BOOLEAN
        /\ finished' \in BOOLEAN /\ (finished => finished')
    BY <1>10, <1>0 DEF StopHandler
  <2> QED
    BY <1>10, <1>j, <2>1, MainMoves DEF StopHandler
<1>11. CASE CloseFds
  <2>1. /\ pc' = [pc EXCEPT !["main"] = "join_handler"] /\ handled' \in BOOLEAN
        /\ fds' \in {"open", "closed"} /\ stop_flag' \in BOOLEAN
        /\ finished' \in BOOLEAN /\ (finished => finished')
    BY <1>11, <1>0 DEF CloseFds
  <2> QED
    BY <1>11, <1>j, <2>1, MainMoves DEF CloseFds
<1>12. CASE JoinHandler
  <2>1. /\ pc' = [pc EXCEPT !["main"] = "shutdown"] /\ handled' \in BOOLEAN
        /\ fds' \in {"open", "closed"} /\ stop_flag' \in BOOLEAN
        /\ finished' \in BOOLEAN /\ (finished => finished')
    BY <1>12, <1>0 DEF JoinHandler, Joins
  <2> QED
    BY <1>12, <1>j, <2>1, MainMoves DEF JoinHandler, Joins
<1>13. CASE Exit
  <2>1. /\ pc' = [pc EXCEPT !["main"] = "exited"] /\ handled' \in BOOLEAN
        /\ fds' \in {"open", "closed"} /\ stop_flag' \in BOOLEAN
        /\ finished' \in BOOLEAN /\ (finished => finished')
    BY <1>13, <1>0 DEF Exit
  <2> QED
    BY <1>13, <1>j, <2>1, MainMoves DEF Exit
<1> QED
  BY <1>1, <1>2, <1>3, <1>4, <1>5, <1>6, <1>7, <1>8, <1>9, <1>10, <1>11, <1>12, <1>13 DEF Main

\* The handler goes round its loop.
LEMMA HandlerMoves ==
    ASSUME LifecycleInductive, NEW to, pc' = [pc EXCEPT !["handler"] = to],
           pc["handler"] \in {"clear", "loop", "select"},
           to \in {"loop", "select", "read", "ended"}, to = "read" => pipe > 0,
           stop_flag' \in BOOLEAN,
           UNCHANGED <<dsd_enable, handled, signals, pipe, fds, stopping, runner_event, last_runs,
                       forwarder, ioloop, finished, dsd_stop, dsd_error>>
    PROVE  LifecycleInductive'
<1> USE DEF LifecycleInductive
<1>1. "handler" \in Threads
  BY DEF Threads
<1>2. /\ pc' = [u \in Threads |-> pc'[u]] /\ pc'["handler"] = to
      /\ pc'["main"] = pc["main"] /\ pc'["runner"] = pc["runner"]
      /\ pc'["workers"] = pc["workers"] /\ pc'["api"] = pc["api"]
      /\ pc'["reporter"] = pc["reporter"] /\ pc'["dsd"] = pc["dsd"]
  BY <1>1, OneMoves
<1>3. Typed'
  BY <1>2 DEF Typed
<1>4. (HandlerPlaces /\ RunnerPlaces /\ StopOrder /\ Joined)'
  BY <1>2 DEF HandlerPlaces, RunnerPlaces, StopOrder, Joined, Last
<1> QED
  BY <1>3, <1>4

\* The handler goes round its loop until the flag is set.
LEMMA HandlerLoops ==
    ASSUME LifecycleInductive, HandlerClear \/ HandlerLoop \/ HandlerSelect
    PROVE  LifecycleInductive'
<1> USE DEF process, handlerVars, components, runnerVars, dsdVars, Moves
<1>0. stop_flag \in BOOLEAN
  BY DEF LifecycleInductive, Typed
<1>1. CASE HandlerClear
  BY <1>1, HandlerMoves DEF HandlerClear
<1>2. CASE HandlerLoop
  <2>1. PICK to \in {"ended", "select"} : pc' = [pc EXCEPT !["handler"] = to]
    BY <1>2 DEF HandlerLoop
  <2> QED
    BY <1>0, <1>2, <2>1, HandlerMoves DEF HandlerLoop
<1>3. CASE HandlerSelect
  <2>1. PICK to \in {"read", "loop"} :
            pc' = [pc EXCEPT !["handler"] = to] /\ (to = "read" => pipe > 0)
    BY <1>3 DEF HandlerSelect
  <2> QED
    BY <1>0, <1>3, <2>1, HandlerMoves DEF HandlerSelect
<1> QED
  BY <1>1, <1>2, <1>3

\* The handler waits for a byte, and stops the components one after the other.
LEMMA HandlerStep ==
    ASSUME LifecycleInductive, Handler
    PROVE  LifecycleInductive'
<1> USE DEF LifecycleInductive, process, handlerVars, components, runnerVars, dsdVars,
            Typed, HandlerPlaces, RunnerPlaces, StopOrder, Joined, Last, Threads
<1>1. CASE HandlerClear \/ HandlerLoop \/ HandlerSelect
  BY ONLY <1>1, LifecycleInductive, HandlerLoops
<1>2. CASE HandlerRead
  BY <1>2 DEF HandlerRead, Moves
<1>3. CASE StopRunner
  <2>1. stopping = 1 /\ pc["handler"] = "stop"
    BY <1>3, AtComponent DEF StopRunner, Stopping
  <2> QED
    BY <1>3, <2>1, Onward DEF StopRunner
<1>4. CASE StopForwarder
  <2>1. stopping = 2 /\ pc["handler"] = "stop"
    BY <1>4, AtComponent DEF StopForwarder, Stopping
  <2> QED
    BY <1>4, <2>1, Onward DEF StopForwarder
<1>5. CASE StopApi
  <2>1. stopping = 3 /\ pc["handler"] = "stop"
    BY <1>5, AtComponent DEF StopApi, Stopping
  <2> QED
    BY <1>5, <2>1, Onward DEF StopApi, QueueStop
<1>6. CASE StopReporter
  <2>1. stopping = 4 /\ dsd_enable /\ pc["handler"] = "stop"
    BY <1>6, AtComponent DEF StopReporter, Stopping
  <2> QED
    BY <1>6, <2>1, Onward DEF StopReporter
<1>7. CASE StopServer
  <2>1. stopping = 5 /\ dsd_enable /\ pc["handler"] = "stop"
    BY <1>7, AtComponent DEF StopServer, Stopping
  <2> QED
    BY <1>7, <2>1, Onward DEF StopServer
<1> QED
  BY <1>1, <1>2, <1>3, <1>4, <1>5, <1>6, <1>7 DEF Handler

\* The AgentRunner goes round its loop.
LEMMA RunnerMoves ==
    ASSUME LifecycleInductive, NEW to, pc' = [pc EXCEPT !["runner"] = to],
           to \in {"check", "collect", "sleep", "ended"}, pc["runner"] # "ended",
           to = "ended" => runner_event,
           to = "collect" => ~runner_event,
           last_runs' = last_runs \/ (last_runs = 0 /\ last_runs' = 1 /\ runner_event /\ to = "sleep"),
           UNCHANGED <<dsd_enable, handled, signals, pipe, fds, stop_flag, stopping, runner_event,
                       forwarder, ioloop, finished, dsd_stop, dsd_error>>
    PROVE  LifecycleInductive'
<1> USE DEF LifecycleInductive
<1>1. "runner" \in Threads
  BY DEF Threads
<1>2. /\ pc' = [u \in Threads |-> pc'[u]] /\ pc'["runner"] = to
      /\ pc'["main"] = pc["main"] /\ pc'["handler"] = pc["handler"]
      /\ pc'["workers"] = pc["workers"] /\ pc'["api"] = pc["api"]
      /\ pc'["reporter"] = pc["reporter"] /\ pc'["dsd"] = pc["dsd"]
  BY <1>1, OneMoves
<1>3. Typed'
  BY <1>2 DEF Typed
<1>4. (HandlerPlaces /\ RunnerPlaces /\ StopOrder /\ Joined)'
  BY <1>2 DEF HandlerPlaces, RunnerPlaces, StopOrder, Joined, Last
<1> QED
  BY <1>3, <1>4

\* Another thread of a component goes on.
LEMMA ComponentMoves ==
    ASSUME LifecycleInductive, NEW t, NEW to, pc' = [pc EXCEPT ![t] = to],
           \/ t = "workers" /\ to = "ended"
           \/ t = "api" /\ to \in {"set_loop", "serve", "ended"}
           \/ t = "reporter" /\ to \in {"check", "wait", "ended"}
           \/ t = "dsd" /\ to \in {"serve", "ended"},
           ioloop' \in {"none", "set", "stop"}, dsd_error' \in BOOLEAN,
           UNCHANGED <<dsd_enable, handled, signals, pipe, fds, stop_flag, stopping, runner_event,
                       last_runs, forwarder, finished, dsd_stop>>
    PROVE  LifecycleInductive'
<1> USE DEF LifecycleInductive
<1>1. t \in Threads
  BY DEF Threads
<1>2. /\ pc' = [u \in Threads |-> pc'[u]] /\ pc'[t] = to
      /\ pc'["main"] = pc["main"] /\ pc'["handler"] = pc["handler"]
      /\ pc'["runner"] = pc["runner"]
      /\ t # "workers" => pc'["workers"] = pc["workers"]
      /\ t # "api" => pc'["api"] = pc["api"]
      /\ t # "reporter" => pc'["reporter"] = pc["reporter"]
      /\ t # "dsd" => pc'["dsd"] = pc["dsd"]
  BY <1>1, OneMoves
<1>3. Typed'
  BY <1>2 DEF Typed
<1>4. (HandlerPlaces /\ RunnerPlaces /\ StopOrder /\ Joined)'
  BY <1>2 DEF HandlerPlaces, RunnerPlaces, StopOrder, Joined, Last
<1> QED
  BY <1>3, <1>4

\* The AgentRunner collects until it is told to stop.
LEMMA RunnerStep ==
    ASSUME LifecycleInductive, Runner
    PROVE  LifecycleInductive'
<1> USE DEF process, handlerVars, components, runnerVars, dsdVars, Moves
<1>1. CASE RunnerCheck
  <2>1. PICK to \in {"ended", "collect"} :
            /\ pc' = [pc EXCEPT !["runner"] = to] /\ pc["runner"] = "check"
            /\ to = "ended" => runner_event
            /\ to = "collect" => ~runner_event
    BY <1>1 DEF RunnerCheck
  <2> QED
    BY <1>1, <2>1, RunnerMoves DEF RunnerCheck
<1>2. CASE RunnerCollect
  <2>1. last_runs = 0
    BY <1>2 DEF RunnerCollect, LifecycleInductive, RunnerPlaces, Typed
  <2>2. last_runs' = last_runs \/ (last_runs' = 1 /\ runner_event)
    BY <1>2, <2>1 DEF RunnerCollect
  <2>3. pc["runner"] = "collect" /\ pc' = [pc EXCEPT !["runner"] = "sleep"]
    BY <1>2 DEF RunnerCollect
  <2> QED
    BY <1>2, <2>1, <2>2, <2>3, RunnerMoves DEF RunnerCollect
<1>3. CASE RunnerSleep
  <2>1. pc["runner"] = "sleep" /\ pc' = [pc EXCEPT !["runner"] = "check"]
    BY <1>3 DEF RunnerSleep
  <2> QED
    BY <1>3, <2>1, RunnerMoves DEF RunnerSleep
<1> QED
  BY <1>1, <1>2, <1>3 DEF Runner

\* The threads of the other components run until they are told to stop, or fail.
LEMMA ComponentStep ==
    ASSUME LifecycleInductive, WorkersEnd \/ Api \/ Reporter \/ Dsd \/ DsdFails
    PROVE  LifecycleInductive'
<1> USE DEF process, handlerVars, components, runnerVars, dsdVars, Moves
<1>0. ioloop \in {"none", "set", "stop"} /\ dsd_error \in BOOLEAN
  BY DEF LifecycleInductive, Typed
<1>1. CASE WorkersEnd
  BY <1>0, <1>1, ComponentMoves DEF WorkersEnd
<1>2. CASE ApiListen
  BY <1>0, <1>2, ComponentMoves DEF ApiListen
<1>3. CASE ApiSetLoop
  BY <1>0, <1>3, ComponentMoves DEF ApiSetLoop
<1>4. CASE ApiStops
  BY <1>0, <1>4, ComponentMoves DEF ApiStops
<1>5. CASE ReporterCheck
  <2>1. PICK to \in {"ended", "wait"} : pc' = [pc EXCEPT !["reporter"] = to]
    BY <1>5 DEF ReporterCheck
  <2> QED
    BY <1>0, <1>5, <2>1, ComponentMoves DEF ReporterCheck
<1>6. CASE ReporterFlush
  BY <1>0, <1>6, ComponentMoves DEF ReporterFlush
<1>7. CASE DsdBind
  <2>1. PICK to \in {"ended", "serve"} : pc' = [pc EXCEPT !["dsd"] = to]
    BY <1>7 DEF DsdBind
  <2>2. dsd_error' \in BOOLEAN
    BY <1>0, <1>7 DEF DsdBind
  <2> QED
    BY <1>0, <1>7, <2>1, <2>2, ComponentMoves DEF DsdBind
<1>8. CASE DsdStops
  BY <1>0, <1>8, ComponentMoves DEF DsdStops
<1>9. CASE DsdFails
  BY <1>0, <1>9, ComponentMoves DEF DsdFails
<1> QED
  BY <1>1, <1>2, <1>3, <1>4, <1>5, <1>6, <1>7, <1>8, <1>9 DEF Api, Reporter, Dsd

\* No step leaves the invariant.
LEMMA LifecycleStep ==
    ASSUME LifecycleInductive, [LifecycleNext]_lifecycleVars
    PROVE  LifecycleInductive'
<1>1. CASE UNCHANGED lifecycleVars
  BY <1>1 DEF lifecycleVars, process, handlerVars, components, runnerVars, dsdVars,
              LifecycleInductive, Typed, HandlerPlaces, RunnerPlaces, StopOrder, Joined, Last
<1> QED
  BY <1>1, SignalStep, MainStep, HandlerStep, RunnerStep, ComponentStep DEF LifecycleNext

\* What the invariant says of the process that leaves.
LEMMA LifecycleImplies == LifecycleInductive => LifecycleInv
<1> SUFFICES ASSUME LifecycleInductive PROVE LifecycleInv
  OBVIOUS
<1> USE DEF LifecycleInductive
<1>1. \A t \in Threads : pc[t] \in Places(t)
  BY DEF Typed, Threads, Places
<1>2. DOMAIN pc = Threads
  BY DEF Typed
<1>3. Len(Components) = Last
  BY ComponentOrder DEF Typed
<1>4. LifecycleTypeOK
  BY <1>1, <1>2, <1>3 DEF LifecycleTypeOK, Typed, HandlerPlaces
<1>5. RunnerWindsDown
  BY DEF RunnerWindsDown, RunnerPlaces, Typed
<1>6. StoppedBeforeShutdown
  BY DEF StoppedBeforeShutdown, Typed, HandlerPlaces, RunnerPlaces, StopOrder, Joined, Last
<1> QED
  BY <1>4, <1>5, <1>6 DEF LifecycleInv

\* However signals fall into the start, the run and the end of an agent, with however many
\* failures of its threads: the AgentRunner begins no collection once it was told to stop,
\* and when the process leaves the Forwarder was stopped, and dogstatsd told to stop.
THEOREM LifecycleInvHolds == LifecycleSpec => []LifecycleInv
<1> QED
  BY LifecycleInitially, LifecycleStep, LifecycleImplies, PTL DEF LifecycleSpec
=============================================================================
