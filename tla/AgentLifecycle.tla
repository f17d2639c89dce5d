--------------------------- MODULE AgentLifecycle ---------------------------
(***************************************************************************)
(* How the agent process starts and ends: Agent.run on the main thread,    *)
(* the SignalHandler's thread that reads signals from a pipe and stops the *)
(* components one after the other, and the threads of the components: the  *)
(* AgentRunner, the APIServer, dogstatsd's Reporter and Server.  The       *)
(* threads of the Forwarder, which has a module of its own, are one here.  *)
(***************************************************************************)
EXTENDS Integers, Sequences

CONSTANT MaxSignals  \* bound: SIGTERMs sent to the process

ASSUME LifecycleAssumption == MaxSignals \in Nat

Threads == {"main", "handler", "runner", "workers", "api", "reporter", "dsd"}

VARIABLES
    dsd_enable,    \* configuration
    pc,            \* where each thread is
    handled,       \* signal.signal(SIGTERM, ...) has been called
    signals,       \* SIGTERMs sent so far
    pipe,          \* bytes in the wake-up pipe
    fds,           \* the pipe's file descriptors: "open" or "closed"
    stop_flag,     \* SignalHandler._stop_flag
    stopping,      \* the component the handler is stopping, from 1
    runner_event,  \* AgentRunner._event
    last_runs,     \* history: collections since then, counted up to 2
    forwarder,     \* Forwarder.stop: "up", "joining", "stopped"
    ioloop,        \* APIServer._ioloop: "none", "set", or "stop" once a
                   \* callback that stops it is queued
    finished,      \* Reporter.finished
    dsd_stop,      \* Server.running, the event that stops the server
    dsd_error      \* DogstatsdRunner._error

process == <<dsd_enable, handled, signals, pipe, fds>>
handlerVars == <<stop_flag, stopping>>
runnerVars == <<runner_event, last_runs>>
dsdVars == <<finished, dsd_stop, dsd_error>>
components == <<runnerVars, forwarder, ioloop, dsdVars>>
lifecycleVars == <<pc, process, handlerVars, components>>

\* SignalHandler._components, in the order of their registration.
Components == <<"runner", "forwarder", "api">>
                  \o (IF dsd_enable THEN <<"reporter", "dsd_server">> ELSE <<>>)

Gone == pc["main"] \in {"exited", "killed"}

\* Thread t goes from one place to another.
Moves(t, from, to) == pc[t] = from /\ pc' = [pc EXCEPT ![t] = to]

\* The main thread starts thread t, which begins at a place of its own.
Starts(from, to, t, begin) ==
    /\ pc["main"] = from
    /\ pc' = [pc EXCEPT !["main"] = to, ![t] = begin]
    /\ UNCHANGED <<process, handlerVars, components>>

\* t.join() on the main thread.
Joins(from, to, t) == pc[t] = "ended" /\ Moves("main", from, to)

-----------------------------------------------------------------------------
\* The Forwarder is up when Agent.run reaches its first call of handle().
LifecycleInit ==
    /\ dsd_enable \in BOOLEAN
    /\ pc = [t \in Threads |-> CASE t = "main" -> "handle"
                                 [] t = "workers" -> "run"
                                 [] OTHER -> "unborn"]
    /\ handled = FALSE /\ signals = 0 /\ pipe = 0 /\ fds = "open"
    /\ stop_flag = TRUE /\ stopping = 0
    /\ runner_event = FALSE /\ last_runs = 0
    /\ forwarder = "up" /\ ioloop = "none"
    /\ finished = FALSE /\ dsd_stop = FALSE /\ dsd_error = FALSE

\* A SIGTERM kills the process before handle(), and is a byte in the pipe after.
Signal ==
    /\ ~Gone
    /\ signals < MaxSignals
    /\ signals' = signals + 1
    /\ pc' = IF handled THEN pc ELSE [pc EXCEPT !["main"] = "killed"]
    /\ pipe' = IF handled /\ fds = "open" THEN pipe + 1 ELSE pipe
    /\ UNCHANGED <<dsd_enable, handled, fds, handlerVars, components>>

(***************************************************************************)
(* Agent.run, on the main thread.                                          *)
(***************************************************************************)

Handle ==
    /\ Moves("main", "handle", "start_handler")
    /\ handled' = TRUE
    /\ UNCHANGED <<dsd_enable, signals, pipe, fds, handlerVars, components>>

StartHandler == Starts("start_handler", "start_runner", "handler", "clear")
StartRunner == Starts("start_runner", "start_api", "runner", "check")
StartApi == Starts("start_api", IF dsd_enable THEN "start_reporter"
                                              ELSE "join_runner", "api", "listen")
StartReporter == Starts("start_reporter", "start_dsd", "reporter", "check")
StartDsd == Starts("start_dsd", "join_dsd", "dsd", "bind")

\* Mutant: the error of the dogstatsd server is only logged.
LogDsdError == UNCHANGED finished

\* raise_for_status(): a server that did not start takes the Reporter with it.
RaiseForStatus == finished' = (finished \/ dsd_error)

JoinDsd ==
    /\ Joins("join_dsd", "join_runner", "dsd")
    /\ RaiseForStatus
    /\ UNCHANGED <<process, handlerVars, runnerVars, forwarder, ioloop, dsd_stop,
                   dsd_error>>

JoinRunner ==
    /\ Joins("join_runner", "join_api", "runner")
    /\ UNCHANGED <<process, handlerVars, components>>

JoinApi ==
    /\ Joins("join_api", "stop_handler", "api")
    /\ UNCHANGED <<process, handlerVars, components>>

\* SignalHandler.stop: the flag first ...
StopHandler ==
    /\ Moves("main", "stop_handler", "close")
    /\ stop_flag' = TRUE
    /\ UNCHANGED <<process, stopping, components>>

\* ... then both ends of the pipe.
CloseFds ==
    /\ Moves("main", "close", "join_handler")
    /\ fds' = "closed"
    /\ UNCHANGED <<dsd_enable, handled, signals, pipe, handlerVars, components>>

\* Mutant: the main thread does not wait for a handler that is stopping.
HandlerNotListening ==
    /\ pc["handler"] # "select"
    /\ Moves("main", "join_handler", "shutdown")
    /\ UNCHANGED <<process, handlerVars, components>>

\* handler.join(), then sys.exit(0).
JoinHandler ==
    /\ Joins("join_handler", "shutdown", "handler")
    /\ UNCHANGED <<process, handlerVars, components>>

\* The interpreter waits for the threads that nobody joined.
Exit ==
    /\ Moves("main", "shutdown", "exited")
    /\ pc["reporter"] \in {"unborn", "ended"}
    /\ pc["workers"] = "ended"
    /\ UNCHANGED <<process, handlerVars, components>>

Main == \/ Handle \/ StartHandler \/ StartRunner \/ StartApi \/ StartReporter
        \/ StartDsd \/ JoinDsd \/ JoinRunner \/ JoinApi \/ StopHandler
        \/ CloseFds \/ JoinHandler \/ Exit

(***************************************************************************)
(* SignalHandler: run, listen and _signal_handler.                         *)
(***************************************************************************)

HandlerClear ==
    /\ Moves("handler", "clear", "loop")
    /\ stop_flag' = FALSE
    /\ UNCHANGED <<process, stopping, components>>

HandlerLoop ==
    /\ Moves("handler", "loop", IF stop_flag THEN "ended" ELSE "select")
    /\ UNCHANGED <<process, handlerVars, components>>

\* select returns after a second, or fails on a closed descriptor, or finds a
\* byte to read.
HandlerSelect ==
    /\ Moves("handler", "select", IF pipe > 0 /\ fds = "open" THEN "read" ELSE "loop")
    /\ UNCHANGED <<process, handlerVars, components>>

\* os.read, which fails when the pipe was closed after select.
HandlerRead ==
    /\ \/ /\ fds = "open"
          /\ Moves("handler", "read", "stop")
          /\ pipe' = pipe - 1
          /\ stopping' = 1
       \/ /\ fds = "closed"
          /\ Moves("handler", "read", "loop")
          /\ UNCHANGED <<pipe, stopping>>
    /\ UNCHANGED <<dsd_enable, handled, signals, fds, stop_flag, components>>

IsLast == stopping = Len(Components)

\* The loop over the components: on to the next one, or back to listen().
NextComponent ==
    /\ stopping' = IF IsLast THEN 0 ELSE stopping + 1
    /\ Moves("handler", "stop", IF IsLast THEN "loop" ELSE "stop")

Stopping(component) == pc["handler"] = "stop" /\ Components[stopping] = component

StopRunner ==
    /\ Stopping("runner") /\ NextComponent
    /\ runner_event' = TRUE
    /\ UNCHANGED <<process, stop_flag, last_runs, forwarder, ioloop, dsdVars>>

\* Forwarder.stop sets the exit events, then waits for the threads, each for two
\* seconds at most; a second call fails, since retry_worker is None by then.
StopForwarder ==
    /\ Stopping("forwarder")
    /\ \/ /\ forwarder = "up"
          /\ forwarder' = "joining"
          /\ UNCHANGED <<pc, stopping>>
       \/ /\ forwarder \in {"joining", "stopped"}
          /\ forwarder' = "stopped"
          /\ NextComponent
    /\ UNCHANGED <<process, stop_flag, runnerVars, ioloop, dsdVars>>

\* Mutant: the stop is not handed to the loop's own thread.
CallbackLost == UNCHANGED ioloop

QueueStop == ioloop' = "stop"

\* APIServer.stop: without a loop the AttributeError is taken for a component
\* that has no stop().
StopApi ==
    /\ Stopping("api") /\ NextComponent
    /\ IF ioloop = "none" THEN UNCHANGED ioloop ELSE QueueStop
    /\ UNCHANGED <<process, stop_flag, runnerVars, forwarder, dsdVars>>

StopReporter ==
    /\ Stopping("reporter") /\ NextComponent
    /\ finished' = TRUE
    /\ UNCHANGED <<process, stop_flag, runnerVars, forwarder, ioloop,
                   dsd_stop, dsd_error>>

StopServer ==
    /\ Stopping("dsd_server") /\ NextComponent
    /\ dsd_stop' = TRUE
    /\ UNCHANGED <<process, stop_flag, runnerVars, forwarder, ioloop,
                   finished, dsd_error>>

Handler == \/ HandlerClear \/ HandlerLoop \/ HandlerSelect \/ HandlerRead
           \/ StopRunner \/ StopForwarder \/ StopApi \/ StopReporter \/ StopServer

(***************************************************************************)
(* The threads of the components.                                          *)
(***************************************************************************)

\* Mutant: the loop runs once more after the event was seen.
RunnerRunsOnceMore ==
    /\ Moves("runner", "check", IF runner_event /\ last_runs > 1 THEN "ended" ELSE "collect")
    /\ UNCHANGED <<process, handlerVars, components>>

\* while not self._event.is_set()
RunnerCheck ==
    /\ Moves("runner", "check", IF runner_event THEN "ended" ELSE "collect")
    /\ UNCHANGED <<process, handlerVars, components>>

\* Metadata, run_checks and serialize_and_push, where an exception is caught.
RunnerCollect ==
    /\ Moves("runner", "collect", "sleep")
    /\ last_runs' = IF runner_event /\ last_runs < 2 THEN last_runs + 1 ELSE last_runs
    /\ UNCHANGED <<process, handlerVars, runner_event, forwarder, ioloop, dsdVars>>

RunnerSleep ==
    /\ Moves("runner", "sleep", "check")
    /\ UNCHANGED <<process, handlerVars, components>>

Runner == RunnerCheck \/ RunnerCollect \/ RunnerSleep

\* The threads of a Forwarder that was told to stop end, in time or later.
WorkersEnd ==
    /\ forwarder # "up"
    /\ Moves("workers", "run", "ended")
    /\ UNCHANGED <<process, handlerVars, components>>

\* Listening fails, and ends the thread, when the port is in use.
ApiListen ==
    /\ \E next \in {"set_loop", "ended"} : Moves("api", "listen", next)
    /\ UNCHANGED <<process, handlerVars, components>>

ApiSetLoop ==
    /\ Moves("api", "set_loop", "serve")
    /\ ioloop' = "set"
    /\ UNCHANGED <<process, handlerVars, runnerVars, forwarder, dsdVars>>

\* The loop runs until it meets the callback that stops it.
ApiStops ==
    /\ ioloop = "stop"
    /\ Moves("api", "serve", "ended")
    /\ UNCHANGED <<process, handlerVars, components>>

Api == ApiListen \/ ApiSetLoop \/ ApiStops

ReporterCheck ==
    /\ Moves("reporter", "check", IF finished THEN "ended" ELSE "wait")
    /\ UNCHANGED <<process, handlerVars, components>>

\* The interval has passed, or finished is set; then the flush.
ReporterFlush ==
    /\ Moves("reporter", "wait", "check")
    /\ UNCHANGED <<process, handlerVars, components>>

Reporter == ReporterCheck \/ ReporterFlush

\* Server.start binds its socket; an OSError is kept for raise_for_status, any
\* other exception just ends the thread.
DsdBind ==
    /\ \/ Moves("dsd", "bind", "serve") /\ UNCHANGED dsd_error
       \/ Moves("dsd", "bind", "ended") /\ dsd_error' = TRUE
       \/ Moves("dsd", "bind", "ended") /\ UNCHANGED dsd_error
    /\ UNCHANGED <<process, handlerVars, runnerVars, forwarder, ioloop, finished, dsd_stop>>

DsdStops ==
    /\ dsd_stop
    /\ Moves("dsd", "serve", "ended")
    /\ UNCHANGED <<process, handlerVars, components>>

\* An OSError while it serves, such as a refused forward, ends the server too.
DsdFails ==
    /\ Moves("dsd", "serve", "ended")
    /\ dsd_error' = TRUE
    /\ UNCHANGED <<process, handlerVars, runnerVars, forwarder, ioloop, finished, dsd_stop>>

Dsd == DsdBind \/ DsdStops

LifecycleNext ==
    \/ Signal \/ Main \/ Handler \/ Runner \/ WorkersEnd
    \/ Api \/ Reporter \/ Dsd \/ DsdFails

LifecycleSpec == LifecycleInit /\ [][LifecycleNext]_lifecycleVars

\* Every thread is scheduled.  Nothing makes anybody send a signal or the server
\* fail.
LifecycleFairness ==
    /\ WF_lifecycleVars(Main) /\ WF_lifecycleVars(Handler)
    /\ WF_lifecycleVars(Runner) /\ WF_lifecycleVars(WorkersEnd)
    /\ WF_lifecycleVars(Api) /\ WF_lifecycleVars(Reporter) /\ WF_lifecycleVars(Dsd)

LifecycleFairSpec == LifecycleSpec /\ LifecycleFairness

-----------------------------------------------------------------------------
\* The places of each thread.
Places(t) ==
    CASE t = "main" -> {"handle", "start_handler", "start_runner", "start_api",
                        "start_reporter", "start_dsd", "join_dsd", "join_runner",
                        "join_api", "stop_handler", "close", "join_handler",
                        "shutdown", "exited", "killed"}
      [] t = "handler" -> {"unborn", "clear", "loop", "select", "read", "stop", "ended"}
      [] t = "runner" -> {"unborn", "check", "collect", "sleep", "ended"}
      [] t = "workers" -> {"run", "ended"}
      [] t = "api" -> {"unborn", "listen", "set_loop", "serve", "ended"}
      [] t = "reporter" -> {"unborn", "check", "wait", "ended"}
      [] t = "dsd" -> {"unborn", "bind", "serve", "ended"}

LifecycleTypeOK ==
    /\ DOMAIN pc = Threads /\ \A t \in Threads : pc[t] \in Places(t)
    /\ dsd_enable \in BOOLEAN /\ handled \in BOOLEAN
    /\ signals \in 0 .. MaxSignals /\ pipe \in 0 .. signals
    /\ fds \in {"open", "closed"} /\ stop_flag \in BOOLEAN
    /\ stopping \in 0 .. Len(Components) /\ (pc["handler"] = "stop" <=> stopping > 0)
    /\ runner_event \in BOOLEAN /\ last_runs \in 0 .. 2
    /\ forwarder \in {"up", "joining", "stopped"}
    /\ ioloop \in {"none", "set", "stop"}
    /\ finished \in BOOLEAN /\ dsd_stop \in BOOLEAN /\ dsd_error \in BOOLEAN

\* Once stopped, the AgentRunner finishes the collection it may be in and
\* begins no other, however the stop falls into its loop.
RunnerWindsDown == last_runs <= 1

\* Even when the AgentRunner and the API end in the middle of a stop, the process
\* leaves with the Forwarder stopped, and dogstatsd's threads told to stop.
StoppedBeforeShutdown ==
    pc["main"] \in {"shutdown", "exited"} =>
        /\ forwarder = "stopped"
        /\ dsd_enable => finished /\ dsd_stop

\* A signal whose handling finds the API's loop, or finds that the API's thread
\* has failed, ends the process.
SignalEndsAgent ==
    (Stopping("api") /\ (ioloop # "none" \/ pc["api"] = "ended")) ~> (pc["main"] = "exited")

\* A dogstatsd server that fails, at the start or later, stops its Reporter.
ReporterFollowsServer == dsd_error ~> (pc["reporter"] = "ended")

\* What is to end ends: the agent after a signal, the Reporter after its server.
EndsWhenTold == SignalEndsAgent /\ ReporterFollowsServer

\* How far the components are when the agent winds down and leaves.
LifecycleInv == LifecycleTypeOK /\ RunnerWindsDown /\ StoppedBeforeShutdown
==============================================================================
