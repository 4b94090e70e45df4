--------------------------- MODULE AgentLifecycle ---------------------------
(***************************************************************************)
(* The Agent process from main's first line to its exit: the blocked         *)
(* signals, the order in which configuration, log, service and server are    *)
(* brought up, sigwait, and the teardown against the calls in progress.      *)
(*                                                                         *)
(* A call is a gRPC handler on a thread of its own.  A unary handler returns *)
(* by itself, after writing to the log; a streaming one (StreamLog,          *)
(* StreamSystemMetrics) loops until its context is cancelled or its source   *)
(* fails.  Server::Shutdown without a deadline refuses new calls and waits   *)
(* for the running ones; it cancels none.                                   *)
(*                                                                         *)
(* An operator X_Y beside X is X with the defect Y: it is not part of the    *)
(* specification, and shows that a property is sensitive to it.             *)
(***************************************************************************)
EXTENDS FiniteSets, AgentConfig

CONSTANTS Calls,     \* slots for concurrent calls
          MaxCalls   \* bound: calls started in all

ASSUME CallsAssumption == IsFiniteSet(Calls) /\ MaxCalls \in Nat

VARIABLES
    main,       \* where main is
    exitStatus, \* "none", "ok", "failed" (return 1), "killed" (by a signal)
    pending,    \* a SIGINT or SIGTERM arrived and sigwait has not taken it
    config,     \* AgentConfig
    log,        \* the default logger: "none", "open", "shut"
    unflushed,  \* writers whose last log line is not flushed yet
    service,    \* EdgeScopeServiceImpl is constructed
    calls,      \* for every slot: "none", "unary", "logging", "stream"
    cancelled,  \* the slots whose client cancelled the call
    started

vars == <<main, exitStatus, pending, config, log, unflushed, service, calls, cancelled, started>>
callVars == <<calls, cancelled, started>>

Main == "main"
Running == {c \in Calls : calls[c] # "none"}
Serving == {"listening", "waiting", "signalled"}

Init ==
    /\ main = "mask" /\ exitStatus = "none" /\ pending = FALSE
    /\ config = DefaultConfig
    /\ log = "none" /\ unflushed = {} /\ service = FALSE
    /\ calls = [c \in Calls |-> "none"] /\ cancelled = {} /\ started = 0

Exit(status) == main' = "exited" /\ exitStatus' = status

-----------------------------------------------------------------------------
(* main, in its order.                                                     *)
MaskSignals ==
    /\ main = "mask"
    /\ \/ main' = "config" /\ UNCHANGED exitStatus
       \/ Exit("failed")
    /\ UNCHANGED <<config, pending, log, unflushed, service, callVars>>

\* Without arguments the defaults stay; "--config FILE" loads the file; any
\* other arguments, a file that does not open or does not load end the program.
LoadConfig ==
    /\ main = "config"
    /\ \/ main' = "log" /\ UNCHANGED <<exitStatus, config>>
       \/ \E file \in ConfigFiles : \E read \in Readable(file) :
             /\ Loads(read) /\ config' = Parsed(read)
             /\ main' = "log" /\ UNCHANGED exitStatus
       \/ Exit("failed") /\ UNCHANGED config
    /\ UNCHANGED <<pending, log, unflushed, service, callVars>>

InitializeLog ==
    /\ main = "log"
    /\ \/ main' = "service" /\ log' = "open" /\ UNCHANGED exitStatus
       \/ Exit("failed") /\ UNCHANGED log
    /\ UNCHANGED <<config, pending, unflushed, service, callVars>>

ConstructService ==
    /\ main = "service"
    /\ main' = "server" /\ service' = TRUE
    /\ UNCHANGED <<config, exitStatus, pending, log, unflushed, callVars>>

\* BuildAndStart: calls arrive from here on.  When it fails the error level
\* flushes the line, the log is shut and the service destroyed.
StartServer ==
    /\ main = "server"
    /\ \/ main' = "listening" /\ UNCHANGED <<exitStatus, log, service>>
       \/ Exit("failed") /\ log' = "shut" /\ service' = FALSE
    /\ UNCHANGED <<config, pending, unflushed, callVars>>

\* AgentLogger::Info writes the line and then flushes the logger, which
\* flushes every line written before.
LogLine(writer) == log = "open" /\ unflushed' = unflushed \cup {writer}
Flush(writer) == writer \in unflushed /\ unflushed' = {}

LogListening ==
    /\ main = "listening" /\ Main \notin unflushed /\ LogLine(Main)
    /\ main' = "waiting"
    /\ UNCHANGED <<config, exitStatus, pending, log, service, callVars>>

FlushMain ==
    /\ Flush(Main)
    /\ UNCHANGED <<config, main, exitStatus, pending, log, service, callVars>>

SigWait ==
    /\ main = "waiting" /\ Main \notin unflushed /\ pending
    /\ pending' = FALSE
    /\ main' = "signalled" /\ LogLine(Main)
    /\ UNCHANGED <<config, exitStatus, log, service, callVars>>

\* server->Shutdown(): no new calls; it returns when none is running.
Shutdown ==
    /\ main = "signalled" /\ Main \notin unflushed
    /\ main' = "shutdown"
    /\ UNCHANGED <<config, exitStatus, pending, log, unflushed, service, callVars>>

NoneRunning_Unchecked == TRUE

NoneRunning == Running = {}

LogStopped ==
    /\ main = "shutdown" /\ NoneRunning /\ LogLine(Main)
    /\ main' = "stopped"
    /\ UNCHANGED <<config, exitStatus, pending, log, service, callVars>>

ShutdownLog ==
    /\ main = "stopped" /\ Main \notin unflushed
    /\ log' = "shut" /\ main' = "return"
    /\ UNCHANGED <<config, exitStatus, pending, unflushed, service, callVars>>

\* main returns: the server and then the service are destroyed.
ReturnFromMain ==
    /\ main = "return"
    /\ service' = FALSE
    /\ Exit("ok")
    /\ UNCHANGED <<config, pending, log, unflushed, callVars>>

-----------------------------------------------------------------------------
(* SIGINT or SIGTERM.  Unblocked it kills the process; blocked it is pending *)
(* until sigwait takes it, and later ones of its kind merge with it.         *)
Signal_Unmasked ==
    /\ main # "exited"
    /\ Exit("killed")
    /\ UNCHANGED <<config, pending, log, unflushed, service, callVars>>

Signal ==
    /\ main # "exited"
    /\ IF main = "mask"
       THEN Exit("killed") /\ UNCHANGED pending
       ELSE pending' = TRUE /\ UNCHANGED <<main, exitStatus>>
    /\ UNCHANGED <<config, log, unflushed, service, callVars>>

-----------------------------------------------------------------------------
StartCall(c) ==
    /\ main \in Serving /\ calls[c] = "none" /\ started < MaxCalls
    /\ started' = started + 1
    /\ \E kind \in {"unary", "stream"} : calls' = [calls EXCEPT ![c] = kind]
    /\ cancelled' = cancelled \ {c}
    /\ UNCHANGED <<config, main, exitStatus, pending, log, unflushed, service>>

\* A handler that logs (process and service control, diagnostics), and one
\* that returns without.
LogCall(c) ==
    /\ calls[c] = "unary" /\ LogLine(c)
    /\ calls' = [calls EXCEPT ![c] = "logging"]
    /\ UNCHANGED <<config, main, exitStatus, pending, log, service, cancelled, started>>

FlushCall(c) ==
    /\ calls[c] = "logging"
    /\ unflushed' = {}
    /\ calls' = [calls EXCEPT ![c] = "none"]
    /\ UNCHANGED <<config, main, exitStatus, pending, log, service, cancelled, started>>

ReturnCall(c) ==
    /\ calls[c] = "unary"
    /\ calls' = [calls EXCEPT ![c] = "none"]
    /\ UNCHANGED <<config, main, exitStatus, pending, log, unflushed, service, cancelled, started>>

StreamReturns_OnlyOnFailure(c) == FALSE /\ UNCHANGED vars

StreamReturns(c) ==
    /\ calls[c] = "stream" /\ c \in cancelled
    /\ calls' = [calls EXCEPT ![c] = "none"]
    /\ UNCHANGED <<config, main, exitStatus, pending, log, unflushed, service, cancelled, started>>

\* A sample that failed, a Write that failed.
StreamFails(c) ==
    /\ calls[c] = "stream"
    /\ calls' = [calls EXCEPT ![c] = "none"]
    /\ UNCHANGED <<config, main, exitStatus, pending, log, unflushed, service, cancelled, started>>

Cancel(c) ==
    /\ calls[c] # "none"
    /\ cancelled' = cancelled \cup {c}
    /\ UNCHANGED <<config, main, exitStatus, pending, log, unflushed, service, calls, started>>

Exited == main = "exited" /\ UNCHANGED vars

MainStep ==
    \/ MaskSignals \/ LoadConfig \/ InitializeLog \/ ConstructService \/ StartServer
    \/ LogListening \/ FlushMain \/ SigWait \/ Shutdown \/ LogStopped \/ ShutdownLog
    \/ ReturnFromMain

CallStep(c) == LogCall(c) \/ FlushCall(c) \/ ReturnCall(c) \/ StreamReturns(c)

Next ==
    \/ MainStep \/ Signal \/ Exited
    \/ \E c \in Calls : StartCall(c) \/ CallStep(c) \/ StreamFails(c) \/ Cancel(c)

Spec == Init /\ [][Next]_vars

(* The threads of the Agent run.                                           *)
AgentFairness == WF_vars(MainStep) /\ \A c \in Calls : WF_vars(CallStep(c))
FairSpec == Spec /\ AgentFairness

(* Besides, every client ends its calls some time.                          *)
FairSpecWithClients == FairSpec /\ \A c \in Calls : WF_vars(c \notin cancelled /\ Cancel(c))

-----------------------------------------------------------------------------
(* Every variable has its type.                                            *)
TypeOK ==
    /\ main \in {"mask", "config", "log", "service", "server", "listening", "waiting",
                 "signalled", "shutdown", "stopped", "return", "exited"}
    /\ exitStatus \in {"none", "ok", "failed", "killed"}
    /\ (exitStatus # "none") <=> (main = "exited")
    /\ pending \in BOOLEAN /\ log \in {"none", "open", "shut"}
    /\ unflushed \subseteq Calls \cup {Main}
    /\ service \in BOOLEAN
    /\ calls \in [Calls -> {"none", "unary", "logging", "stream"}]
    /\ cancelled \subseteq Calls /\ started \in 0..MaxCalls

(* A handler runs inside a constructed service and an open log: after        *)
(* spdlog::shutdown the default logger is null, and after main's return the  *)
(* collectors the handlers use are gone.                                    *)
CallsRunInsideTheService == Running # {} => service /\ log = "open"

(* The Agent never runs on a configuration it should have refused, however    *)
(* the file is written and wherever reading it stops: the sampler waits        *)
(* 100..60000 ms, the paths are absolute, and of the names in the whitelist   *)
(* none but those of seven characters can be something else than a service's. *)
(* Those are what OnlyServicesAllowed is about.                             *)
ConfigurationIsValid ==
    /\ ValidConfig(config)
    /\ \A i \in DOMAIN config.allowed_services :
          LET name == config.allowed_services[i] IN ServiceName(name) \/ WrapsToNpos(name)

(* README.md:82-83: only a .service that is configured in allowed_services is *)
(* shown and may be operated.  The code admits any plain name of seven        *)
(* characters besides, "x.timer" say: 7 - 8 is npos, which find returns for a *)
(* name without ".service" (AgentConfig.cpp:42).                            *)
OnlyServicesAllowed ==
    \A i \in DOMAIN config.allowed_services : ServiceName(config.allowed_services[i])

(* architecture.md:63-64: a signal causes graceful shutdown and log flushing. *)
(* Once its signals are blocked the process never dies of one, and when it   *)
(* ends in the regular way every line any thread logged is flushed.          *)
GracefulExit ==
    /\ exitStatus = "killed" => log = "none"
    /\ exitStatus = "ok" => unflushed = {} /\ Running = {} /\ ~service

(* The signal ends the process, under FairSpecWithClients; under FairSpec it  *)
(* does not, because a stream whose client stays holds the shutdown up.      *)
SignalTerminates == pending ~> main = "exited"

=============================================================================
