------------------------ MODULE AgentLifecycleProofs ------------------------
(***************************************************************************)
(* Theorems about AgentLifecycle, for any number of call slots and any bound *)
(* on the calls.                                                           *)
(***************************************************************************)
EXTENDS AgentLifecycle, WellFoundedInduction, TLAPS

Early    == {"mask", "config", "log"}
LogOpen  == {"service", "server", "listening", "waiting", "signalled", "shutdown", "stopped"}
Built    == {"server", "listening", "waiting", "signalled", "shutdown", "stopped", "return"}
MayServe == Serving \cup {"shutdown"}

(* How far main has come decides what is there.                             *)
Brought ==
    /\ main \in Early => log = "none"
    /\ main \in LogOpen => log = "open"
    /\ main \in Built => service

(* Handlers run only between StartServer and the end of Shutdown.           *)
CallsWhileServing == \A c \in Calls : calls[c] # "none" => main \in MayServe

(* A line that is not flushed is one that main or a handler in AgentLogger::  *)
(* Info has just written.                                                   *)
WritersFlush == \A w \in unflushed : w = Main \/ (w \in Calls /\ calls[w] = "logging")

(* Once the log is shut nothing is left to flush.                           *)
Flushed == main = "return" => unflushed = {}

IInv == TypeOK /\ Brought /\ CallsWhileServing /\ WritersFlush /\ Flushed /\ GracefulExit

-----------------------------------------------------------------------------
(* The invariant holds when the process starts.                             *)
LEMMA InitIInv == Init => IInv
  <1> SUFFICES ASSUME Init
               PROVE  IInv
    OBVIOUS
  <1>1. TypeOK
    <2>1. pending \in BOOLEAN /\ service \in BOOLEAN
      BY Zenon DEF Init
    <2>2. calls \in [Calls -> {"none", "unary", "logging", "stream"}]
      BY DEF Init
    <2>3. started \in 0..MaxCalls
      BY CallsAssumption DEF Init
    <2> QED
      BY <2>1, <2>2, <2>3 DEF Init, TypeOK
  <1> QED
    BY <1>1
    DEF Init, IInv, Brought, CallsWhileServing, WritersFlush, Flushed, GracefulExit,
        Early, LogOpen, Built

(* Start-up: no handler runs yet, and nothing was logged by one.            *)
LEMMA StartUpIInv ==
    IInv /\ (MaskSignals \/ LoadConfig \/ InitializeLog \/ ConstructService \/ StartServer)
        => IInv'
  <1> SUFFICES ASSUME IInv,
                      MaskSignals \/ LoadConfig \/ InitializeLog \/ ConstructService \/ StartServer
               PROVE  IInv'
    OBVIOUS
  <1> USE DEF IInv, TypeOK, Brought, CallsWhileServing, WritersFlush, Flushed, GracefulExit,
              Early, LogOpen, Built, MayServe, Serving, callVars, Exit, Running
  <1>1. CASE MaskSignals
    BY <1>1 DEF MaskSignals
  <1>2. CASE LoadConfig
    BY <1>2 DEF LoadConfig
  <1>3. CASE InitializeLog
    BY <1>3 DEF InitializeLog
  <1>4. CASE ConstructService
    BY <1>4 DEF ConstructService
  <1>5. CASE StartServer
    BY <1>5 DEF StartServer
  <1> QED
    BY <1>1, <1>2, <1>3, <1>4, <1>5

(* Waiting for the signal and tearing down.  LogStopped is the step that      *)
(* needs the drained server, ShutdownLog the one that needs the flushed line. *)
LEMMA TeardownIInv ==
    IInv /\ (LogListening \/ FlushMain \/ SigWait \/ Shutdown \/ LogStopped \/ ShutdownLog
             \/ ReturnFromMain) => IInv'
  <1> SUFFICES ASSUME IInv,
                      LogListening \/ FlushMain \/ SigWait \/ Shutdown \/ LogStopped
                      \/ ShutdownLog \/ ReturnFromMain
               PROVE  IInv'
    OBVIOUS
  <1> USE DEF IInv, TypeOK, Brought, CallsWhileServing, WritersFlush, Flushed, GracefulExit,
              Early, LogOpen, Built, MayServe, Serving, callVars, Exit, Running, Main
  <1>1. CASE LogListening
    BY <1>1 DEF LogListening, LogLine
  <1>2. CASE FlushMain
    BY <1>2 DEF FlushMain, Flush
  <1>3. CASE SigWait
    BY <1>3 DEF SigWait, LogLine
  <1>4. CASE Shutdown
    BY <1>4 DEF Shutdown
  <1>5. CASE LogStopped
    BY <1>5 DEF LogStopped, LogLine, NoneRunning
  <1>6. CASE ShutdownLog
    BY <1>6 DEF ShutdownLog
  <1>7. CASE ReturnFromMain
    BY <1>7 DEF ReturnFromMain
  <1> QED
    BY <1>1, <1>2, <1>3, <1>4, <1>5, <1>6, <1>7

(* A signal only marks itself as pending, except before it is blocked.        *)
LEMMA SignalIInv == IInv /\ Signal => IInv'
  <1> SUFFICES ASSUME IInv, Signal
               PROVE  IInv'
    OBVIOUS
  <1> USE DEF IInv, TypeOK, Brought, CallsWhileServing, WritersFlush, Flushed, GracefulExit,
              Early, LogOpen, Built, MayServe, Serving, callVars, Exit, Running
  <1>1. CASE main = "mask"
    BY <1>1 DEF Signal
  <1>2. CASE main # "mask"
    BY <1>2 DEF Signal
  <1> QED
    BY <1>1, <1>2

(* The handlers.                                                            *)
LEMMA CallIInv ==
    ASSUME NEW c \in Calls, IInv,
           StartCall(c) \/ CallStep(c) \/ StreamFails(c) \/ Cancel(c)
    PROVE  IInv'
  <1> USE DEF IInv, TypeOK, Brought, CallsWhileServing, WritersFlush, Flushed, GracefulExit,
              Early, LogOpen, Built, MayServe, Serving, Running
  <1>1. CASE StartCall(c)
    BY <1>1, CallsAssumption DEF StartCall
  <1>2. CASE LogCall(c)
    BY <1>2 DEF LogCall, LogLine
  <1>3. CASE FlushCall(c)
    BY <1>3 DEF FlushCall
  <1>4. CASE ReturnCall(c)
    BY <1>4 DEF ReturnCall
  <1>5. CASE StreamReturns(c)
    BY <1>5 DEF StreamReturns
  <1>6. CASE StreamFails(c)
    BY <1>6 DEF StreamFails
  <1>7. CASE Cancel(c)
    BY <1>7 DEF Cancel
  <1> QED
    BY <1>1, <1>2, <1>3, <1>4, <1>5, <1>6, <1>7 DEF CallStep

-----------------------------------------------------------------------------
(* The inductive invariant of the Agent's start-up, service and teardown.    *)
THEOREM Invariance == Spec => []IInv
  <1>1. IInv /\ [Next]_vars => IInv'
    <2> SUFFICES ASSUME IInv, [Next]_vars
                 PROVE  IInv'
      OBVIOUS
    <2>1. CASE MainStep
      BY <2>1, StartUpIInv, TeardownIInv DEF MainStep
    <2>2. CASE Signal
      BY <2>2, SignalIInv
    <2>3. CASE \E c \in Calls : StartCall(c) \/ CallStep(c) \/ StreamFails(c) \/ Cancel(c)
      BY <2>3, CallIInv
    <2>4. CASE UNCHANGED vars
      BY <2>4 DEF vars, IInv, TypeOK, Brought, CallsWhileServing, WritersFlush, Flushed,
                  GracefulExit, Running
    <2> QED
      BY <2>1, <2>2, <2>3, <2>4 DEF Next, Exited
  <1> QED
    BY InitIInv, <1>1, PTL DEF Spec

(* The state is well formed, and the exit status is set exactly at the end.   *)
THEOREM TypeCorrectness == Spec => []TypeOK
  BY Invariance, PTL DEF IInv

(* No handler ever runs before the service and the log exist or after either  *)
(* is gone: Shutdown's wait in main protects every use of spdlog's default    *)
(* logger and of the collectors.                                            *)
THEOREM HandlersAreInside == Spec => []CallsRunInsideTheService
  <1>1. IInv => CallsRunInsideTheService
    BY DEF IInv, Brought, CallsWhileServing, CallsRunInsideTheService, Running,
           LogOpen, Built, MayServe, Serving
  <1> QED
    BY Invariance, <1>1, PTL

(* Once its signals are blocked the Agent does not die of one, and a regular  *)
(* exit has flushed every line that main or any handler logged.              *)
THEOREM ExitIsGraceful == Spec => []GracefulExit
  BY Invariance, PTL DEF IInv

-----------------------------------------------------------------------------
(* A nonempty set of numbers has a least one, and one of lines a last one.    *)
LEMMA LeastExists ==
    ASSUME NEW S, S \subseteq Nat, S # {}
    PROVE  \E x \in S : \A y \in S : x <= y
  <1> DEFINE R == OpToRel(<, Nat)
  <1>1. IsWellFoundedOn(R, Nat)
    BY NatLessThanWellFounded, Zenon
  <1>2. \A x, y \in Nat : y < x => <<y, x>> \in R
    <2> SUFFICES ASSUME NEW x \in Nat, NEW y \in Nat, y < x
                 PROVE  <<y, x>> \in R
      BY Zenon
    <2>1. <<y, x>> \in Nat \X Nat /\ <<y, x>>[1] < <<y, x>>[2]
      <3> HIDE DEF R
      <3> QED
        OBVIOUS
    <2> QED
      BY <2>1, Zenon DEF OpToRel
  <1> HIDE DEF R
  <1>3. PICK x \in S : \A y \in S : ~(<<y, x>> \in R)
    BY <1>1, WFMin
  <1>4. \A y \in S : x <= y
    <2> SUFFICES ASSUME NEW y \in S
                 PROVE  x <= y
      OBVIOUS
    <2>1. x \in Nat /\ y \in Nat
      OBVIOUS
    <2>2. ~(y < x)
      BY <2>1, <1>2, <1>3, Zenon
    <2> QED
      BY <2>1, <2>2
  <1> QED
    BY <1>4, Zenon

LEMMA LastExists ==
    ASSUME NEW n \in Nat, NEW T, T \subseteq 1..n, T # {}
    PROVE  \E i \in T : \A j \in T : j <= i
  <1> DEFINE S == {n - i : i \in T}
  <1>1. S \subseteq Nat /\ S # {}
    <2>1. PICK i \in T : i \in 1..n
      OBVIOUS
    <2>2. n - i \in S
      OBVIOUS
    <2>3. S \subseteq Nat
      OBVIOUS
    <2> QED
      BY <2>2, <2>3, Zenon
  <1>2. PICK x \in S : \A y \in S : x <= y
    <2> HIDE DEF S
    <2> QED
      BY <1>1, LeastExists
  <1>3. PICK i \in T : x = n - i
    OBVIOUS
  <1>4. \A j \in T : n - j \in S
    OBVIOUS
  <1>5. \A j \in T : j <= i
    <2> HIDE DEF S
    <2> QED
      BY <1>2, <1>3, <1>4
  <1> QED
    BY <1>5

(* The line whose value is taken assigns the key.                           *)
LEMMA LastIsAnEntry ==
    ASSUME NEW n \in Nat, NEW file, DOMAIN file = 1..n,
           NEW key, Entries(file, key) # {}
    PROVE  LastEntry(file, key) \in DOMAIN file /\ file[LastEntry(file, key)].key = key
  <1>1. Entries(file, key) \subseteq 1..n
    BY DEF Entries
  <1>2. \E i \in Entries(file, key) : \A j \in Entries(file, key) : j <= i
    BY <1>1, LastExists
  <1>3. LastEntry(file, key) \in Entries(file, key)
    BY <1>2 DEF LastEntry
  <1> QED
    BY <1>3 DEF Entries

Admissible(name) == ServiceName(name) \/ WrapsToNpos(name)

Legal(c) ==
    /\ ValidConfig(c)
    /\ \A i \in DOMAIN c.allowed_services : Admissible(c.allowed_services[i])

(* The size_t subtraction: what the name check admits is a service name, or a *)
(* name of exactly seven characters.                                        *)
LEMMA AdmittedNames ==
    ASSUME NEW name \in Names, IsValidServiceName(name)
    PROVE  Admissible(name)
  <1>1. name.size \in Nat /\ name.found \in Nat /\ name.found <= Npos
    BY ConfigAssumption DEF Names, Npos
  <1>2. name.found = Npos \/ name.found + 8 <= name.size
    BY DEF Names, Suffix
  <1>3. name.plain /\ name.size > 0 /\ name.found = SuffixPosition(name)
    BY Zenon DEF IsValidServiceName
  <1>4. CASE name.size < 8
    BY <1>1, <1>2, <1>3, <1>4, ConfigAssumption DEF SuffixPosition, Admissible, WrapsToNpos, Suffix, Npos
  <1>5. CASE ~(name.size < 8)
    BY <1>1, <1>2, <1>3, <1>5, ConfigAssumption
    DEF SuffixPosition, Admissible, ServiceName, Suffix, Npos
  <1> QED
    BY <1>4, <1>5

(* A value that was accepted keeps its key's promise.                        *)
LEMMA AcceptedValues ==
    ASSUME NEW line, IsLine(line), Accepted(line)
    PROVE  /\ line.key = "sample_interval_ms" =>
                 Stoul(line.value) \in Nat /\ IsValidInterval(line.value)
           /\ line.key = "listen_address" => line.value.colon /\ line.value.host
           /\ line.key \in {"log_file", "diagnostic_directory"} => line.value = "absolute"
           /\ line.key = "allowed_services" =>
                 \A i \in DOMAIN line.value : Admissible(line.value[i])
  <1>1. CASE line.key = "sample_interval_ms"
    <2>1. line.value \in Numbers
      BY <1>1 DEF IsLine, Values
    <2>2. line.value.digits \in Nat
      BY <2>1 DEF Numbers
    <2>3. IsValidInterval(line.value)
      BY <1>1 DEF Accepted
    <2>4. Stoul(line.value) \in Nat
      BY <2>2, <2>3, ConfigAssumption DEF IsValidInterval, Parses, Stoul
    <2> QED
      BY <1>1, <2>3, <2>4
  <1>2. CASE line.key = "listen_address"
    BY <1>2 DEF Accepted, IsValidAddress
  <1>3. CASE line.key \in {"log_file", "diagnostic_directory"}
    BY <1>3 DEF Accepted, Keys
  <1>4. CASE line.key = "allowed_services"
    <2>1. line.value \in Seq(Names)
      BY <1>4 DEF IsLine, Values, Keys
    <2>2. \A i \in DOMAIN line.value : line.value[i] \in Names
      BY <2>1
    <2>3. \A i \in DOMAIN line.value : IsValidServiceName(line.value[i])
      BY <1>4 DEF Accepted
    <2> QED
      BY <1>4, <2>2, <2>3, AdmittedNames
  <1> QED
    BY <1>1, <1>2, <1>3, <1>4

(* The constants the file does not set are admitted ones.                   *)
LEMMA DefaultIsValid == Legal(DefaultConfig)
  <1>1. ValidConfig(DefaultConfig)
    BY DEF ValidConfig, DefaultConfig, LocalAddress
  <1>2. \A i \in DOMAIN DefaultConfig.allowed_services :
            Admissible(DefaultConfig.allowed_services[i])
    BY DEF DefaultConfig, SshService, CronService, Admissible, ServiceName, Suffix
  <1> QED
    BY <1>1, <1>2 DEF Legal

(* Whatever Load accepts, of however many lines it got to read, is valid.     *)
LEMMA LoadedIsValid ==
    ASSUME NEW file \in ConfigFiles, NEW read \in Readable(file), Loads(read)
    PROVE  Legal(Parsed(read))
  <1>1. PICK n \in 0..Len(file) : read = [i \in 1..n |-> file[i]]
    BY DEF Readable
  <1>2. n \in Nat /\ DOMAIN read = 1..n
    BY <1>1, ConfigAssumption
  <1>3. \A i \in DOMAIN read : IsLine(read[i]) /\ Accepted(read[i])
    BY <1>1, ConfigAssumption DEF Loads
  <1>4. \A key : Entries(read, key) # {} =>
            /\ IsLine(read[LastEntry(read, key)]) /\ Accepted(read[LastEntry(read, key)])
            /\ read[LastEntry(read, key)].key = key
    BY <1>2, <1>3, LastIsAnEntry
  <1> DEFINE last(key) == read[LastEntry(read, key)]
             c == Parsed(read)
  <1>5. c.sample_interval \in Nat /\ c.sample_interval >= 100 /\ c.sample_interval <= 60000
    <2>1. CASE Entries(read, "sample_interval_ms") = {}
      BY <2>1 DEF Parsed
    <2>2. CASE Entries(read, "sample_interval_ms") # {}
      <3>1. Stoul(last("sample_interval_ms").value) \in Nat
            /\ IsValidInterval(last("sample_interval_ms").value)
        BY <1>4, <2>2, AcceptedValues
      <3>2. c.sample_interval = Stoul(last("sample_interval_ms").value)
        BY <2>2 DEF Parsed
      <3> QED
        BY <3>1, <3>2 DEF IsValidInterval
    <2> QED
      BY <2>1, <2>2
  <1>6. c.log_file = "absolute"
    BY <1>4, AcceptedValues DEF Parsed, Value
  <1>7. c.diagnostic_directory = "absolute"
    BY <1>4, AcceptedValues DEF Parsed, Value
  <1>8. c.listen_address.colon /\ c.listen_address.host
    <2>1. CASE Entries(read, "listen_address") = {}
      BY <2>1 DEF Parsed, Value, LocalAddress
    <2>2. CASE Entries(read, "listen_address") # {}
      BY <1>4, <2>2, AcceptedValues DEF Parsed, Value
    <2> QED
      BY <2>1, <2>2
  <1>9. \A i \in DOMAIN c.allowed_services : Admissible(c.allowed_services[i])
    <2>1. CASE Entries(read, "allowed_services") = {}
      <3>1. c.allowed_services = DefaultConfig.allowed_services
        BY <2>1 DEF Parsed, Value
      <3> QED
        BY <3>1, DefaultIsValid DEF Legal
    <2>2. CASE Entries(read, "allowed_services") # {}
      <3>1. c.allowed_services = last("allowed_services").value
        BY <2>2 DEF Parsed, Value
      <3>2. \A i \in DOMAIN last("allowed_services").value :
                Admissible(last("allowed_services").value[i])
        BY <1>4, <2>2, AcceptedValues
      <3> QED
        BY <3>1, <3>2
    <2> QED
      BY <2>1, <2>2
  <1> QED
    <2>1. ValidConfig(c)
      BY <1>5, <1>6, <1>7, <1>8 DEF ValidConfig
    <2> QED
      BY <1>9, <2>1 DEF Legal

(* The Agent never runs on a configuration it should have refused: whatever   *)
(* the files hold, and wherever reading one stops, the interval of the         *)
(* sampler is one its own assumption admits, the paths are absolute, and      *)
(* every whitelisted name that has not seven characters is a service's.       *)
THEOREM ConfigurationAlwaysValid == Spec => []ConfigurationIsValid
  <1>1. Init => ConfigurationIsValid
    BY DefaultIsValid DEF Init, ConfigurationIsValid, Legal, Admissible
  <1>2. ConfigurationIsValid /\ [Next]_vars => ConfigurationIsValid'
    <2> SUFFICES ASSUME ConfigurationIsValid, [Next]_vars
                 PROVE  ConfigurationIsValid'
      OBVIOUS
    <2>1. CASE LoadConfig
      <3>1. CASE config' = config
        BY <3>1 DEF ConfigurationIsValid
      <3>2. CASE \E file \in ConfigFiles : \E read \in Readable(file) :
                     Loads(read) /\ config' = Parsed(read)
        <4>1. Legal(config')
          BY <3>2, LoadedIsValid
        <4> QED
          BY <4>1 DEF ConfigurationIsValid, Legal, Admissible
      <3> QED
        BY <2>1, <3>1, <3>2, Zenon DEF LoadConfig
    <2>2. CASE ~LoadConfig
      <3>1. config' = config
        BY <2>2, Zenon
        DEF Next, MainStep, MaskSignals, InitializeLog, ConstructService, StartServer,
            LogListening, FlushMain, SigWait, Shutdown, LogStopped, ShutdownLog,
            ReturnFromMain, Signal, Exited, StartCall, CallStep, LogCall, FlushCall,
            ReturnCall, StreamReturns, StreamFails, Cancel, vars
      <3> QED
        BY <3>1 DEF ConfigurationIsValid
    <2> QED
      BY <2>1, <2>2
  <1> QED
    BY <1>1, <1>2, PTL DEF Spec

=============================================================================
