------------------------- MODULE CommandLineClient -------------------------
(***************************************************************************)
(* edgescope-cli: main calls the Agent through EdgeScopeClient, one call      *)
(* after the other, and ends with the first that fails.  --diagnostic is the  *)
(* download of DiagnosticTransfer, whose steps are taken from there; the      *)
(* "worker" of that module, the desktop client, runs no step of this one.     *)
(*                                                                         *)
(* Every unary call has a deadline.  StreamSystemMetrics and StreamLog have   *)
(* none: they end when the Agent ends them, the connection breaks, or main    *)
(* cancels them.  Of a reply the model keeps whether it is an error.         *)
(*                                                                         *)
(* An operator X_Y beside X is X with the defect Y: it is not part of the    *)
(* specification, and shows that a property is sensitive to it.             *)
(***************************************************************************)
EXTENDS DiagnosticTransfer, Integers

CONSTANTS
    CommandLines,  \* [option, number, action]: number is what stands where PID
                   \* or COUNT does, "" when nothing does
    Int32Max, Int64Max, Word,  \* 2^31 - 1, 2^63 - 1, 2^64
    MaxCount,      \* of --stream-log: 1000
    MaxLogs,       \* available logs in the instance
    MaxMessages    \* messages of a stream in the instance

(* The arguments.  std::stoll and std::stoul skip blanks, take a sign, and     *)
(* say where they stopped; trailing is what they left.                      *)
Text == [parses : BOOLEAN, value : Int, trailing : BOOLEAN]

ASSUME CliAssumption ==
    /\ Int32Max \in Nat /\ Int64Max \in Nat /\ Word \in Nat /\ MaxCount \in Nat
    /\ MaxLogs \in Nat /\ MaxMessages \in Nat
    /\ \A l \in CommandLines : l.number \in Text

VARIABLES
    line,       \* the command line
    step,       \* the call main is in, "diagnostic", "exited"; "desktop" for RpcWorker
    exit,       \* the exit status, -1 before
    reply,      \* to the unary call: "none", "OK", "error"
    granted,    \* the calls the Agent answered with OK
    logs,       \* available logs not yet tried
    asked,      \* the pid of a ControlProcess the Agent has not handled
    signalled,  \* the pids it signalled for this program
    shown,      \* messages of the stream printed
    queued,     \* messages on their way
    written,    \* messages the Agent wrote
    ended,      \* the status the stream ended with on its way to the client, or "none"
    cancelled   \* TryCancel was called

streamVars == <<shown, queued, written, ended, cancelled>>
callVars   == <<reply, granted, logs, asked, signalled>>
cliVars    == <<line, step, exit, callVars, streamVars>>
allVars    == <<vars, cliVars>>

-----------------------------------------------------------------------------
Int32(n) == ((n + Int32Max + 1) % (2 * (Int32Max + 1))) - (Int32Max + 1)

\* 0 stands for false; 0 is not a pid that parses.
ParsePid_Narrowing(text) ==
    IF text.parses /\ text.value \in (-Int64Max - 1)..Int64Max /\ ~text.trailing /\ Int32(text.value) > 0
    THEN Int32(text.value) ELSE 0

ParsePid(text) ==
    IF /\ text.parses /\ text.value \in (-Int64Max - 1)..Int64Max
       /\ ~text.trailing /\ text.value > 0 /\ text.value <= Int32Max
    THEN Int32(text.value) ELSE 0

ParseControlAction(action) == action \in {"term", "kill", "stop", "continue"}

\* std::stoul negates modulo 2^64 after a minus sign, and main does not ask where
\* it stopped.
Wanted(text) ==
    IF text.parses /\ text.value \in (1 - Word)..(Word - 1) THEN text.value % Word ELSE 0

MaxSamples == 3
Limit == IF step = "StreamLog" THEN Wanted(line.number) ELSE MaxSamples

-----------------------------------------------------------------------------
CliInit ==
    /\ Init
    /\ line \in CommandLines /\ (front = "worker" => line.option = "other")
    /\ step = IF front = "cli" THEN "GetAgentInfo" ELSE "desktop"
    /\ exit = -1 /\ reply = "none" /\ granted = {} /\ logs = 0
    /\ asked = {} /\ signalled = {}
    /\ shown = 0 /\ queued = 0 /\ written = 0 /\ ended = "none" /\ cancelled = FALSE

Go(s) == step' = s /\ reply' = "none" /\ UNCHANGED exit

Return(status_) == step' = "exited" /\ exit' = status_ /\ UNCHANGED reply

Answered(s) == step = s /\ reply = "OK"

(* After GetAgentInfo: the arguments are looked at only now.                 *)
Dispatch ==
    /\ Answered("GetAgentInfo")
    /\ \/ line.option = "none" /\ Go("GetSystemMetrics") /\ UNCHANGED asked
       \/ line.option = "--diagnostic" /\ Go("diagnostic") /\ UNCHANGED asked
       \/ /\ line.option = "--stream-log" /\ UNCHANGED asked
          /\ IF Wanted(line.number) \in 1..MaxCount THEN Go("StreamLog") ELSE Return(1)
       \/ /\ line.option = "--control"
          /\ IF ParsePid(line.number) # 0 /\ ParseControlAction(line.action)
             THEN Go("ControlProcess") /\ asked' = {ParsePid(line.number)}
             ELSE Return(1) /\ UNCHANGED asked
       \/ line.option = "other" /\ Return(1) /\ UNCHANGED asked
    /\ UNCHANGED <<vars, line, granted, logs, signalled, streamVars>>

ControlSucceeded ==
    /\ Answered("ControlProcess") /\ Return(0)
    /\ UNCHANGED <<vars, line, granted, logs, asked, signalled, streamVars>>

(* The overview.  Details are asked for the first process of the list.       *)
Following ==
    [GetSystemMetrics     |-> {"StreamSystemMetrics"},
     ListProcesses        |-> {"GetProcessDetails", "GetNetworkInterfaces"},
     GetProcessDetails    |-> {"GetNetworkInterfaces"},
     GetNetworkInterfaces |-> {"ListTcpConnections"},
     ListTcpConnections   |-> {"ListLogs"}]

NextCall ==
    /\ \E s \in DOMAIN Following : Answered(s) /\ \E next \in Following[s] : Go(next)
    /\ UNCHANGED <<vars, line, granted, logs, asked, signalled, streamVars>>

\* The first available log that can be read is shown; one that cannot is skipped.
TryLogs(n) == logs' = n /\ Go(IF n = 0 THEN "ListServices" ELSE "ReadLog")

ReadFirstLog ==
    /\ \/ Answered("ListLogs") /\ \E n \in 0..MaxLogs : TryLogs(n)
       \/ step = "ReadLog" /\ reply = "error" /\ TryLogs(logs - 1)
       \/ Answered("ReadLog") /\ TryLogs(0)
    /\ UNCHANGED <<vars, line, granted, asked, signalled, streamVars>>

ServicesListed ==
    /\ Answered("ListServices") /\ Return(0)
    /\ UNCHANGED <<vars, line, granted, logs, asked, signalled, streamVars>>

CallFailed ==
    /\ reply = "error" /\ step \notin {"ReadLog", "exited"} /\ Return(1)
    /\ UNCHANGED <<vars, line, granted, logs, asked, signalled, streamVars>>

UnaryCalls == DOMAIN Following \cup {"GetAgentInfo", "ControlProcess", "ListLogs", "ReadLog", "ListServices"}

\* The deadline of three seconds, or a connection that breaks.
DeadlinePasses_Never == FALSE /\ UNCHANGED allVars

DeadlinePasses ==
    /\ step \in UnaryCalls /\ reply = "none" /\ reply' = "error"
    /\ UNCHANGED <<vars, line, step, exit, granted, logs, asked, signalled, streamVars>>

-----------------------------------------------------------------------------
(* The Agent.  It handles a ControlProcess also when nobody waits any more.   *)
Signal ==
    /\ asked # {} /\ asked' = {}
    /\ signalled' = asked
    /\ UNCHANGED <<vars, line, step, exit, reply, granted, logs, streamVars>>

Answer ==
    /\ step \in UnaryCalls /\ reply = "none"
    /\ \/ /\ step = "ControlProcess" => signalled # {}
          /\ reply' = "OK" /\ granted' = granted \cup {step} /\ UNCHANGED asked
       \/ /\ step = "ControlProcess" => asked # {}
          /\ reply' = "error" /\ asked' = {} /\ UNCHANGED granted
    /\ UNCHANGED <<vars, line, step, exit, logs, signalled, streamVars>>

Streams == {"StreamSystemMetrics", "StreamLog"}

Write ==
    /\ step \in Streams /\ ended = "none" /\ written < MaxMessages
    /\ written' = written + 1 /\ queued' = queued + 1
    /\ UNCHANGED <<vars, line, step, exit, callVars, shown, ended, cancelled>>

\* The handler returns, or the stream is reset on its way: then messages are lost.
StreamEnded ==
    /\ step \in Streams /\ ended = "none"
    /\ \/ ended' \in {"OK", "INTERNAL"} /\ UNCHANGED queued
       \/ ended' \in {"UNAVAILABLE", "CANCELLED"} /\ queued' = 0
    /\ UNCHANGED <<vars, line, step, exit, callVars, shown, written, cancelled>>

-----------------------------------------------------------------------------
(* The streams.  After MaxSamples StreamSystemMetrics stops reading; StreamLog *)
(* goes on until Read fails, and prints what still arrives.                  *)
ReadMessage ==
    /\ step \in Streams /\ queued > 0
    /\ step = "StreamSystemMetrics" => ~cancelled
    /\ queued' = queued - 1 /\ shown' = shown + 1
    /\ cancelled' = (shown' >= Limit)
    /\ UNCHANGED <<vars, line, step, exit, callVars, written, ended>>

\* What Finish returns: a status that had arrived wins against the cancellation.
StreamStatus == IF cancelled THEN {ended, "CANCELLED"} \ {"none"}
                ELSE IF queued = 0 THEN {ended} \ {"none"} ELSE {}

SamplesAccepted_AnyCancel(s) == s \in {"OK", "CANCELLED"}

SamplesAccepted(s) == s = "OK" \/ (cancelled /\ s = "CANCELLED")

SamplesShown ==
    /\ step = "StreamSystemMetrics"
    /\ \E s \in StreamStatus : IF SamplesAccepted(s) THEN Go("ListProcesses") ELSE Return(1)
    /\ UNCHANGED <<vars, line, granted, logs, asked, signalled, streamVars>>

LinesShown ==
    /\ step = "StreamLog"
    /\ \E s \in StreamStatus : Return(IF s \in {"OK", "CANCELLED"} THEN 0 ELSE 1)
    /\ UNCHANGED <<vars, line, granted, logs, asked, signalled, streamVars>>

(* --diagnostic.                                                            *)
Transfers == (line.option = "--diagnostic" /\ step \in {"diagnostic", "exited"}) \/ step = "desktop"

BundleDone ==
    /\ step = "diagnostic" /\ client = "done"
    /\ Return(IF outcome = "saved" THEN 0 ELSE 1)
    /\ UNCHANGED <<vars, line, granted, logs, asked, signalled, streamVars>>

Transfer(A) == Transfers /\ A /\ UNCHANGED cliVars

Main == Dispatch \/ ControlSucceeded \/ NextCall \/ ReadFirstLog \/ ServicesListed \/ CallFailed
        \/ ReadMessage \/ SamplesShown \/ LinesShown \/ BundleDone \/ Transfer(Client)
Agent == Signal \/ Answer \/ Write \/ StreamEnded \/ Transfer(Server)
Terminated == step = "exited" /\ UNCHANGED allVars

CliNext == Main \/ Agent \/ DeadlinePasses \/ Transfer(StreamBreaks) \/ Transfer(Done) \/ Terminated

(* The clients' threads run and their deadlines expire; nothing is asked of    *)
(* the Agent, which may hang.                                               *)
CliSpec == /\ CliInit /\ [][CliNext]_allVars
           /\ WF_allVars(Main) /\ WF_allVars(DeadlinePasses) /\ WF_allVars(Transfer(StreamBreaks))

-----------------------------------------------------------------------------
Required == UnaryCalls \ {"ControlProcess", "GetProcessDetails", "ReadLog"}

(* An exit status of 0 says that what was asked for was done, though a call    *)
(* may fail, time out or be cut off anywhere (main.cpp 85-348).  The overview  *)
(* has every part of itself, three samples among them unless the Agent itself *)
(* ended that stream; the process was signalled; the bundle is complete,      *)
(* unless a failure of the disk was Unnoticed; and a log was followed up to   *)
(* COUNT lines or to the end of the stream, where a reset by anyone else      *)
(* counts as an end, since main accepts every CANCELLED.                     *)
SuccessIsComplete ==
    exit = 0 =>
        /\ line.option = "none" => Required \subseteq granted /\ (shown = MaxSamples \/ ended = "OK")
        /\ line.option = "--control" => signalled # {}
        /\ line.option = "--diagnostic" => (opened /\ file = Archive) \/ Unnoticed
        /\ line.option = "--stream-log" =>
              shown >= Wanted(line.number) \/ ended \in {"OK", "CANCELLED"}
        /\ line.option # "other"

(* A ControlProcess, also one whose answer comes too late for main, concerns   *)
(* exactly the process whose number was typed: a number with anything after   *)
(* it, or one that would become another pid in 32 bits, is refused            *)
(* (ParsePid, main.cpp 58-71).                                              *)
ControlsAsTyped ==
    \A pid \in asked \cup signalled :
        /\ line.option = "--control" /\ ParseControlAction(line.action)
        /\ line.number = [parses |-> TRUE, value |-> pid, trailing |-> FALSE] /\ pid > 0

(* Both programs end a download, and main every run, also when the Agent has   *)
(* stopped answering; except while it follows a stream, which has no deadline.*)
ProgramEnds ==
    \/ <>(client = "done" \/ step = "exited")
    \/ <>[](step \in Streams)

=============================================================================
