--------------------------- MODULE CommandRunner ---------------------------
(***************************************************************************)
(* The commands the Agent runs: PosixServiceCommandRunner::Run (systemctl    *)
(* behind a pipe) for ListServices and ControlService, and the tar child of  *)
(* CreateTarGzip, in handlers that run at the same time.                    *)
(*                                                                         *)
(* The point is what fork does to the other handlers.  Neither pipe() nor    *)
(* execv sets or honours close-on-exec here, so a child holds a copy of every *)
(* pipe end that is open in the Agent at the moment it is forked, whoever    *)
(* opened it, until it exits.  A reader sees end-of-file only when the last   *)
(* copy of the write end is gone; a writer fails only when the last copy of  *)
(* the read end is.                                                         *)
(*                                                                         *)
(* Output is counted in read buffers (4096 bytes).  Text is reduced to what  *)
(* ControlService looks for in it.                                          *)
(*                                                                         *)
(* An operator X_Y beside X is X with the defect Y: it is not part of the    *)
(* specification, and shows that a property is sensitive to it.             *)
(***************************************************************************)
EXTENDS Naturals, FiniteSets

CONSTANTS Handlers,   \* handlers that may run at the same time
          Kinds,      \* what they do: "list", "control", "bundle"
          Services,   \* the number of whitelisted services
          OutputCap,  \* kMaximumOutputBytes
          Capacity,   \* of a pipe
          Sizes,      \* how much a command writes
          MaxCalls    \* bound of the instance

ASSUME CommandAssumption ==
    /\ Kinds \subseteq {"list", "control", "bundle"}
    /\ Services \in Nat \ {0} /\ OutputCap \in Nat \ {0} /\ Capacity \in Nat \ {0}
    /\ Sizes \subseteq Nat /\ MaxCalls \in Nat

VARIABLES
    pc,         \* of a handler: "idle", "pipe", "fork", "forked", "read", "wait"
    kind,       \* what it does
    service,    \* the service a listing has come to
    status,     \* what it last returned
    ends,       \* the pipe ends the Agent has open for it
    pipe,       \* the data in its pipe
    collected,  \* result->output
    child,      \* its child: "none", "running", "zombie"
    command,    \* what that child does: output, exit code and text
    written,    \* and how much it has written
    killed,     \* it lost its reader
    writers,    \* the children that hold the write end of its pipe
    readers,    \* and the read end, each named by its handler
    known,      \* the services the listing found available
    calls

vars == <<pc, kind, service, status, ends, pipe, collected, child, command,
          written, killed, writers, readers, known, calls>>
callVars  == <<kind, status, calls>>
pipeVars  == <<ends, pipe, collected>>
childVars == <<child, command, written, killed>>
copies    == <<writers, readers>>

Texts    == {"plain", "not found", "permission"}
Commands == [size : Sizes, exit : {0, 1}, text : Texts]
Quiet    == [size |-> 0, exit |-> 0, text |-> "plain"]
Codes    == {"none", "OK", "INVALID_ARGUMENT", "NOT_FOUND", "PERMISSION_DENIED",
             "FAILED_PRECONDITION", "INTERNAL"}

Init ==
    /\ pc = [h \in Handlers |-> "idle"] /\ kind = [h \in Handlers |-> "list"]
    /\ service = [h \in Handlers |-> 0] /\ status = [h \in Handlers |-> "none"]
    /\ ends = [h \in Handlers |-> {}] /\ pipe = [h \in Handlers |-> 0]
    /\ collected = [h \in Handlers |-> 0] /\ child = [h \in Handlers |-> "none"]
    /\ command = [h \in Handlers |-> Quiet] /\ written = [h \in Handlers |-> 0]
    /\ killed = [h \in Handlers |-> FALSE]
    /\ writers = [h \in Handlers |-> {}] /\ readers = [h \in Handlers |-> {}]
    /\ known = [h \in Handlers |-> {}] /\ calls = 0

Goto(h, l) == pc' = [pc EXCEPT ![h] = l]

Return(h, s) == Goto(h, "idle") /\ status' = [status EXCEPT ![h] = s]

-----------------------------------------------------------------------------
(* A request.  ControlService refuses an action that is none, an empty name   *)
(* and a name outside the whitelist before it runs anything.                 *)
Request(h, k) ==
    /\ pc[h] = "idle" /\ calls < MaxCalls
    /\ calls' = calls + 1 /\ kind' = [kind EXCEPT ![h] = k]
    /\ service' = [service EXCEPT ![h] = 1] /\ known' = [known EXCEPT ![h] = {}]
    /\ status' = [status EXCEPT ![h] = "none"]

Start(h) ==
    /\ \E k \in Kinds : Request(h, k) /\ Goto(h, IF k = "bundle" THEN "fork" ELSE "pipe")
    /\ UNCHANGED <<pipeVars, childVars, copies>>

Refuse(h) ==
    /\ "control" \in Kinds /\ pc[h] = "idle" /\ calls < MaxCalls
    /\ calls' = calls + 1 /\ kind' = [kind EXCEPT ![h] = "control"]
    /\ \E s \in {"INVALID_ARGUMENT", "PERMISSION_DENIED"} : Return(h, s)
    /\ command' = [command EXCEPT ![h] = Quiet] /\ written' = [written EXCEPT ![h] = 0]
    /\ killed' = [killed EXCEPT ![h] = FALSE]
    /\ service' = [service EXCEPT ![h] = 1] /\ known' = [known EXCEPT ![h] = {}]
    /\ UNCHANGED <<pipeVars, child, copies>>

\* What becomes of a call whose command could not be run.
CommandFailed(h) == Return(h, IF kind[h] = "control" THEN "FAILED_PRECONDITION" ELSE "INTERNAL")

OpenPipe(h) ==
    /\ pc[h] = "pipe" /\ Goto(h, "fork")
    /\ ends' = [ends EXCEPT ![h] = {"read", "write"}]
    /\ pipe' = [pipe EXCEPT ![h] = 0]
    /\ writers' = [writers EXCEPT ![h] = {}] /\ readers' = [readers EXCEPT ![h] = {}]
    /\ UNCHANGED <<callVars, service, collected, childVars, known>>

PipeFails(h) ==
    /\ pc[h] = "pipe" /\ CommandFailed(h)
    /\ UNCHANGED <<kind, calls, service, pipeVars, childVars, copies, known>>

(* fork: the child gets a copy of every open end, and closes only the read    *)
(* end of its own pipe.  tar has no pipe of its own and is waited for at once.*)
Inherits(h, end, held) ==
    [g \in Handlers |->
        IF end \in ends[g] /\ (g = h => end = "write") THEN held[g] \cup {h} ELSE held[g]]

Fork(h) ==
    /\ pc[h] = "fork"
    /\ Goto(h, IF kind[h] = "bundle" THEN "wait" ELSE "forked")
    /\ child' = [child EXCEPT ![h] = "running"]
    /\ \E c \in Commands :
          /\ kind[h] = "bundle" => c.size = 0
          /\ c.text # "plain" => kind[h] = "control" /\ c.size > 0 /\ c.exit = 1
          /\ command' = [command EXCEPT ![h] = c]
    /\ written' = [written EXCEPT ![h] = 0] /\ killed' = [killed EXCEPT ![h] = FALSE]
    /\ writers' = Inherits(h, "write", writers) /\ readers' = Inherits(h, "read", readers)
    /\ collected' = [collected EXCEPT ![h] = 0]
    /\ UNCHANGED <<callVars, service, ends, pipe, known>>

ForkFails_LeavingPipe(h) ==
    /\ pc[h] = "fork" /\ CommandFailed(h)
    /\ UNCHANGED <<kind, calls, service, pipeVars, childVars, copies, known>>

ForkFails(h) ==
    /\ pc[h] = "fork" /\ CommandFailed(h)
    /\ ends' = [ends EXCEPT ![h] = {}]
    /\ UNCHANGED <<kind, calls, service, pipe, collected, childVars, copies, known>>

CloseWriteEnd(h) ==
    /\ pc[h] = "forked" /\ Goto(h, "read")
    /\ ends' = [ends EXCEPT ![h] = @ \ {"write"}]
    /\ UNCHANGED <<callVars, service, pipe, collected, childVars, copies, known>>

-----------------------------------------------------------------------------
(* The read loop: it ends at the cap, or at end-of-file.                     *)
StopReading(h) == Goto(h, "wait") /\ ends' = [ends EXCEPT ![h] = @ \ {"read"}]

Read(h) ==
    /\ pc[h] = "read" /\ pipe[h] > 0
    /\ pipe' = [pipe EXCEPT ![h] = @ - 1]
    /\ collected' = [collected EXCEPT ![h] = @ + 1]
    /\ IF collected[h] + 1 = OutputCap THEN StopReading(h) ELSE UNCHANGED <<pc, ends>>
    /\ UNCHANGED <<callVars, service, childVars, copies, known>>

Writable(h) == "write" \in ends[h] \/ writers[h] # {}
Readable(h) == "read" \in ends[h] \/ readers[h] # {}

AtEnd_WhenEmpty(h) == pipe[h] = 0

AtEnd(h) == pipe[h] = 0 /\ ~Writable(h)

EndOfFile(h) ==
    /\ pc[h] = "read" /\ AtEnd(h) /\ StopReading(h)
    /\ UNCHANGED <<callVars, service, pipe, collected, childVars, copies, known>>

(* The child.  When every read end is closed SIGPIPE kills it, or it gets     *)
(* EPIPE and fails by itself; either way Run sees an exit code that is not 0. *)
Exit(h) ==
    /\ child' = [child EXCEPT ![h] = "zombie"]
    /\ writers' = [g \in Handlers |-> writers[g] \ {h}]
    /\ readers' = [g \in Handlers |-> readers[g] \ {h}]

ChildWrites(h) ==
    /\ child[h] = "running" /\ written[h] < command[h].size
    /\ Readable(h) /\ pipe[h] < Capacity
    /\ pipe' = [pipe EXCEPT ![h] = @ + 1] /\ written' = [written EXCEPT ![h] = @ + 1]
    /\ UNCHANGED <<pc, callVars, service, ends, collected, child, command, killed, copies, known>>

ChildLosesReader(h) ==
    /\ child[h] = "running" /\ written[h] < command[h].size /\ ~Readable(h)
    /\ killed' = [killed EXCEPT ![h] = TRUE] /\ Exit(h)
    /\ UNCHANGED <<pc, callVars, service, pipeVars, command, written, known>>

ChildExits(h) ==
    /\ child[h] = "running" /\ written[h] = command[h].size /\ Exit(h)
    /\ UNCHANGED <<pc, callVars, service, pipeVars, command, written, killed, known>>

-----------------------------------------------------------------------------
(* waitpid, and what the caller makes of the result.                         *)
Succeeded(h) == command[h].exit = 0 /\ ~killed[h]

ControlStatus(h) ==
    CASE Succeeded(h)                   -> "OK"
      [] command[h].text = "not found"  -> "NOT_FOUND"
      [] command[h].text = "permission" -> "PERMISSION_DENIED"
      [] OTHER                          -> "FAILED_PRECONDITION"

Reaped(h) ==
    /\ pc[h] = "wait" /\ child[h] = "zombie"
    /\ child' = [child EXCEPT ![h] = "none"]
    /\ UNCHANGED <<kind, calls, pipeVars, command, written, killed, copies>>

ListNext_SameService(h) ==
    /\ kind[h] = "list" /\ Reaped(h)
    /\ IF service[h] < Services THEN Goto(h, "pipe") /\ UNCHANGED status ELSE Return(h, "OK")
    /\ UNCHANGED <<service, known>>

\* An entry is available when the command succeeded and printed a LoadState.
ListNext(h) ==
    /\ kind[h] = "list" /\ Reaped(h)
    /\ known' = [known EXCEPT ![h] = IF Succeeded(h) /\ collected[h] > 0
                                     THEN @ \cup {service[h]} ELSE @]
    /\ IF service[h] < Services
       THEN Goto(h, "pipe") /\ service' = [service EXCEPT ![h] = @ + 1] /\ UNCHANGED status
       ELSE Return(h, "OK") /\ UNCHANGED service

ControlDone(h) ==
    /\ kind[h] = "control" /\ Reaped(h) /\ Return(h, ControlStatus(h))
    /\ UNCHANGED <<service, known>>

BundleDone(h) ==
    /\ kind[h] = "bundle" /\ Reaped(h) /\ Return(h, IF Succeeded(h) THEN "OK" ELSE "INTERNAL")
    /\ UNCHANGED <<service, known>>

\* The instance's calls are used up.
Rest == calls = MaxCalls /\ (\A h \in Handlers : pc[h] = "idle") /\ UNCHANGED vars

Handler(h) ==
    \/ OpenPipe(h) \/ PipeFails(h) \/ Fork(h) \/ ForkFails(h) \/ CloseWriteEnd(h)
    \/ Read(h) \/ EndOfFile(h) \/ ListNext(h) \/ ControlDone(h) \/ BundleDone(h)
Child(h) == ChildWrites(h) \/ ChildLosesReader(h) \/ ChildExits(h)
Next == (\E h \in Handlers : Start(h) \/ Refuse(h) \/ Handler(h) \/ Child(h)) \/ Rest

Spec == Init /\ [][Next]_vars

(* The handlers' threads and the commands run; a command that does not        *)
(* terminate by itself is not considered, Run would wait for it.             *)
FairSpec == Spec /\ \A h \in Handlers : WF_vars(Handler(h)) /\ WF_vars(Child(h))
-----------------------------------------------------------------------------
(* Every variable has its type; only live children hold pipe ends, and a      *)
(* handler that returned has closed its pipe and reaped its child, on every   *)
(* path through Run and CreateTarGzip: descriptors and zombies do not pile up.*)
TypeOK ==
    /\ pc \in [Handlers -> {"idle", "pipe", "fork", "forked", "read", "wait"}]
    /\ kind \in [Handlers -> {"list", "control", "bundle"}]
    /\ service \in [Handlers -> 0..Services] /\ known \in [Handlers -> SUBSET (1..Services)]
    /\ status \in [Handlers -> Codes] /\ ends \in [Handlers -> SUBSET {"read", "write"}]
    /\ pipe \in [Handlers -> 0..Capacity] /\ collected \in [Handlers -> 0..OutputCap]
    /\ child \in [Handlers -> {"none", "running", "zombie"}]
    /\ command \in [Handlers -> Commands \cup {Quiet}] /\ killed \in [Handlers -> BOOLEAN]
    /\ written \in [Handlers -> Nat] /\ \A h \in Handlers : written[h] <= command[h].size
    /\ writers \in [Handlers -> SUBSET Handlers] /\ readers \in [Handlers -> SUBSET Handlers]
    /\ \A g, h \in Handlers : h \in writers[g] \cup readers[g] => child[h] = "running"
    /\ \A h \in Handlers : pc[h] = "idle" => ends[h] = {} /\ child[h] = "none"
    /\ calls \in 0..MaxCalls

(* When Run has stopped reading it has the command's whole output, up to the  *)
(* cap, whatever copies of the pipe other children hold or let go of: a      *)
(* command whose output fits is never cut short, nor killed by SIGPIPE and    *)
(* then reported as failed.                                                *)
OutputIsWhole ==
    \A h \in Handlers :
        pc[h] = "wait" /\ kind[h] # "bundle" =>
            collected[h] = IF command[h].size < OutputCap THEN command[h].size ELSE OutputCap

(* Every call returns, although it may have to wait for the children of other *)
(* handlers that hold its pipe.  It holds while a command writes no more than *)
(* OutputCap + Capacity: beyond that two commands whose children hold each    *)
(* other's read end block each other, since neither is told that its reader   *)
(* has stopped.                                                            *)
CallsReturn == \A h \in Handlers : pc[h] # "idle" ~> pc[h] = "idle"

=============================================================================
