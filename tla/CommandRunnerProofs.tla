------------------------- MODULE CommandRunnerProofs -------------------------
(***************************************************************************)
(* Theorems about CommandRunner, for any number of concurrent handlers, any   *)
(* cap, pipe capacity and sizes of output.                                  *)
(***************************************************************************)
EXTENDS CommandRunner, TLAPS

Reading == {"forked", "read"}

(* What a handler holds is decided by how far its call has come.             *)
Holding(h) ==
    /\ pc[h] \in {"idle", "pipe", "wait"} => ends[h] = {}
    /\ pc[h] = "fork" => ends[h] = IF kind[h] = "bundle" THEN {} ELSE {"read", "write"}
    /\ pc[h] = "read" => ends[h] = {"read"}
    /\ kind[h] = "bundle" => pc[h] \in {"idle", "fork", "wait"}
    /\ pc[h] \in {"idle", "pipe", "fork"} <=> child[h] = "none"
    /\ pc[h] # "idle" => service[h] > 0

(* While the handler has not stopped reading, what its command wrote is in    *)
(* the pipe or collected; the reader is there, so the command is not killed,  *)
(* and if it has exited it wrote everything.                                *)
Conserved(h) ==
    /\ pc[h] = "fork" /\ kind[h] # "bundle" => pipe[h] = 0
    /\ pc[h] \in Reading =>
           /\ "read" \in ends[h] /\ ~killed[h]
           /\ written[h] = pipe[h] + collected[h] /\ collected[h] < OutputCap
           /\ child[h] = "running" => h \in writers[h]
           /\ child[h] = "zombie" => written[h] = command[h].size

(* OutputIsWhole of one handler.                                            *)
Whole(h) ==
    pc[h] = "wait" /\ kind[h] # "bundle" =>
        collected[h] = IF command[h].size < OutputCap THEN command[h].size ELSE OutputCap

IInv == TypeOK /\ OutputIsWhole /\ \A h \in Handlers : Holding(h) /\ Conserved(h)

-----------------------------------------------------------------------------
(* The invariant holds before the first request.                            *)
LEMMA InitIInv == Init => IInv
  <1> SUFFICES ASSUME Init
               PROVE  IInv
    OBVIOUS
  <1>1. TypeOK
    <2>1. killed \in [Handlers -> BOOLEAN]
      BY DEF Init
    <2> QED
      BY <2>1, CommandAssumption DEF Init, TypeOK, Codes, Quiet
  <1> QED
    BY <1>1 DEF Init, IInv, OutputIsWhole, Holding, Conserved, Reading

(* The counters are numbers.                                                *)
LEMMA Numbers ==
    ASSUME TypeOK, NEW h \in Handlers
    PROVE  /\ pipe[h] \in Nat /\ collected[h] \in Nat /\ written[h] \in Nat
           /\ command[h].size \in Nat /\ written[h] <= command[h].size
           /\ OutputCap \in Nat /\ Capacity \in Nat
  <1>1. OutputCap \in Nat /\ Capacity \in Nat
    BY CommandAssumption
  <1>2. /\ pipe[h] \in Nat /\ collected[h] \in Nat
        /\ written[h] \in Nat /\ written[h] <= command[h].size
    BY <1>1 DEF TypeOK
  <1>3. command[h].size \in Nat
    <2>1. CASE command[h] \in Commands
      <3>1. command[h].size \in Sizes
        BY <2>1 DEF Commands
      <3> QED
        BY <3>1, CommandAssumption
    <2>2. CASE command[h] = Quiet
      <3>1. Quiet.size = 0
        BY DEF Quiet
      <3> QED
        BY <2>2, <3>1
    <2> QED
      BY <2>1, <2>2 DEF TypeOK
  <1> QED
    BY <1>1, <1>2, <1>3

(* What a step does to the handlers it does not belong to: it leaves their     *)
(* calls alone.  A fork adds to the holders of their pipes, an exit removes   *)
(* the exiting child from them.                                             *)
OthersKept(h) ==
    \A g \in Handlers \ {h} :
        /\ pc'[g] = pc[g] /\ kind'[g] = kind[g] /\ ends'[g] = ends[g] /\ pipe'[g] = pipe[g]
        /\ collected'[g] = collected[g] /\ child'[g] = child[g] /\ command'[g] = command[g]
        /\ written'[g] = written[g] /\ killed'[g] = killed[g] /\ service'[g] = service[g]
        /\ g \in writers[g] => g \in writers'[g]

(* So the invariant of a step is a matter of the handler that makes it.       *)
LEMMA OwnStep ==
    ASSUME NEW h \in Handlers, IInv, TypeOK', OthersKept(h),
           Holding(h)', Conserved(h)',
           Whole(h)'
    PROVE  IInv'
  <1>1. ASSUME NEW g \in Handlers \ {h}
        PROVE  Holding(g)' /\ Conserved(g)' /\ Whole(g)'
    BY <1>1 DEF IInv, OthersKept, Holding, Conserved, OutputIsWhole, Whole, Reading
  <1> QED
    BY <1>1 DEF IInv, OutputIsWhole, Whole
-----------------------------------------------------------------------------
(* The calls, action by action.                                             *)
(* A request begins, or is refused at once.                                 *)
LEMMA StartIInv ==
    ASSUME NEW h \in Handlers, IInv, Start(h)
    PROVE  IInv'
  <1> USE CommandAssumption DEF Start, Request, Goto, callVars, pipeVars, childVars, copies
  <1>1. TypeOK'
    BY DEF IInv, TypeOK, Holding, Conserved, Commands, Codes, Reading
  <1>2. OthersKept(h)
    BY DEF IInv, TypeOK, OthersKept
  <1>3. Holding(h)' /\ Conserved(h)' /\ Whole(h)'
    BY DEF IInv, TypeOK, Holding, Conserved, Whole, OutputIsWhole, Reading
  <1> QED
    BY <1>1, <1>2, <1>3, OwnStep

(* A refused request runs nothing.                                          *)
LEMMA RefuseIInv ==
    ASSUME NEW h \in Handlers, IInv, Refuse(h)
    PROVE  IInv'
  <1> USE CommandAssumption DEF Refuse, Return, Goto, Quiet, callVars, pipeVars, childVars, copies
  <1>1. TypeOK'
    BY DEF IInv, TypeOK, Holding, Conserved, Commands, Codes, Reading
  <1>2. OthersKept(h)
    BY DEF IInv, TypeOK, OthersKept
  <1>3. Holding(h)' /\ Conserved(h)' /\ Whole(h)'
    BY DEF IInv, TypeOK, Holding, Conserved, Whole, OutputIsWhole, Reading
  <1> QED
    BY <1>1, <1>2, <1>3, OwnStep

(* pipe() gives two new ends that no child holds yet.                        *)
LEMMA OpenPipeIInv ==
    ASSUME NEW h \in Handlers, IInv, OpenPipe(h)
    PROVE  IInv'
  <1> USE CommandAssumption DEF OpenPipe, Goto, callVars, pipeVars, childVars, copies
  <1>1. TypeOK'
    BY DEF IInv, TypeOK, Holding, Conserved, Commands, Codes, Reading
  <1>2. OthersKept(h)
    BY DEF IInv, TypeOK, OthersKept
  <1>3. Holding(h)' /\ Conserved(h)' /\ Whole(h)'
    BY DEF IInv, TypeOK, Holding, Conserved, Whole, OutputIsWhole, Reading
  <1> QED
    BY <1>1, <1>2, <1>3, OwnStep

(* Without a pipe there is nothing to close.                                *)
LEMMA PipeFailsIInv ==
    ASSUME NEW h \in Handlers, IInv, PipeFails(h)
    PROVE  IInv'
  <1> USE CommandAssumption DEF PipeFails, CommandFailed, Return, Goto, callVars, pipeVars, childVars, copies
  <1>1. TypeOK'
    BY DEF IInv, TypeOK, Holding, Conserved, Commands, Codes, Reading
  <1>2. OthersKept(h)
    BY DEF IInv, TypeOK, OthersKept
  <1>3. Holding(h)' /\ Conserved(h)' /\ Whole(h)'
    BY DEF IInv, TypeOK, Holding, Conserved, Whole, OutputIsWhole, Reading
  <1> QED
    BY <1>1, <1>2, <1>3, OwnStep

(* The child holds the write end of its own pipe, whatever else it inherits.  *)
LEMMA ForkIInv ==
    ASSUME NEW h \in Handlers, IInv, Fork(h)
    PROVE  IInv'
  <1>1. /\ pc[h] = "fork" /\ child' = [child EXCEPT ![h] = "running"]
        /\ pc' = [pc EXCEPT ![h] = IF kind[h] = "bundle" THEN "wait" ELSE "forked"]
        /\ written' = [written EXCEPT ![h] = 0] /\ killed' = [killed EXCEPT ![h] = FALSE]
        /\ collected' = [collected EXCEPT ![h] = 0]
        /\ UNCHANGED <<kind, status, calls, service, ends, pipe, known>>
    BY DEF Fork, Goto, callVars
  <1>2. PICK c \in Commands : command' = [command EXCEPT ![h] = c]
    BY DEF Fork
  <1>3. /\ writers' = [g \in Handlers |->
                          IF "write" \in ends[g] THEN writers[g] \cup {h} ELSE writers[g]]
        /\ readers' = [g \in Handlers |->
                          IF "read" \in ends[g] /\ g # h THEN readers[g] \cup {h} ELSE readers[g]]
    BY DEF Fork, Inherits
  <1>4. TypeOK'
    <2>1. writers \in [Handlers -> SUBSET Handlers] /\ readers \in [Handlers -> SUBSET Handlers]
      BY DEF IInv, TypeOK
    <2>2. /\ writers' \in [Handlers -> SUBSET Handlers]
          /\ readers' \in [Handlers -> SUBSET Handlers]
      BY <1>3, <2>1
    <2>3. /\ child \in [Handlers -> {"none", "running", "zombie"}]
          /\ \A g, f \in Handlers : f \in writers[g] \cup readers[g] => child[f] = "running"
          /\ \A g \in Handlers : pc[g] = "idle" => ends[g] = {} /\ child[g] = "none"
          /\ pc \in [Handlers -> {"idle", "pipe", "fork", "forked", "read", "wait"}]
      BY DEF IInv, TypeOK
    <2>4. /\ child' \in [Handlers -> {"none", "running", "zombie"}]
          /\ \A g, f \in Handlers : f \in writers'[g] \cup readers'[g] => child'[f] = "running"
      BY <1>1, <1>3, <2>3
    <2>5. /\ pc' \in [Handlers -> {"idle", "pipe", "fork", "forked", "read", "wait"}]
          /\ \A g \in Handlers : pc'[g] = "idle" => ends'[g] = {} /\ child'[g] = "none"
      BY <1>1, <2>3
    <2>6. c.size \in Nat
      BY CommandAssumption DEF Commands
    <2>7. /\ command' \in [Handlers -> Commands \cup {Quiet}]
          /\ written' \in [Handlers -> Nat]
          /\ \A g \in Handlers : written'[g] <= command'[g].size
      BY <1>1, <1>2, <2>6 DEF IInv, TypeOK
    <2>8. collected' \in [Handlers -> 0..OutputCap] /\ killed' \in [Handlers -> BOOLEAN]
      BY <1>1, CommandAssumption DEF IInv, TypeOK
    <2> QED
      BY <1>1, <2>2, <2>4, <2>5, <2>7, <2>8 DEF IInv, TypeOK
  <1>5. OthersKept(h)
    BY <1>1, <1>2, <1>3 DEF IInv, TypeOK, OthersKept
  <1>6. Holding(h)' /\ Conserved(h)' /\ Whole(h)'
    BY <1>1, <1>2, <1>3, CommandAssumption
    DEF IInv, TypeOK, Holding, Conserved, Whole, Reading
  <1> QED
    BY <1>4, <1>5, <1>6, OwnStep

(* A failed fork closes both ends.                                          *)
LEMMA ForkFailsIInv ==
    ASSUME NEW h \in Handlers, IInv, ForkFails(h)
    PROVE  IInv'
  <1> USE CommandAssumption DEF ForkFails, CommandFailed, Return, Goto, callVars, pipeVars, childVars, copies
  <1>1. TypeOK'
    BY DEF IInv, TypeOK, Holding, Conserved, Commands, Codes, Reading
  <1>2. OthersKept(h)
    BY DEF IInv, TypeOK, OthersKept
  <1>3. Holding(h)' /\ Conserved(h)' /\ Whole(h)'
    BY DEF IInv, TypeOK, Holding, Conserved, Whole, OutputIsWhole, Reading
  <1> QED
    BY <1>1, <1>2, <1>3, OwnStep

(* The Agent's own write end is closed before the first read.               *)
LEMMA CloseWriteEndIInv ==
    ASSUME NEW h \in Handlers, IInv, CloseWriteEnd(h)
    PROVE  IInv'
  <1> USE CommandAssumption DEF CloseWriteEnd, Goto, callVars, pipeVars, childVars, copies
  <1>1. TypeOK'
    BY DEF IInv, TypeOK, Holding, Conserved, Commands, Codes, Reading
  <1>2. OthersKept(h)
    BY DEF IInv, TypeOK, OthersKept
  <1>3. Holding(h)' /\ Conserved(h)' /\ Whole(h)'
    BY DEF IInv, TypeOK, Holding, Conserved, Whole, OutputIsWhole, Reading
  <1> QED
    BY <1>1, <1>2, <1>3, OwnStep

(* A read moves a buffer from the pipe; at the cap the loop ends.            *)
LEMMA ReadIInv ==
    ASSUME NEW h \in Handlers, IInv, Read(h)
    PROVE  IInv'
  <1>1. /\ pc[h] = "read" /\ pipe[h] > 0 /\ collected[h] < OutputCap
        /\ written[h] = pipe[h] + collected[h] /\ ends[h] = {"read"}
    BY DEF Read, IInv, Holding, Conserved, Reading
  <1>0. /\ pipe' = [pipe EXCEPT ![h] = @ - 1] /\ collected' = [collected EXCEPT ![h] = @ + 1]
        /\ IF collected[h] + 1 = OutputCap
           THEN pc' = [pc EXCEPT ![h] = "wait"] /\ ends' = [ends EXCEPT ![h] = @ \ {"read"}]
           ELSE UNCHANGED <<pc, ends>>
        /\ UNCHANGED <<kind, status, calls, service, child, command, written, killed, writers,
                       readers, known>>
    BY DEF Read, StopReading, Goto, callVars, childVars, copies
  <1>2. TypeOK'
    <2>0. /\ pipe \in [Handlers -> 0..Capacity] /\ collected \in [Handlers -> 0..OutputCap]
      BY DEF IInv, TypeOK
    <2>1. pipe' \in [Handlers -> 0..Capacity]
      BY <1>0, <1>1, <2>0, CommandAssumption
    <2>2. collected' \in [Handlers -> 0..OutputCap]
      BY <1>0, <1>1, <2>0, CommandAssumption
    <2>3. /\ pc' \in [Handlers -> {"idle", "pipe", "fork", "forked", "read", "wait"}]
          /\ ends' \in [Handlers -> SUBSET {"read", "write"}]
          /\ \A g \in Handlers : pc'[g] = "idle" => ends'[g] = {} /\ child'[g] = "none"
      <3>1. "wait" \in {"idle", "pipe", "fork", "forked", "read", "wait"} /\ "wait" # "idle"
        OBVIOUS
      <3>2. pc' = pc \/ pc' = [pc EXCEPT ![h] = "wait"]
        BY <1>0
      <3>3. ends' = ends \/ ends' = [ends EXCEPT ![h] = ends[h] \ {"read"}]
        BY <1>0
      <3>4. child' = child
        BY <1>0
      <3> QED
        <4>1. pc' \in [Handlers -> {"idle", "pipe", "fork", "forked", "read", "wait"}]
          BY <3>1, <3>2 DEF IInv, TypeOK
        <4>2. ends' \in [Handlers -> SUBSET {"read", "write"}]
          BY <3>3 DEF IInv, TypeOK
        <4>3. ASSUME NEW g \in Handlers, pc'[g] = "idle"
              PROVE  ends'[g] = {} /\ child'[g] = "none"
          <5>1. pc[g] = "idle" /\ g # h
            BY <3>1, <3>2, <4>3, <1>1 DEF IInv, TypeOK
          <5>2. ends[g] = {} /\ child[g] = "none"
            BY <5>1 DEF IInv, TypeOK
          <5> QED
            BY <3>3, <3>4, <5>1, <5>2 DEF IInv, TypeOK
        <4> QED
          BY <4>1, <4>2, <4>3
    <2>4. UNCHANGED <<kind, status, calls, service, child, command, written, killed, writers,
                      readers, known>>
      BY <1>0
    <2> HIDE DEF IInv
    <2>5. TypeOK
      BY DEF IInv
    <2> QED
      BY <2>1, <2>2, <2>3, <2>4, <2>5 DEF TypeOK
  <1>3. OthersKept(h)
    BY <1>0 DEF IInv, TypeOK, OthersKept
  <1>4. /\ pipe'[h] = pipe[h] - 1 /\ collected'[h] = collected[h] + 1
        /\ written'[h] = pipe'[h] + collected'[h] /\ written'[h] <= command'[h].size
    <2>1. pipe'[h] = pipe[h] - 1 /\ collected'[h] = collected[h] + 1
      BY <1>0 DEF IInv, TypeOK
    <2>2. written' = written /\ command' = command
      BY <1>0
    <2> QED
      BY <1>1, <2>1, <2>2, Numbers DEF IInv
  <1>5. Holding(h)' /\ Conserved(h)' /\ Whole(h)'
    <2>1. CASE collected[h] + 1 = OutputCap
      <3>1. pc'[h] = "wait" /\ ends'[h] = {}
        <4>1. pc \in [Handlers -> {"idle", "pipe", "fork", "forked", "read", "wait"}]
              /\ ends \in [Handlers -> SUBSET {"read", "write"}]
          BY DEF IInv, TypeOK
        <4> QED
          BY <2>1, <1>0, <1>1, <4>1
      <3>2. ~(command'[h].size < OutputCap)
        <4>1. /\ pipe[h] \in Nat /\ collected[h] \in Nat
              /\ command[h].size \in Nat /\ OutputCap \in Nat
          BY Numbers DEF IInv
        <4>2. command' = command
          BY <1>0
        <4>3. command[h].size >= (pipe[h] - 1) + OutputCap
          BY <2>1, <1>4, <4>2
        <4> QED
          BY <1>1, <4>1, <4>2, <4>3
      <3>3. Holding(h)'
        <4>1. kind[h] # "bundle" /\ child[h] # "none" /\ service[h] > 0
          BY <1>1 DEF IInv, Holding
        <4>2. kind' = kind /\ child' = child /\ service' = service
          BY <1>0
        <4> QED
          BY <3>1, <4>1, <4>2 DEF Holding
      <3>4. Conserved(h)'
        BY <3>1 DEF Conserved, Reading
      <3>5. Whole(h)'
        BY <2>1, <3>2, <1>4 DEF Whole
      <3> QED
        BY <3>3, <3>4, <3>5
    <2>2. CASE collected[h] + 1 # OutputCap
      <3>1. pc'[h] = "read" /\ ends' = ends /\ collected'[h] < OutputCap
        BY <2>2, <1>0, <1>1, <1>4, Numbers DEF IInv
      <3> QED
        BY <3>1, <1>0, <1>1, <1>4 DEF IInv, Holding, Conserved, Whole, Reading
    <2> QED
      BY <2>1, <2>2
  <1> QED
    BY <1>2, <1>3, <1>5, OwnStep

(* End-of-file: no write end is left, so the child has exited, and it had     *)
(* written all.                                                            *)
LEMMA EndOfFileIInv ==
    ASSUME NEW h \in Handlers, IInv, EndOfFile(h)
    PROVE  IInv'
  <1> USE CommandAssumption DEF EndOfFile, AtEnd, Writable, StopReading, Goto, callVars, pipeVars, childVars, copies
  <1>1. TypeOK'
    BY DEF IInv, TypeOK, Holding, Conserved, Commands, Codes, Reading
  <1>2. OthersKept(h)
    BY DEF IInv, TypeOK, OthersKept
  <1>3. Holding(h)' /\ Conserved(h)' /\ Whole(h)'
    BY DEF IInv, TypeOK, Holding, Conserved, Whole, OutputIsWhole, Reading
  <1> QED
    BY <1>1, <1>2, <1>3, OwnStep

(* What the child writes stays in the pipe.                                 *)
LEMMA ChildWritesIInv ==
    ASSUME NEW h \in Handlers, IInv, ChildWrites(h)
    PROVE  IInv'
  <1> USE CommandAssumption DEF ChildWrites, callVars, pipeVars, childVars, copies
  <1>1. /\ pipe'[h] = pipe[h] + 1 /\ written'[h] = written[h] + 1
        /\ pipe'[h] \in 0..Capacity /\ written'[h] \in Nat
        /\ written'[h] <= command'[h].size
    <2>1. pipe'[h] = pipe[h] + 1 /\ written'[h] = written[h] + 1
      BY DEF IInv, TypeOK
    <2>2. pipe[h] < Capacity /\ written[h] < command[h].size /\ command' = command
      OBVIOUS
    <2> QED
      BY <2>1, <2>2, Numbers DEF IInv
  <1>2. TypeOK'
    BY <1>1 DEF IInv, TypeOK, Commands
  <1>3. OthersKept(h)
    BY DEF IInv, TypeOK, OthersKept
  <1>4. Holding(h)' /\ Whole(h)'
    BY DEF IInv, TypeOK, Holding, Whole, OutputIsWhole
  <1>5. Conserved(h)'
    <2>1. pc[h] \notin {"idle", "pipe", "fork"}
      BY DEF IInv, Holding
    <2>2. pc[h] \in Reading => written'[h] = pipe'[h] + collected'[h]
      BY <1>1, Numbers DEF IInv, Conserved
    <2> QED
      BY <2>1, <2>2 DEF IInv, Conserved, Reading
  <1> QED
    BY <1>2, <1>3, <1>4, <1>5, OwnStep

(* A child without a reader is one whose handler has stopped reading.         *)
LEMMA ChildLosesReaderIInv ==
    ASSUME NEW h \in Handlers, IInv, ChildLosesReader(h)
    PROVE  IInv'
  <1> USE CommandAssumption DEF ChildLosesReader, Exit, Readable, callVars, pipeVars, childVars, copies
  <1>1. TypeOK'
    BY DEF IInv, TypeOK, Holding, Conserved, Commands, Codes, Reading
  <1>2. OthersKept(h)
    BY DEF IInv, TypeOK, OthersKept
  <1>3. Holding(h)' /\ Conserved(h)' /\ Whole(h)'
    BY DEF IInv, TypeOK, Holding, Conserved, Whole, OutputIsWhole, Reading
  <1> QED
    BY <1>1, <1>2, <1>3, OwnStep

(* A child that exits has written everything.                               *)
LEMMA ChildExitsIInv ==
    ASSUME NEW h \in Handlers, IInv, ChildExits(h)
    PROVE  IInv'
  <1> USE CommandAssumption DEF ChildExits, Exit, callVars, pipeVars, childVars, copies
  <1>1. TypeOK'
    BY DEF IInv, TypeOK, Holding, Conserved, Commands, Codes, Reading
  <1>2. OthersKept(h)
    BY DEF IInv, TypeOK, OthersKept
  <1>3. Holding(h)' /\ Conserved(h)' /\ Whole(h)'
    BY DEF IInv, TypeOK, Holding, Conserved, Whole, OutputIsWhole, Reading
  <1> QED
    BY <1>1, <1>2, <1>3, OwnStep

(* waitpid: the child is gone, the pipe was closed before; the handler goes on *)
(* to its next service or returns.                                          *)
LEMMA ReapedIInv ==
    ASSUME NEW h \in Handlers, IInv, Reaped(h), NEW l \in {"pipe", "idle"}, Goto(h, l),
           l = "pipe" => kind[h] # "bundle",
           NEW n \in 1..Services, service' = [service EXCEPT ![h] = n],
           known' \in [Handlers -> SUBSET (1..Services)], status' \in [Handlers -> Codes]
    PROVE  IInv'
  <1>1. /\ pc[h] = "wait" /\ child[h] = "zombie" /\ ends[h] = {}
        /\ child' = [child EXCEPT ![h] = "none"] /\ pc' = [pc EXCEPT ![h] = l]
        /\ UNCHANGED <<kind, calls, ends, pipe, collected, command, written, killed, writers,
                       readers>>
    BY DEF IInv, Holding, Reaped, Goto, pipeVars, copies
  <1>2. TypeOK'
    <2>1. service' \in [Handlers -> 0..Services]
      BY CommandAssumption DEF IInv, TypeOK
    <2>2. /\ child \in [Handlers -> {"none", "running", "zombie"}]
          /\ \A g, f \in Handlers : f \in writers[g] \cup readers[g] => child[f] = "running"
          /\ \A g \in Handlers : pc[g] = "idle" => ends[g] = {} /\ child[g] = "none"
          /\ pc \in [Handlers -> {"idle", "pipe", "fork", "forked", "read", "wait"}]
      BY DEF IInv, TypeOK
    <2>3. /\ child' \in [Handlers -> {"none", "running", "zombie"}]
          /\ \A g, f \in Handlers : f \in writers'[g] \cup readers'[g] => child'[f] = "running"
          /\ \A g \in Handlers : pc'[g] = "idle" => ends'[g] = {} /\ child'[g] = "none"
          /\ pc' \in [Handlers -> {"idle", "pipe", "fork", "forked", "read", "wait"}]
      BY <1>1, <2>2
    <2> QED
      BY <1>1, <2>1, <2>3 DEF IInv, TypeOK
  <1>3. OthersKept(h)
    BY <1>1 DEF IInv, TypeOK, OthersKept
  <1>4. Holding(h)' /\ Conserved(h)' /\ Whole(h)'
    BY <1>1 DEF IInv, TypeOK, Holding, Conserved, Whole, Reading
  <1> QED
    BY <1>2, <1>3, <1>4, OwnStep

(* waitpid, then the next service or the return.                            *)
LEMMA ListNextIInv ==
    ASSUME NEW h \in Handlers, IInv, ListNext(h)
    PROVE  IInv'
  <1>1. service[h] \in 1..Services /\ Services \in Nat /\ service \in [Handlers -> 0..Services]
    BY CommandAssumption DEF ListNext, Reaped, IInv, TypeOK, Holding
  <1>2. known' \in [Handlers -> SUBSET (1..Services)]
    BY <1>1 DEF ListNext, IInv, TypeOK
  <1>3. CASE service[h] < Services
    <2>1. /\ service' = [service EXCEPT ![h] = service[h] + 1] /\ Goto(h, "pipe")
          /\ status' = status /\ kind[h] = "list"
      BY <1>3 DEF ListNext
    <2>2. service[h] + 1 \in 1..Services
      BY <1>1, <1>3
    <2>3. status' \in [Handlers -> Codes]
      BY <2>1 DEF IInv, TypeOK
    <2> QED
      BY <1>2, <2>1, <2>2, <2>3, ReapedIInv DEF ListNext
  <1>4. CASE ~(service[h] < Services)
    <2>1. Return(h, "OK") /\ service' = service
      BY <1>4 DEF ListNext
    <2>2. service' = [service EXCEPT ![h] = service[h]]
      BY <1>1, <2>1
    <2>3. status' \in [Handlers -> Codes]
      BY <2>1 DEF IInv, TypeOK, Codes, Return
    <2> QED
      BY <1>1, <1>2, <2>1, <2>2, <2>3, ReapedIInv DEF ListNext, Return
  <1> QED
    BY <1>3, <1>4

(* waitpid, then the status of the control request.                         *)
LEMMA ControlDoneIInv ==
    ASSUME NEW h \in Handlers, IInv, ControlDone(h)
    PROVE  IInv'
  <1>1. service[h] \in 1..Services /\ service' = [service EXCEPT ![h] = service[h]]
    BY CommandAssumption DEF ControlDone, Reaped, IInv, TypeOK, Holding
  <1>2. known' \in [Handlers -> SUBSET (1..Services)]
    BY DEF ControlDone, IInv, TypeOK
  <1>3. status' \in [Handlers -> Codes]
    BY DEF ControlDone, ControlStatus, Return, IInv, TypeOK, Codes
  <1> QED
    BY <1>1, <1>2, <1>3, ReapedIInv DEF ControlDone, Return

(* waitpid for tar.                                                         *)
LEMMA BundleDoneIInv ==
    ASSUME NEW h \in Handlers, IInv, BundleDone(h)
    PROVE  IInv'
  <1>1. service[h] \in 1..Services /\ service' = [service EXCEPT ![h] = service[h]]
    BY CommandAssumption DEF BundleDone, Reaped, IInv, TypeOK, Holding
  <1>2. known' \in [Handlers -> SUBSET (1..Services)]
    BY DEF BundleDone, IInv, TypeOK
  <1>3. status' \in [Handlers -> Codes]
    BY DEF BundleDone, Return, IInv, TypeOK, Codes
  <1> QED
    BY <1>1, <1>2, <1>3, ReapedIInv DEF BundleDone, Return

-----------------------------------------------------------------------------
(* The inductive invariant of concurrent commands.                          *)
THEOREM Invariance == Spec => []IInv
  <1>1. IInv /\ [Next]_vars => IInv'
    <2> SUFFICES ASSUME IInv, [Next]_vars
                 PROVE  IInv'
      OBVIOUS
    <2>1. ASSUME NEW h \in Handlers, Start(h) \/ Refuse(h)
          PROVE  IInv'
      BY <2>1, StartIInv, RefuseIInv
    <2>2. ASSUME NEW h \in Handlers, Handler(h)
          PROVE  IInv'
      BY <2>2, OpenPipeIInv, PipeFailsIInv, ForkIInv, ForkFailsIInv, CloseWriteEndIInv,
         ReadIInv, EndOfFileIInv, ListNextIInv, ControlDoneIInv, BundleDoneIInv DEF Handler
    <2>3. ASSUME NEW h \in Handlers, Child(h)
          PROVE  IInv'
      BY <2>3, ChildWritesIInv, ChildLosesReaderIInv, ChildExitsIInv DEF Child
    <2>4. CASE UNCHANGED vars
      BY <2>4 DEF vars, IInv, TypeOK, OutputIsWhole, Holding, Conserved, Reading
    <2> QED
      BY <2>1, <2>2, <2>3, <2>4 DEF Next, Rest
  <1> QED
    BY InitIInv, <1>1, PTL DEF Spec

(* The state is well formed, and a handler that has returned has no pipe end   *)
(* open and no child left to wait for.                                      *)
THEOREM TypeCorrectness == Spec => []TypeOK
  BY Invariance, PTL DEF IInv

(* However many handlers fork at whatever moment, and so inherit each other's *)
(* pipes, Run returns a command's whole output up to the cap.                *)
THEOREM OutputsAreWhole == Spec => []OutputIsWhole
  BY Invariance, PTL DEF IInv

=============================================================================
