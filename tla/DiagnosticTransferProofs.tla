---------------------- MODULE DiagnosticTransferProofs ----------------------
(***************************************************************************)
(* Proofs about DiagnosticTransfer: for an archive of any size and both       *)
(* programs, no incomplete file is reported as saved, and RpcWorker keeps the  *)
(* file only when it is complete, failures of the last flush and of           *)
(* QFile::remove excepted.                                                  *)
(*                                                                         *)
(* Then about CommandLineClient: its download is that of DiagnosticTransfer,  *)
(* a process is signalled only as typed, and an exit status of 0 is true, for *)
(* every command line, count, number of logs and size of the archive.         *)
(***************************************************************************)
EXTENDS CommandLineClient, TLAPS

Beginning(n) == [i \in 1..n |-> i]

(* The chunks written so far, the last of which may still be in the buffer.   *)
Kept ==
    \/ buffer = <<>> /\ file = Beginning(received)
    \/ received = Chunks /\ file = Beginning(Chunks - 1) /\ buffer = <<Chunks>>

WireInOrder == \A i \in DOMAIN wire : wire[i].chunk = wire[i].offset + 1

NotOpened == ~opened /\ received = 0 /\ file = <<>> /\ buffer = <<>>

Concluded ==
    \/ outcome = "saved" /\ opened /\ (file = Archive \/ Unnoticed)
    \/ outcome = "error" /\ (opened /\ front = "worker" => removal # "none")

(* The inductive invariant: what is in the file at each stage of the client.  *)
FileInv ==
    /\ client \in {"creating", "opening"} => NotOpened
    /\ client = "reading" => opened /\ Kept
    /\ client \in {"cancelled", "finished"} => opened /\ (Kept \/ failed \/ broken)
    /\ client = "closed" => opened /\ (file = Beginning(received) \/ failed \/ broken)
    /\ client = "done" => Concluded

IInv == TypeOK /\ WireInOrder /\ FileInv

-----------------------------------------------------------------------------
(* The beginnings of the archive, as sequences.                             *)
LEMMA BeginningGrows ==
    ASSUME NEW n \in Nat
    PROVE  /\ Beginning(n) \in Seq(Nat) /\ Len(Beginning(n)) = n
           /\ Append(Beginning(n), n + 1) = Beginning(n + 1)
           /\ Beginning(n) \o <<n + 1>> = Beginning(n + 1)
<1>1. Beginning(n) \in Seq(Nat) /\ Len(Beginning(n)) = n
  BY DEF Beginning
<1>2. Append(Beginning(n), n + 1) = Beginning(n + 1)
  BY <1>1 DEF Beginning
<1>3. Beginning(n) \o <<n + 1>> = Append(Beginning(n), n + 1)
  BY <1>1
<1> QED
  BY <1>1, <1>2, <1>3

LEMMA BeginningEmpty == Beginning(0) = <<>>
BY DEF Beginning

LEMMA NothingAppended ==
    ASSUME NEW S, NEW s \in Seq(S)
    PROVE  s \o <<>> = s
OBVIOUS

(* A chunk that arrives in its place and can be written extends what is kept. *)
LEMMA WrittenChunkIsKept ==
    ASSUME TypeOK, Kept, received + 1 \in 1..Chunks,
           WriteChunk(received + 1, TRUE), received' = received + 1
    PROVE  Kept'
<1>1. Chunks \in Nat /\ received \in Nat /\ received + 1 <= Chunks
  BY TransferAssumption DEF TypeOK
<1>2. buffer = <<>> /\ file = Beginning(received)
  BY <1>1 DEF Kept
<1>3. CASE Stays(received + 1)
  <2>1. buffer' = <<Chunks>> /\ file' = file /\ received' = Chunks
    BY <1>2, <1>3 DEF WriteChunk, Stays
  <2>2. received = Chunks - 1
    BY <1>3, <1>1 DEF Stays
  <2> QED
    BY <2>1, <2>2, <1>2 DEF Kept
<1>4. CASE ~Stays(received + 1)
  <2>1. buffer' = <<>> /\ file' = Append(file, received + 1)
    BY <1>2, <1>4 DEF WriteChunk
  <2>2. file' = Beginning(received')
    BY <2>1, <1>1, <1>2, BeginningGrows
  <2> QED
    BY <2>1, <2>2 DEF Kept
<1> QED
  BY <1>3, <1>4

(* close() completes the file, or breaks the stream.                         *)
LEMMA FlushedFileIsWhole ==
    ASSUME TypeOK, Kept
    PROVE  file \o buffer = Beginning(received)
<1>1. Chunks \in Nat \ {0} /\ file \in Seq(1..Chunks)
  BY TransferAssumption DEF TypeOK
<1>2. CASE buffer = <<>> /\ file = Beginning(received)
  BY <1>1, <1>2, NothingAppended
<1>3. CASE received = Chunks /\ file = Beginning(Chunks - 1) /\ buffer = <<Chunks>>
  <2>1. Chunks - 1 \in Nat /\ (Chunks - 1) + 1 = Chunks
    BY <1>1
  <2>2. Beginning(Chunks - 1) \o <<(Chunks - 1) + 1>> = Beginning((Chunks - 1) + 1)
    BY <2>1, BeginningGrows
  <2> QED
    BY <1>3, <2>1, <2>2
<1> QED
  BY <1>2, <1>3 DEF Kept

-----------------------------------------------------------------------------
(* TypeOK is inductive with WireInOrder, which bounds what main counts.       *)
LEMMA FirstAndRest ==
    ASSUME NEW S, NEW s \in Seq(S), s # <<>>
    PROVE  Head(s) \in S /\ Tail(s) \in Seq(S)
OBVIOUS

LEMMA FirstInOrder ==
    ASSUME TypeOK, WireInOrder, wire # <<>>
    PROVE  /\ Head(wire) \in [chunk : 1..Chunks, offset : 0..Chunks]
           /\ Head(wire).chunk = Head(wire).offset + 1
<1>1. wire \in Seq([chunk : 1..Chunks, offset : 0..Chunks])
  BY DEF TypeOK
<1>2. Head(wire) = wire[1] /\ 1 \in DOMAIN wire
  BY <1>1
<1> QED
  BY <1>1, <1>2, FirstAndRest DEF WireInOrder

LEMMA TypesOfAWrite ==
    ASSUME TypeOK, NEW chunk \in 1..Chunks, NEW ok \in BOOLEAN, WriteChunk(chunk, ok)
    PROVE  file' \in Seq(1..Chunks) /\ buffer' \in Seq(1..Chunks) /\ broken' \in BOOLEAN
<1>1. file \in Seq(1..Chunks) /\ buffer \in Seq(1..Chunks) /\ broken \in BOOLEAN
  BY DEF TypeOK
<1>2. Append(file, chunk) \in Seq(1..Chunks) /\ Append(buffer, chunk) \in Seq(1..Chunks)
  BY <1>1
<1>3. CASE Stays(chunk)
  BY <1>1, <1>2, <1>3 DEF WriteChunk
<1>4. CASE ~Stays(chunk)
  <2>1. broken' = ~ok /\ buffer' = buffer /\ file' = IF ok THEN Append(file, chunk) ELSE file
    BY <1>4 DEF WriteChunk
  <2> QED
    BY <2>1, <1>1, <1>2
<1> QED
  BY <1>3, <1>4

LEMMA TypeInit == Init => TypeOK
<1> SUFFICES ASSUME Init PROVE TypeOK
  OBVIOUS
<1>1. <<>> \in Seq(1..Chunks) /\ <<>> \in Seq([chunk : 1..Chunks, offset : 0..Chunks])
  OBVIOUS
<1>2. wire \in Seq([chunk : 1..Chunks, offset : 0..Chunks])
      /\ file \in Seq(1..Chunks) /\ buffer \in Seq(1..Chunks)
  BY <1>1 DEF Init
<1>3. sent \in 0..Chunks /\ received \in 0..Chunks
  BY TransferAssumption DEF Init
<1> QED
  BY <1>2, <1>3 DEF Init, TypeOK

LEMMA TypeStep == TypeOK /\ WireInOrder /\ [Next]_vars => TypeOK'
<1> SUFFICES ASSUME TypeOK, WireInOrder, [Next]_vars PROVE TypeOK'
  OBVIOUS
<1> USE TransferAssumption
<1>1. CASE Refuse \/ Begin \/ ReadFails \/ EndOfFile \/ ServerSeesCancel
  BY <1>1 DEF TypeOK, Refuse, Begin, ReadFails, EndOfFile, ServerSeesCancel, ServerReturns,
              setting, fileVars
<1>2. CASE SendChunk
  <2>1. sent + 1 \in 1..Chunks /\ sent \in 0..Chunks
    BY <1>2 DEF TypeOK, SendChunk
  <2>2. wire' \in Seq([chunk : 1..Chunks, offset : 0..Chunks])
    BY <1>2, <2>1 DEF TypeOK, SendChunk
  <2> QED
    BY <1>2, <2>1, <2>2 DEF TypeOK, SendChunk, setting, fileVars
<1>3. CASE CreateFails \/ Created \/ OpenFails \/ Open
  <2>1. CASE CreateFails
    BY <2>1 DEF TypeOK, CreateFails, Tell, setting, serverVars, fileVars
  <2>2. CASE Created
    BY <2>2 DEF TypeOK, Created, setting, serverVars, fileVars
  <2>3. CASE OpenFails
    BY <2>3 DEF TypeOK, OpenFails, Tell, setting, serverVars, fileVars
  <2>4. CASE Open
    BY <2>4 DEF TypeOK, Open, setting, serverVars
  <2> QED
    BY <1>3, <2>1, <2>2, <2>3, <2>4
<1>4. CASE ReadChunk
  <2>1. PICK ok \in BOOLEAN :
           \/ front = "worker" /\ WorkerCallback(Head(wire), ok)
           \/ front = "cli" /\ CliCallback(Head(wire), ok)
    BY <1>4 DEF ReadChunk
  <2> DEFINE c == Head(wire)
  <2>2. c \in [chunk : 1..Chunks, offset : 0..Chunks]
        /\ wire' \in Seq([chunk : 1..Chunks, offset : 0..Chunks])
    BY <1>4, FirstAndRest DEF TypeOK, ReadChunk
  <2>3. client' \in {"reading", "cancelled"} /\ received' \in 0..Chunks /\ failed' \in BOOLEAN
    <3>1. received \in 0..Chunks /\ failed \in BOOLEAN /\ client = "reading"
      BY <1>4 DEF TypeOK, ReadChunk
    <3>4. c.offset = received => received + 1 \in 0..Chunks
      BY <2>2, <3>1, <1>4, FirstInOrder DEF ReadChunk
    <3>2. CASE WorkerCallback(c, ok)
      BY <3>1, <3>2, <3>4 DEF WorkerCallback
    <3>3. CASE CliCallback(c, ok)
      BY <3>1, <3>3, <3>4 DEF CliCallback
    <3> QED
      BY <2>1, <3>2, <3>3
  <2>4. file' \in Seq(1..Chunks) /\ buffer' \in Seq(1..Chunks) /\ broken' \in BOOLEAN
    <3>1. CASE WriteChunk(c.chunk, ok)
      BY <3>1, <2>2, TypesOfAWrite
    <3>2. CASE UNCHANGED <<file, buffer, broken>>
      BY <3>2 DEF TypeOK
    <3> QED
      BY <2>1, <3>1, <3>2 DEF WorkerCallback, CliCallback
  <2>5. client = "reading" /\ UNCHANGED <<serverVars, status, opened, removal, outcome>>
    BY <1>4 DEF ReadChunk
  <2> QED
    BY <2>2, <2>3, <2>4, <2>5 DEF TypeOK, serverVars
<1>5. CASE StreamEnds
  BY <1>5 DEF TypeOK, StreamEnds, Finish, setting, serverVars, fileVars
<1>6. CASE StreamBreaks
  BY <1>6 DEF TypeOK, StreamBreaks, Finish, setting, serverVars, fileVars
<1>7. CASE Close
  <2>1. file \o buffer \in Seq(1..Chunks)
    BY DEF TypeOK
  <2>2. file' \in Seq(1..Chunks) /\ buffer' \in Seq(1..Chunks) /\ broken' \in BOOLEAN
    <3>1. <<>> \in Seq(1..Chunks) /\ file \in Seq(1..Chunks) /\ broken \in BOOLEAN
      BY DEF TypeOK
    <3> QED
      BY <1>7, <2>1, <3>1 DEF Close
  <2>3. client = "finished" /\ client' = "closed" /\ UNCHANGED outcome
    BY <1>7 DEF Close
  <2>4. UNCHANGED <<serverVars, wire, status, received, failed, opened, removal>>
    BY <1>7 DEF Close
  <2> QED
    BY <2>2, <2>3, <2>4 DEF TypeOK, serverVars
<1>8. CASE Conclude
  <2>1. outcome' \in {"saved", "error"} /\ client' = "done" /\ client = "closed"
    BY <1>8 DEF Conclude, Tell
  <2>2. file' \in Seq(1..Chunks) /\ removal' \in {"none", "done", "failed"}
    <3>1. CASE ~Accepted /\ front = "worker"
      <4>1. (file' = <<>> \/ file' = file) /\ removal' \in {"done", "failed"}
        BY <1>8, <3>1 DEF Conclude
      <4>2. <<>> \in Seq(1..Chunks) /\ file \in Seq(1..Chunks)
        BY DEF TypeOK
      <4> QED
        BY <4>1, <4>2
    <3>2. CASE ~(~Accepted /\ front = "worker")
      BY <1>8, <3>2 DEF TypeOK, Conclude
    <3> QED
      BY <3>1, <3>2
  <2>3. UNCHANGED <<serverVars, wire, status, received, failed, opened, buffer, broken>>
    BY <1>8 DEF Conclude
  <2> QED
    BY <2>1, <2>2, <2>3 DEF TypeOK, serverVars
<1>9. CASE UNCHANGED vars
  BY <1>9 DEF TypeOK, vars
<1> QED
  BY <1>1, <1>2, <1>3, <1>4, <1>5, <1>6, <1>7, <1>8, <1>9 DEF Next, Server, Client, Done

-----------------------------------------------------------------------------
(* The Agent sends each chunk with its offset, and gRPC keeps the order.      *)
LEMMA WireStep == TypeOK /\ WireInOrder /\ [Next]_vars => WireInOrder'
<1> SUFFICES ASSUME TypeOK, WireInOrder, [Next]_vars PROVE WireInOrder'
  OBVIOUS
<1>1. wire \in Seq([chunk : 1..Chunks, offset : 0..Chunks]) /\ sent \in Nat
  BY TransferAssumption DEF TypeOK
<1>2. CASE SendChunk
  <2> DEFINE new == [chunk |-> sent + 1, offset |-> sent]
  <2>1. wire' = Append(wire, new)
    BY <1>2 DEF SendChunk
  <2>2. DOMAIN wire' = 1..(Len(wire) + 1) /\ wire'[Len(wire) + 1] = new
        /\ \A i \in 1..Len(wire) : wire'[i] = wire[i]
    BY <2>1, <1>1
  <2>3. new.chunk = new.offset + 1
    BY <1>1
  <2>4. DOMAIN wire = 1..Len(wire) /\ Len(wire) \in Nat
    BY <1>1
  <2> HIDE DEF new
  <2> QED
    BY <2>2, <2>3, <2>4 DEF WireInOrder
<1>3. CASE ReadChunk
  <2>1. wire' = Tail(wire) /\ wire # <<>>
    BY <1>3 DEF ReadChunk
  <2>2. DOMAIN wire' = 1..(Len(wire) - 1) /\ DOMAIN wire = 1..Len(wire) /\ Len(wire) \in Nat
        /\ \A i \in DOMAIN wire' : wire'[i] = wire[i + 1]
    BY <2>1, <1>1
  <2> QED
    BY <2>2 DEF WireInOrder
<1>4. CASE StreamBreaks
  BY <1>4 DEF StreamBreaks, WireInOrder
<1>5. CASE UNCHANGED wire
  BY <1>5 DEF WireInOrder
<1> QED
  BY <1>2, <1>3, <1>4, <1>5 DEF Next, Server, Client, Done, vars, Refuse, Begin, ReadFails, EndOfFile,
     ServerSeesCancel, CreateFails, Created, OpenFails, Open, StreamEnds, Close, Conclude

-----------------------------------------------------------------------------
(* The file at each stage.                                                  *)
LEMMA InitInv == Init => IInv
<1> SUFFICES ASSUME Init PROVE IInv
  OBVIOUS
<1>1. TypeOK
  BY TypeInit
<1>2. WireInOrder
  BY DEF Init, WireInOrder
<1>3. FileInv
  BY DEF Init, FileInv, NotOpened
<1> QED
  BY <1>1, <1>2, <1>3 DEF IInv

LEMMA ReadKeeps == IInv /\ ReadChunk => FileInv'
<1> SUFFICES ASSUME IInv, ReadChunk PROVE FileInv'
  OBVIOUS
<1> DEFINE c == Head(wire)
<1>1. opened /\ Kept /\ client = "reading" /\ opened' /\ TypeOK /\ WireInOrder
  BY DEF IInv, FileInv, ReadChunk
<1>2. PICK ok \in BOOLEAN :
         \/ front = "worker" /\ WorkerCallback(c, ok)
         \/ front = "cli" /\ CliCallback(c, ok)
  BY DEF ReadChunk
<1>3. c.chunk \in 1..Chunks /\ c.chunk = c.offset + 1 /\ c.offset \in Nat
  BY <1>1, FirstInOrder, TransferAssumption DEF ReadChunk
<1>4. CASE c.offset # received
  <2>1. client' = "cancelled" /\ UNCHANGED <<received, file, buffer>>
    BY <1>2, <1>4 DEF WorkerCallback, CliCallback
  <2> QED
    BY <2>1, <1>1 DEF FileInv, Kept
<1>5. CASE c.offset = received /\ ok
  <2>1. WriteChunk(received + 1, TRUE) /\ received' = received + 1 /\ client' = "reading"
    BY <1>2, <1>3, <1>5 DEF WorkerCallback, CliCallback
  <2>2. Kept'
    BY <2>1, <1>1, <1>3, <1>5, WrittenChunkIsKept
  <2> QED
    BY <2>1, <2>2, <1>1 DEF FileInv
<1>6. CASE c.offset = received /\ ~ok
  <2>1. client' = "cancelled" /\ WriteChunk(c.chunk, ok)
    BY <1>2, <1>6 DEF WorkerCallback, CliCallback
  <2>2. broken'
    BY <2>1, <1>6 DEF WriteChunk
  <2> QED
    BY <2>1, <2>2, <1>1 DEF FileInv
<1> QED
  BY <1>4, <1>5, <1>6

LEMMA CloseKeeps == IInv /\ Close => FileInv'
<1> SUFFICES ASSUME IInv, Close PROVE FileInv'
  OBVIOUS
<1>1. opened' /\ (Kept \/ failed \/ broken) /\ client' = "closed" /\ received' = received
      /\ failed' = failed /\ TypeOK
  BY DEF IInv, FileInv, Close
<1>2. CASE file' = file \o buffer /\ UNCHANGED broken
  <2>1. Kept => file' = Beginning(received')
    BY <1>1, <1>2, FlushedFileIsWhole
  <2> QED
    BY <2>1, <1>1, <1>2 DEF FileInv
<1>3. CASE broken'
  BY <1>3, <1>1 DEF FileInv
<1> QED
  BY <1>2, <1>3 DEF Close

LEMMA ConcludeKeeps == IInv /\ Conclude => FileInv'
<1> SUFFICES ASSUME IInv, Conclude PROVE FileInv'
  OBVIOUS
<1>1. opened' /\ client' = "done" /\ UNCHANGED <<front, broken, failed>>
      /\ (file = Beginning(received) \/ failed \/ broken)
  BY DEF IInv, FileInv, Conclude, Tell, setting
<1>2. CASE Accepted
  <2>1. ~failed /\ received = Chunks /\ file' = file /\ outcome' = "saved"
    BY <1>2 DEF Accepted, Conclude, Tell
  <2>2. Beginning(Chunks) = Archive
    BY DEF Beginning, Archive
  <2>3. file' = Archive' \/ Unnoticed'
    BY <2>1, <2>2, <1>1 DEF Unnoticed, Archive
  <2> QED
    BY <2>1, <2>3, <1>1 DEF FileInv, Concluded
<1>3. CASE ~Accepted
  <2>1. outcome' = "error" /\ (front = "worker" => removal' # "none")
    BY <1>3 DEF Conclude, Tell
  <2> QED
    BY <2>1, <1>1 DEF FileInv, Concluded
<1> QED
  BY <1>2, <1>3

LEMMA FileStep == IInv /\ [Next]_vars => FileInv'
<1> SUFFICES ASSUME IInv, [Next]_vars PROVE FileInv'
  OBVIOUS
<1>1. CASE Server \/ Done \/ UNCHANGED vars
  <2>1. UNCHANGED <<front, client, received, failed, opened, file, removal, buffer, broken, outcome>>
    BY <1>1 DEF Server, Done, vars, setting, fileVars, Refuse, Begin, SendChunk, ReadFails, EndOfFile,
                ServerSeesCancel
  <2> QED
    BY <2>1 DEF IInv, FileInv, NotOpened, Kept, Concluded, Unnoticed, Archive
<1>2. CASE CreateFails \/ OpenFails
  <2>1. client' = "done" /\ outcome' = "error" /\ ~opened'
    BY <1>2 DEF IInv, FileInv, NotOpened, CreateFails, OpenFails, Tell, fileVars
  <2> QED
    BY <2>1 DEF FileInv, Concluded
<1>3. CASE Created
  <2>1. client' = "opening" /\ NotOpened'
    BY <1>3 DEF IInv, FileInv, NotOpened, Created, fileVars
  <2> QED
    BY <2>1 DEF FileInv
<1>4. CASE Open
  <2>1. NotOpened /\ client' = "reading" /\ opened' /\ UNCHANGED <<received, file, buffer>>
    BY <1>4 DEF IInv, FileInv, Open
  <2>2. Kept'
    BY <2>1, BeginningEmpty DEF NotOpened, Kept
  <2> QED
    BY <2>1, <2>2 DEF FileInv
<1>5. CASE StreamEnds \/ StreamBreaks
  <2>1. client' = "finished" /\ opened /\ (Kept \/ failed \/ broken)
    BY <1>5 DEF IInv, FileInv, StreamEnds, StreamBreaks, Finish
  <2>2. UNCHANGED <<received, failed, opened, file, buffer, broken>>
    BY <1>5 DEF StreamEnds, StreamBreaks, fileVars
  <2> QED
    BY <2>1, <2>2 DEF FileInv, Kept
<1> QED
  BY <1>1, <1>2, <1>3, <1>4, <1>5, ReadKeeps, CloseKeeps, ConcludeKeeps DEF Next, Client

-----------------------------------------------------------------------------
LEMMA Inductive == Spec => []IInv
<1>1. Init => IInv
  BY InitInv
<1>2. IInv /\ [Next]_vars => IInv'
  BY TypeStep, WireStep, FileStep DEF IInv
<1> QED
  BY <1>1, <1>2, PTL DEF Spec

(* Every variable keeps its type, whatever fails where.                      *)
THEOREM TypeCorrectness == Spec => []TypeOK
<1>1. IInv => TypeOK
  BY DEF IInv
<1> QED
  BY <1>1, Inductive, PTL

(* No program reports an incomplete bundle as saved, unless a failure of its   *)
(* ofstream set no flag.                                                     *)
THEOREM SavedMeansComplete == Spec => []SavedIsComplete
<1>1. IInv => SavedIsComplete
  <2> SUFFICES ASSUME IInv, client = "done", outcome = "saved"
               PROVE  (opened /\ file = Archive) \/ Unnoticed
    BY DEF SavedIsComplete
  <2> QED
    BY DEF IInv, FileInv, Concluded
<1> QED
  BY <1>1, Inductive, PTL

(* RpcWorker's file is complete or deleted, or the removal that the code does *)
(* not check failed and an error was reported; up to the same exception.      *)
THEOREM WorkersPartialFileWasToGo == Spec => []WorkerKeepsItsPromise
<1>1. IInv => WorkerKeepsItsPromise
  <2> SUFFICES ASSUME IInv, front = "worker", ~Unnoticed, client = "done", opened
               PROVE  file = Archive \/ removal = "done"
                      \/ (removal = "failed" /\ outcome = "error")
    BY DEF WorkerKeepsItsPromise, CompleteOrDeleted
  <2>1. Concluded /\ removal \in {"none", "done", "failed"}
    BY DEF IInv, FileInv, TypeOK
  <2> QED
    BY <2>1 DEF Concluded
<1> QED
  BY <1>1, Inductive, PTL


-----------------------------------------------------------------------------
(* The program as a whole.                                                   *)

-----------------------------------------------------------------------------
(* The steps from a call of the overview on.                                 *)
FromReadLog   == {"ReadLog", "ListServices"}
FromListLogs  == FromReadLog \cup {"ListLogs"}
FromTcp       == FromListLogs \cup {"ListTcpConnections"}
FromDetails   == FromTcp \cup {"GetNetworkInterfaces", "GetProcessDetails"}
FromProcesses == FromDetails \cup {"ListProcesses"}
FromStream    == FromProcesses \cup {"StreamSystemMetrics"}
Overview      == FromStream \cup {"GetSystemMetrics"}

SamplesComplete == shown = MaxSamples \/ ended = "OK"

(* What the Agent has granted by the time main makes a call.                  *)
GrantedInv ==
    /\ reply = "OK" /\ step # "exited" => step \in granted
    /\ step \in Overview => "GetAgentInfo" \in granted
    /\ step \in FromStream => "GetSystemMetrics" \in granted
    /\ step \in FromProcesses => SamplesComplete
    /\ step \in FromDetails => "ListProcesses" \in granted
    /\ step \in FromTcp => "GetNetworkInterfaces" \in granted
    /\ step \in FromListLogs => "ListTcpConnections" \in granted
    /\ step \in FromReadLog => "ListLogs" \in granted

(* A call belongs to its option.                                            *)
OptionInv ==
    /\ step \in Overview => line.option = "none"
    /\ step = "ControlProcess" => line.option = "--control"
    /\ step = "diagnostic" => line.option = "--diagnostic"
    /\ step = "StreamLog" => line.option = "--stream-log"
    /\ step # "exited" => exit = -1
    /\ step \in UnaryCalls \cup Streams \cup {"diagnostic", "exited", "desktop"}

StreamInv ==
    /\ shown \in Nat
    /\ step \in {"GetAgentInfo", "GetSystemMetrics"} => shown = 0 /\ ~cancelled
    /\ step = "StreamSystemMetrics" =>
          /\ cancelled => shown = MaxSamples
          /\ ~cancelled => shown < MaxSamples
    /\ step = "StreamLog" => (cancelled => shown >= Wanted(line.number))

ExitInv ==
    exit = 0 =>
        /\ line.option = "none" => Required \subseteq granted /\ SamplesComplete
        /\ line.option = "--control" => signalled # {}
        /\ line.option = "--diagnostic" => client = "done" /\ outcome = "saved"
        /\ line.option = "--stream-log" =>
              shown >= Wanted(line.number) \/ ended \in {"OK", "CANCELLED"}
        /\ line.option # "other"

ControlInv == step = "ControlProcess" /\ reply = "OK" => signalled # {}

CliInv == /\ line \in CommandLines /\ GrantedInv /\ OptionInv /\ StreamInv /\ ControlInv
          /\ ExitInv /\ ControlsAsTyped

-----------------------------------------------------------------------------
(* A pid that ParsePid accepts is the number typed.                          *)
LEMMA Int32IsExact ==
    ASSUME NEW m \in Nat, NEW n \in 1..m
    PROVE  ((n + m + 1) % (2 * (m + 1))) - (m + 1) = n
<1>1. n + m + 1 \in 0..(2 * (m + 1) - 1)
  OBVIOUS
<1>2. \A a, b \in Nat : a < b => a % b = a
  BY Z3
<1>3. (n + m + 1) % (2 * (m + 1)) = n + m + 1
  BY <1>1, <1>2
<1> QED
  BY <1>3

LEMMA ParsedAsTyped ==
    ASSUME NEW text \in Text, ParsePid(text) # 0
    PROVE  /\ text = [parses |-> TRUE, value |-> ParsePid(text), trailing |-> FALSE]
           /\ ParsePid(text) > 0
<1>1. text.parses /\ ~text.trailing /\ text.value > 0 /\ text.value <= Int32Max
      /\ ParsePid(text) = Int32(text.value)
  BY DEF ParsePid
<1>2. text.value \in 1..Int32Max /\ Int32Max \in Nat
  BY <1>1, CliAssumption DEF Text
<1>3. Int32(text.value) = text.value
  BY <1>2, Int32IsExact DEF Int32
<1>4. text = [parses |-> text.parses, value |-> text.value, trailing |-> text.trailing]
      /\ text.parses \in BOOLEAN /\ text.trailing \in BOOLEAN
  BY DEF Text
<1>5. text.parses = TRUE /\ text.trailing = FALSE
  BY <1>1, <1>4
<1> QED
  BY <1>1, <1>3, <1>4, <1>5

LEMMA CliInitInv == CliInit => CliInv
<1> SUFFICES ASSUME CliInit PROVE CliInv
  OBVIOUS
<1>1. line \in CommandLines /\ step \in {"GetAgentInfo", "desktop"} /\ exit = -1 /\ reply = "none"
      /\ asked = {} /\ signalled = {} /\ shown = 0 /\ ~cancelled
  BY DEF CliInit
<1>2. GrantedInv /\ OptionInv /\ ControlInv
  BY <1>1 DEF GrantedInv, OptionInv, ControlInv, FromReadLog, FromListLogs, FromTcp, FromDetails,
              FromProcesses, FromStream, Overview, UnaryCalls, Following
<1>3. StreamInv /\ ExitInv /\ ControlsAsTyped
  BY <1>1 DEF StreamInv, ExitInv, ControlsAsTyped
<1> QED
  BY <1>1, <1>2, <1>3 DEF CliInv

-----------------------------------------------------------------------------
(* One lemma for each kind of step.                                         *)
Places == {"GetAgentInfo", "ControlProcess", "diagnostic", "exited", "desktop", "StreamLog"} \cup Overview

LEMMA PlacesOfMain == UnaryCalls \cup Streams \cup {"diagnostic", "exited", "desktop"} = Places
BY DEF UnaryCalls, Following, Streams, Places, FromReadLog, FromListLogs, FromTcp, FromDetails, FromProcesses, FromStream, Overview

(* main returns, and what it asked the Agent for is as ExitInv says.          *)
LEMMA ReturnKeeps ==
    ASSUME CliInv, NEW code \in {0, 1}, Return(code), UNCHANGED <<line, granted, asked, signalled, streamVars>>,
           ExitInv'
    PROVE  CliInv'
<1>1. step' = "exited" /\ UNCHANGED <<line, granted, asked, signalled, shown, ended, cancelled>>
  BY DEF Return, streamVars
<1>2. GrantedInv' /\ OptionInv' /\ ControlInv'
  BY <1>1 DEF GrantedInv, OptionInv, ControlInv, FromReadLog, FromListLogs, FromTcp, FromDetails, FromProcesses, FromStream, Overview
<1>3. StreamInv' /\ ControlsAsTyped'
  BY <1>1 DEF CliInv, StreamInv, ControlsAsTyped
<1> QED
  BY <1>1, <1>2, <1>3 DEF CliInv

LEMMA DispatchKeeps == CliInv /\ Dispatch => CliInv'
<1> SUFFICES ASSUME CliInv, Dispatch PROVE CliInv'
  OBVIOUS
<1>1. /\ step = "GetAgentInfo" /\ reply = "OK" /\ exit = -1 /\ "GetAgentInfo" \in granted
      /\ UNCHANGED <<line, granted, logs, signalled, streamVars>>
      /\ shown = 0 /\ ~cancelled
  BY DEF CliInv, GrantedInv, OptionInv, StreamInv, Dispatch, Answered
<1>2. UNCHANGED <<shown, ended, cancelled>> /\ line \in CommandLines /\ line' = line
  BY <1>1 DEF streamVars, CliInv
<1>3. CASE Return(1) /\ UNCHANGED asked
  <2>1. ExitInv'
    BY <1>3 DEF Return, ExitInv
  <2> QED
    BY <1>1, <1>3, <2>1, ReturnKeeps
<1>4. CASE /\ ~Return(1)
           /\ \/ line.option = "none" /\ Go("GetSystemMetrics") /\ UNCHANGED asked
              \/ line.option = "--diagnostic" /\ Go("diagnostic") /\ UNCHANGED asked
              \/ line.option = "--stream-log" /\ Go("StreamLog") /\ UNCHANGED asked
  <2>1. reply' = "none" /\ exit' = -1 /\ asked' = asked
    BY <1>1, <1>4 DEF Go
  <2>2. step' \in {"GetSystemMetrics", "diagnostic", "StreamLog"}
    BY <1>4 DEF Go
  <2>3. GrantedInv' /\ ControlInv'
    BY <1>1, <2>1, <2>2 DEF GrantedInv, ControlInv, FromReadLog, FromListLogs, FromTcp, FromDetails, FromProcesses, FromStream, Overview
  <2>4. OptionInv'
    BY <1>1, <1>2, <1>4, <2>1, <2>2 DEF Go, OptionInv, UnaryCalls, Following, Streams, FromReadLog, FromListLogs, FromTcp, FromDetails, FromProcesses, FromStream, Overview
  <2>5. StreamInv' /\ ExitInv' /\ ControlsAsTyped'
    BY <1>1, <1>2, <2>1, <2>2 DEF StreamInv, ExitInv, CliInv, ControlsAsTyped
  <2> QED
    BY <1>2, <2>3, <2>4, <2>5 DEF CliInv
<1>5. CASE /\ line.option = "--control" /\ ParsePid(line.number) # 0 /\ ParseControlAction(line.action)
           /\ Go("ControlProcess") /\ asked' = {ParsePid(line.number)}
  <2>1. step' = "ControlProcess" /\ reply' = "none" /\ exit' = -1
    BY <1>1, <1>5 DEF Go
  <2>2. GrantedInv' /\ OptionInv' /\ ControlInv'
    BY <1>1, <1>2, <1>5, <2>1 DEF GrantedInv, OptionInv, ControlInv, UnaryCalls, FromReadLog, FromListLogs, FromTcp, FromDetails, FromProcesses, FromStream, Overview
  <2>3. StreamInv' /\ ExitInv'
    BY <1>1, <1>2, <2>1 DEF StreamInv, ExitInv
  <2>4. line.number \in Text
    BY <1>2, CliAssumption
  <2>5. ControlsAsTyped'
    BY <1>1, <1>2, <1>5, <2>4, ParsedAsTyped DEF CliInv, ControlsAsTyped
  <2> QED
    BY <1>2, <2>2, <2>3, <2>5 DEF CliInv
<1> QED
  BY <1>3, <1>4, <1>5 DEF Dispatch

LEMMA ExitKeeps ==
    CliInv /\ (ControlSucceeded \/ ServicesListed \/ CallFailed \/ LinesShown \/ BundleDone) => CliInv'
<1> SUFFICES ASSUME CliInv, ControlSucceeded \/ ServicesListed \/ CallFailed \/ LinesShown \/ BundleDone
             PROVE  CliInv'
  OBVIOUS
<1>1. UNCHANGED <<line, granted, asked, signalled, streamVars>> /\ UNCHANGED <<client, outcome>>
  BY DEF ControlSucceeded, ServicesListed, CallFailed, LinesShown, BundleDone, vars
<1>2. UNCHANGED <<shown, ended, cancelled>>
  BY <1>1 DEF streamVars
<1>3. CASE CallFailed
  <2>1. Return(1) /\ ExitInv'
    BY <1>3 DEF CallFailed, Return, ExitInv
  <2> QED
    BY <1>1, <2>1, ReturnKeeps
<1>4. CASE ControlSucceeded
  <2>1. Return(0) /\ signalled # {} /\ line.option = "--control"
    BY <1>4 DEF ControlSucceeded, Answered, CliInv, ControlInv, OptionInv
  <2>2. ExitInv'
    BY <1>1, <2>1 DEF ExitInv
  <2> QED
    BY <1>1, <2>1, <2>2, ReturnKeeps
<1>5. CASE ServicesListed
  <2>1. Return(0) /\ step = "ListServices" /\ reply = "OK"
    BY <1>5 DEF ServicesListed, Answered
  <2>2. line.option = "none" /\ SamplesComplete /\ Required \subseteq granted
    BY <2>1 DEF CliInv, OptionInv, GrantedInv, Required, UnaryCalls, Following, FromReadLog, FromListLogs, FromTcp, FromDetails, FromProcesses, FromStream, Overview
  <2>3. ExitInv'
    BY <1>1, <1>2, <2>2 DEF ExitInv, SamplesComplete
  <2> QED
    BY <1>1, <2>1, <2>3, ReturnKeeps
<1>6. CASE LinesShown
  <2>1. PICK s \in StreamStatus : Return(IF s \in {"OK", "CANCELLED"} THEN 0 ELSE 1)
    BY <1>6 DEF LinesShown
  <2>2. step = "StreamLog" /\ line.option = "--stream-log"
    BY <1>6 DEF LinesShown, CliInv, OptionInv
  <2>3. s \in {"OK", "CANCELLED"} => shown >= Wanted(line.number) \/ ended \in {"OK", "CANCELLED"}
    BY <2>1, <2>2 DEF StreamStatus, CliInv, StreamInv
  <2>4. exit' = 0 => s \in {"OK", "CANCELLED"}
    BY <2>1 DEF Return
  <2>5. ExitInv'
    BY <1>1, <1>2, <2>2, <2>3, <2>4 DEF ExitInv
  <2> QED
    BY <1>1, <2>1, <2>5, ReturnKeeps
<1>7. CASE BundleDone
  <2>1. Return(IF outcome = "saved" THEN 0 ELSE 1) /\ client = "done" /\ line.option = "--diagnostic"
    BY <1>7 DEF BundleDone, CliInv, OptionInv
  <2>2. ExitInv'
    BY <1>1, <2>1 DEF ExitInv, Return
  <2> QED
    BY <1>1, <2>1, <2>2, ReturnKeeps
<1> QED
  BY <1>3, <1>4, <1>5, <1>6, <1>7

LEMMA ProceedKeeps ==
    ASSUME CliInv, step \in Overview, NEW next \in FromProcesses, Go(next),
           UNCHANGED <<line, granted, asked, signalled, streamVars>>, GrantedInv'
    PROVE  CliInv'
<1>1. step' = next /\ reply' = "none" /\ exit' = exit
      /\ UNCHANGED <<line, granted, asked, signalled, shown, ended, cancelled>>
  BY DEF Go, streamVars
<1>2. line.option = "none" /\ exit = -1
  BY DEF CliInv, OptionInv, FromReadLog, FromListLogs, FromTcp, FromDetails, FromProcesses, FromStream, Overview
<1>3. OptionInv' /\ ControlInv'
  BY <1>1, <1>2 DEF OptionInv, ControlInv, UnaryCalls, Following, Streams, FromReadLog, FromListLogs, FromTcp, FromDetails, FromProcesses, FromStream, Overview
<1>4. StreamInv' /\ ExitInv' /\ ControlsAsTyped'
  BY <1>1, <1>2 DEF CliInv, StreamInv, ExitInv, ControlsAsTyped, FromReadLog, FromListLogs, FromTcp, FromDetails, FromProcesses, FromStream, Overview
<1> QED
  BY <1>1, <1>3, <1>4 DEF CliInv

LEMMA CallKeeps == CliInv /\ (NextCall \/ ReadFirstLog) => CliInv'
<1> SUFFICES ASSUME CliInv, NextCall \/ ReadFirstLog PROVE CliInv'
  OBVIOUS
<1>1. UNCHANGED <<line, granted, asked, signalled, streamVars>>
  BY DEF NextCall, ReadFirstLog
<1>2. UNCHANGED <<shown, ended>> /\ UNCHANGED granted
  BY <1>1 DEF streamVars
<1>3. CASE NextCall
  <2>1. PICK s \in DOMAIN Following : Answered(s) /\ \E next \in Following[s] : Go(next)
    BY <1>3 DEF NextCall
  <2>2. PICK next \in Following[s] : Go(next)
    BY <2>1
  <2>3. step = s /\ step' = next /\ reply' = "none" /\ s \in granted
    BY <2>1, <2>2 DEF Answered, Go, CliInv, GrantedInv, Following
  <2>4. CASE s = "GetSystemMetrics"
    <3>1. step' = "StreamSystemMetrics" /\ exit' = -1 /\ shown = 0 /\ ~cancelled /\ line.option = "none"
      BY <2>2, <2>3, <2>4 DEF Following, Go, CliInv, OptionInv, StreamInv, Overview
    <3>2. GrantedInv' /\ OptionInv' /\ ControlInv'
      BY <1>1, <2>3, <2>4, <3>1 DEF CliInv, GrantedInv, OptionInv, ControlInv, Streams, FromReadLog, FromListLogs, FromTcp, FromDetails, FromProcesses, FromStream, Overview
    <3>3. UNCHANGED cancelled
      BY <1>1 DEF streamVars
    <3>4. StreamInv' /\ ExitInv' /\ ControlsAsTyped'
      BY <1>1, <1>2, <3>1, <3>3 DEF CliInv, StreamInv, ExitInv, ControlsAsTyped, MaxSamples
    <3> QED
      BY <1>1, <3>2, <3>4 DEF CliInv
  <2>5. CASE s # "GetSystemMetrics"
    <3>1. step \in Overview /\ next \in FromProcesses
      BY <2>2, <2>3, <2>5 DEF Following, FromReadLog, FromListLogs, FromTcp, FromDetails, FromProcesses, FromStream, Overview
    <3>2. GrantedInv'
      BY <1>2, <2>2, <2>3, <2>5 DEF CliInv, GrantedInv, Following, SamplesComplete, MaxSamples, FromReadLog, FromListLogs, FromTcp, FromDetails, FromProcesses, FromStream, Overview
    <3> QED
      BY <1>1, <2>2, <3>1, <3>2, ProceedKeeps
  <2> QED
    BY <2>4, <2>5
<1>4. CASE ReadFirstLog
  <2>1. PICK n : TryLogs(n) /\ (Answered("ListLogs") \/ step = "ReadLog")
    BY <1>4 DEF ReadFirstLog, Answered
  <2>2. PICK next \in FromReadLog : Go(next)
    BY <2>1 DEF TryLogs, FromReadLog
  <2>3. step' = next /\ reply' = "none"
    BY <2>2 DEF Go
  <2>4. step \in FromListLogs /\ "ListLogs" \in granted
    BY <2>1 DEF Answered, CliInv, GrantedInv, FromReadLog, FromListLogs, FromTcp, FromDetails, FromProcesses, FromStream, Overview
  <2>5. GrantedInv'
    BY <1>2, <2>2, <2>3, <2>4 DEF CliInv, GrantedInv, SamplesComplete, MaxSamples, FromReadLog, FromListLogs, FromTcp, FromDetails, FromProcesses, FromStream, Overview
  <2>6. step \in Overview /\ next \in FromProcesses
    BY <2>2, <2>4 DEF FromReadLog, FromListLogs, FromTcp, FromDetails, FromProcesses, FromStream, Overview
  <2> QED
    BY <1>1, <2>2, <2>5, <2>6, ProceedKeeps
<1> QED
  BY <1>3, <1>4

LEMMA SamplesKeep == CliInv /\ SamplesShown => CliInv'
<1> SUFFICES ASSUME CliInv, SamplesShown PROVE CliInv'
  OBVIOUS
<1>1. UNCHANGED <<line, granted, asked, signalled, streamVars>> /\ step = "StreamSystemMetrics"
  BY DEF SamplesShown
<1>2. PICK s \in StreamStatus : IF SamplesAccepted(s) THEN Go("ListProcesses") ELSE Return(1)
  BY DEF SamplesShown
<1>3. CASE ~SamplesAccepted(s)
  <2>1. Return(1) /\ ExitInv'
    BY <1>2, <1>3 DEF Return, ExitInv
  <2> QED
    BY <1>1, <2>1, ReturnKeeps
<1>4. CASE SamplesAccepted(s)
  <2>1. Go("ListProcesses") /\ step' = "ListProcesses" /\ reply' = "none"
    BY <1>2, <1>4 DEF Go
  <2>2. SamplesComplete
    BY <1>1, <1>4 DEF CliInv, StreamInv, SamplesAccepted, StreamStatus, SamplesComplete
  <2>3. SamplesComplete'
    BY <1>1, <2>2 DEF streamVars, SamplesComplete, MaxSamples
  <2>4. GrantedInv'
    BY <1>1, <2>1, <2>3 DEF CliInv, GrantedInv, FromReadLog, FromListLogs, FromTcp, FromDetails, FromProcesses, FromStream, Overview
  <2>5. step \in Overview /\ "ListProcesses" \in FromProcesses
    BY <1>1 DEF FromReadLog, FromListLogs, FromTcp, FromDetails, FromProcesses, FromStream, Overview
  <2> QED
    BY <1>1, <2>1, <2>4, <2>5, ProceedKeeps
<1> QED
  BY <1>3, <1>4

LEMMA AgentKeeps == CliInv /\ (Signal \/ Answer \/ DeadlinePasses) => CliInv'
<1> SUFFICES ASSUME CliInv, Signal \/ Answer \/ DeadlinePasses PROVE CliInv'
  OBVIOUS
<1>1. UNCHANGED <<vars, line, step, exit, streamVars>>
  BY DEF Signal, Answer, DeadlinePasses
<1>2. UNCHANGED <<client, outcome, shown, ended, cancelled>>
  BY <1>1 DEF vars, streamVars
<1>3. granted \subseteq granted' /\ (reply' = "OK" => reply = "OK" \/ step \in granted')
  BY DEF Signal, Answer, DeadlinePasses
<1>4. signalled # {} => signalled' # {}
  BY DEF Signal, Answer, DeadlinePasses
<1>5. step = "ControlProcess" /\ reply' = "OK" => signalled' # {}
  BY DEF Signal, Answer, DeadlinePasses, CliInv, ControlInv
<1>6. asked' \cup signalled' \subseteq asked \cup signalled
  BY DEF Signal, Answer, DeadlinePasses
<1>7. GrantedInv'
  BY <1>1, <1>2, <1>3 DEF CliInv, GrantedInv, SamplesComplete, MaxSamples
<1>8. OptionInv' /\ StreamInv' /\ ControlInv'
  BY <1>1, <1>2, <1>5 DEF CliInv, OptionInv, StreamInv, ControlInv
<1>9. ExitInv'
  BY <1>1, <1>2, <1>3, <1>4 DEF CliInv, ExitInv, SamplesComplete, MaxSamples
<1>10. ControlsAsTyped'
  BY <1>1, <1>6 DEF CliInv, ControlsAsTyped
<1> QED
  BY <1>1, <1>7, <1>8, <1>9, <1>10 DEF CliInv

LEMMA MessagesKeep == CliInv /\ (Write \/ StreamEnded \/ ReadMessage) => CliInv'
<1> SUFFICES ASSUME CliInv, Write \/ StreamEnded \/ ReadMessage PROVE CliInv'
  OBVIOUS
<1>1. UNCHANGED <<line, step, exit, callVars>> /\ step \in Streams /\ exit = -1
  BY DEF Write, StreamEnded, ReadMessage, CliInv, OptionInv, Streams
<1>2. UNCHANGED <<reply, granted, asked, signalled>>
  BY <1>1 DEF callVars
<1>3. GrantedInv' /\ OptionInv' /\ ControlInv' /\ ExitInv' /\ ControlsAsTyped'
  <2>1. GrantedInv'
    BY <1>1, <1>2 DEF CliInv, GrantedInv, Streams, FromReadLog, FromListLogs, FromTcp, FromDetails, FromProcesses, FromStream, Overview
  <2>2. OptionInv' /\ ControlInv' /\ ControlsAsTyped'
    BY <1>1, <1>2 DEF CliInv, OptionInv, ControlInv, ControlsAsTyped
  <2>3. ExitInv'
    BY <1>1 DEF ExitInv
  <2> QED
    BY <2>1, <2>2, <2>3
<1>4. StreamInv'
  <2>1. CASE Write \/ StreamEnded
    BY <2>1, <1>1 DEF Write, StreamEnded, CliInv, StreamInv
  <2>2. CASE ReadMessage /\ step = "StreamSystemMetrics"
    <3>1. shown \in 0..2 /\ shown' = shown + 1
      BY <2>2 DEF ReadMessage, CliInv, StreamInv, MaxSamples
    <3>2. (cancelled' => shown' >= MaxSamples) /\ (~cancelled' => ~(shown' >= MaxSamples))
      BY <2>2 DEF ReadMessage, Limit
    <3>3. shown' \in Nat /\ (cancelled' => shown' = MaxSamples) /\ (~cancelled' => shown' < MaxSamples)
      BY <3>1, <3>2 DEF MaxSamples
    <3> QED
      BY <3>3, <2>2, <1>1 DEF StreamInv
  <2>3. CASE ReadMessage /\ step = "StreamLog"
    <3>1. shown \in Nat /\ shown' = shown + 1 /\ (cancelled' => shown' >= Wanted(line.number))
      BY <2>3 DEF ReadMessage, CliInv, StreamInv, Limit
    <3>2. Wanted(line.number)' = Wanted(line.number)
      BY <1>1 DEF Wanted
    <3> QED
      BY <3>1, <3>2, <2>3, <1>1 DEF StreamInv
  <2> QED
    BY <1>1, <2>1, <2>2, <2>3 DEF Streams
<1> QED
  BY <1>1, <1>3, <1>4 DEF CliInv

(* Once the download is done only the Agent moves on in it.                   *)
LEMMA TransferKeeps ==
    CliInv /\ (Transfer(Client) \/ Transfer(Server) \/ Transfer(StreamBreaks) \/ Transfer(Done)) => CliInv'
<1> SUFFICES ASSUME CliInv,
                    Transfer(Client) \/ Transfer(Server) \/ Transfer(StreamBreaks) \/ Transfer(Done)
             PROVE  CliInv'
  OBVIOUS
<1>1. UNCHANGED cliVars
  BY DEF Transfer
<1>2. UNCHANGED <<line, step, exit, reply, granted, asked, signalled, shown, ended, cancelled>>
  BY <1>1 DEF cliVars, callVars, streamVars
<1>3. GrantedInv' /\ OptionInv' /\ StreamInv'
  BY <1>2 DEF CliInv, GrantedInv, OptionInv, StreamInv, SamplesComplete, MaxSamples
<1>4. ControlInv' /\ ControlsAsTyped'
  BY <1>2 DEF CliInv, ControlInv, ControlsAsTyped
<1>5. client = "done" /\ outcome = "saved" => client' = "done" /\ outcome' = "saved"
  BY DEF Transfer, Client, Server, Done, vars, setting, fileVars, Refuse, Begin, SendChunk, ReadFails,
         EndOfFile, ServerSeesCancel, CreateFails, Created, OpenFails, Open, ReadChunk, StreamEnds,
         StreamBreaks, Close, Conclude
<1>6. ExitInv'
  BY <1>2, <1>5 DEF CliInv, ExitInv, SamplesComplete, MaxSamples
<1> QED
  BY <1>2, <1>3, <1>4, <1>6 DEF CliInv

LEMMA CliStep == CliInv /\ [CliNext]_allVars => CliInv'
<1> SUFFICES ASSUME CliInv, [CliNext]_allVars PROVE CliInv'
  OBVIOUS
<1>1. CASE UNCHANGED allVars
  <2>1. UNCHANGED <<line, step, exit, reply, granted, asked, signalled, shown, ended, cancelled,
                    client, outcome>>
    BY <1>1 DEF allVars, vars, cliVars, callVars, streamVars
  <2>2. GrantedInv' /\ OptionInv' /\ StreamInv'
    BY <2>1 DEF CliInv, GrantedInv, OptionInv, StreamInv, SamplesComplete, MaxSamples
  <2>3. ControlInv' /\ ControlsAsTyped' /\ ExitInv'
    BY <2>1 DEF CliInv, ControlInv, ControlsAsTyped, ExitInv, SamplesComplete, MaxSamples
  <2> QED
    BY <2>1, <2>2, <2>3 DEF CliInv
<1>2. CASE Main \/ Agent
  BY <1>2, DispatchKeeps, ExitKeeps, CallKeeps, SamplesKeep, AgentKeeps, MessagesKeep, TransferKeeps
  DEF Main, Agent
<1>3. CASE DeadlinePasses \/ Transfer(StreamBreaks) \/ Transfer(Done)
  BY <1>3, AgentKeeps, TransferKeeps
<1> QED
  BY <1>1, <1>2, <1>3 DEF CliNext, Terminated

LEMMA CliInductive == CliSpec => []CliInv
BY CliInitInv, CliStep, PTL DEF CliSpec

-----------------------------------------------------------------------------
(* The download in edgescope-cli is the one of DiagnosticTransfer: nothing     *)
(* else main does touches it.                                               *)
THEOREM TransferIsOfTheProgram == CliSpec => Spec
<1>1. CliInit => Init
  BY DEF CliInit
<1>2. [CliNext]_allVars => [Next]_vars
  <2> SUFFICES ASSUME [CliNext]_allVars PROVE [Next]_vars
    OBVIOUS
  <2>1. CASE Transfer(Client) \/ Transfer(Server) \/ Transfer(StreamBreaks) \/ Transfer(Done)
    BY <2>1 DEF Transfer, Next
  <2>2. CASE UNCHANGED vars
    BY <2>2
  <2> QED
    BY <2>1, <2>2 DEF CliNext, Main, Agent, Terminated, allVars, Dispatch, ControlSucceeded, NextCall,
       ReadFirstLog, ServicesListed, CallFailed, ReadMessage, SamplesShown, LinesShown, BundleDone,
       Signal, Answer, Write, StreamEnded, DeadlinePasses
<1> QED
  BY <1>1, <1>2, PTL DEF CliSpec, Spec

(* A process is signalled for edgescope-cli only under the number that was      *)
(* typed, in 32 bits as in 64.                                              *)
THEOREM SignalsAsTyped == CliSpec => []ControlsAsTyped
<1>1. CliInv => ControlsAsTyped
  BY DEF CliInv
<1> QED
  BY <1>1, CliInductive, PTL

(* An exit status of 0 is true, wherever a call failed or was cut off.         *)
THEOREM ExitStatusIsTrue == CliSpec => []SuccessIsComplete
<1>1. CliInv /\ SavedIsComplete => SuccessIsComplete
  BY DEF CliInv, ExitInv, SavedIsComplete, SuccessIsComplete, SamplesComplete
<1>2. CliSpec => []SavedIsComplete
  BY TransferIsOfTheProgram, SavedMeansComplete, PTL
<1> QED
  BY <1>1, <1>2, CliInductive, PTL

=============================================================================
