------------------------- MODULE DiagnosticTransfer -------------------------
(***************************************************************************)
(* The download of one diagnostic bundle: DownloadDiagnosticBundle on the    *)
(* Agent streams the archive in chunks, EdgeScopeClient reads the stream,    *)
(* and RpcWorker (the desktop client) or main (the command-line client)      *)
(* writes a local file and decides what becomes of it.                       *)
(*                                                                         *)
(* The archive is the sequence of chunks 1..Chunks; a size is counted in     *)
(* chunks, and so is an offset.  gRPC delivers the messages of a stream in   *)
(* order and then its status, or cuts the stream off with an error.          *)
(*                                                                         *)
(* An operator X_Y beside X is X with the defect Y: it is not part of the    *)
(* specification, and shows that a property is sensitive to it.             *)
(***************************************************************************)
EXTENDS Naturals, Sequences

CONSTANTS Chunks,     \* size of the archive
          Fronts      \* the programs that download: "worker" is RpcWorker,
                      \* "cli" edgescope-cli --diagnostic

ASSUME TransferAssumption == Chunks \in Nat \ {0} /\ Fronts \subseteq {"worker", "cli"}

VARIABLES
    front,      \* the program that downloads
    shortTail,  \* the last chunk is small enough to stay in the ofstream's
                \* buffer until close()
    server,     \* the handler: "idle", "sending", "returned"
    serverStatus,
    sent,       \* its offset
    wire,       \* chunks written and not yet read by the client
    client,     \* "creating", "opening", "reading", "cancelled", "finished",
                \* "closed", "done"
    status,     \* what Finish returned
    received,
    failed,     \* local_write_failed
    opened,     \* the destination was opened (and truncated)
    file,       \* the chunks in the destination, <<>> when it does not exist
    removal,    \* of the destination: "none" was tried, it was "done", or it "failed"
    buffer,     \* chunks in the ofstream's buffer
    broken,     \* the ofstream is in a failed state
    outcome     \* what the user is told: "none", "saved", "error"

vars == <<front, shortTail, server, serverStatus, sent, wire, client, status, received, failed,
          opened, file, removal, buffer, broken, outcome>>
serverVars == <<server, serverStatus, sent>>
setting    == <<front, shortTail>>
fileVars   == <<opened, file, removal, buffer, broken>>

Archive == [i \in 1..Chunks |-> i]

Init ==
    /\ front \in Fronts /\ shortTail \in BOOLEAN
    /\ server = "idle" /\ serverStatus = "none" /\ sent = 0 /\ wire = <<>>
    /\ client = "creating" /\ status = "none" /\ received = 0 /\ failed = FALSE
    /\ opened = FALSE /\ file = <<>> /\ removal = "none" /\ buffer = <<>> /\ broken = FALSE
    /\ outcome = "none"

-----------------------------------------------------------------------------
(* The handler.  Lookup and open may fail (the bundle was evicted), a read    *)
(* may fail, and a Write on a stream the client has left ends it with OK.    *)
ServerReturns(s) == server' = "returned" /\ serverStatus' = s

Refuse ==
    /\ server = "idle" /\ client = "reading"
    /\ \E s \in {"NOT_FOUND", "INTERNAL"} : ServerReturns(s)
    /\ UNCHANGED <<setting, sent, wire, client, status, received, failed, fileVars, outcome>>

Begin ==
    /\ server = "idle" /\ client = "reading"
    /\ server' = "sending"
    /\ UNCHANGED <<setting, serverStatus, sent, wire, client, status, received, failed, fileVars, outcome>>

SendChunk ==
    /\ server = "sending" /\ sent < Chunks
    /\ sent' = sent + 1
    /\ wire' = Append(wire, [chunk |-> sent + 1, offset |-> sent])
    /\ UNCHANGED <<setting, server, serverStatus, client, status, received, failed, fileVars, outcome>>

\* input.bad(), or a file that ends early: offset # total_size.
ReadFails ==
    /\ server = "sending" /\ sent < Chunks
    /\ ServerReturns("INTERNAL")
    /\ UNCHANGED <<setting, sent, wire, client, status, received, failed, fileVars, outcome>>

SizeChecked == sent = Chunks

EndOfFile ==
    /\ server = "sending" /\ SizeChecked
    /\ ServerReturns("OK")
    /\ UNCHANGED <<setting, sent, wire, client, status, received, failed, fileVars, outcome>>

\* IsCancelled, or a Write that fails.
ServerSeesCancel ==
    /\ server = "sending" /\ client \notin {"creating", "opening", "reading"}
    /\ ServerReturns("OK")
    /\ UNCHANGED <<setting, sent, wire, client, status, received, failed, fileVars, outcome>>

-----------------------------------------------------------------------------
(* The client.                                                             *)
Tell(what) == outcome' = what /\ client' = "done"

CreateFails ==
    /\ client = "creating"
    /\ Tell("error")
    /\ UNCHANGED <<setting, serverVars, wire, status, received, failed, fileVars>>

Created ==
    /\ client = "creating"
    /\ client' = "opening"
    /\ UNCHANGED <<setting, serverVars, wire, status, received, failed, fileVars, outcome>>

OpenFails ==
    /\ client = "opening"
    /\ Tell("error")
    /\ UNCHANGED <<setting, serverVars, wire, status, received, failed, fileVars>>

Open ==
    /\ client = "opening"
    /\ opened' = TRUE
    /\ client' = "reading"
    /\ UNCHANGED <<setting, serverVars, wire, status, received, failed, file, removal, buffer, broken, outcome>>

(* The callback for one chunk.  output.write of a full chunk goes to the     *)
(* file, all of it or (the disk is full) not; a small last one to the buffer.*)
Stays(chunk) == shortTail /\ chunk = Chunks

WriteChunk(chunk, ok) ==
    IF Stays(chunk)
    THEN ok /\ buffer' = Append(buffer, chunk) /\ UNCHANGED <<file, broken>>
    ELSE /\ file' = IF ok THEN Append(file, chunk) ELSE file
         /\ broken' = ~ok /\ UNCHANGED buffer

\* RpcWorker: a write that fails is remembered and not counted.
WorkerCallback_IgnoringWrite(c, ok) ==
    /\ WriteChunk(c.chunk, ok)
    /\ received' = received + 1
    /\ UNCHANGED <<client, failed>>

WorkerCallback(c, ok) ==
    \/ /\ c.offset # received
       /\ failed' = TRUE /\ client' = "cancelled"
       /\ UNCHANGED <<received, file, buffer, broken>>
    \/ /\ c.offset = received /\ WriteChunk(c.chunk, ok)
       /\ received' = IF ok THEN received + 1 ELSE received
       /\ failed' = ~ok
       /\ client' = IF ok THEN "reading" ELSE "cancelled"

\* main: a write that fails cancels the stream, but is counted.
CliCallback(c, ok) ==
    \/ /\ c.offset # received
       /\ client' = "cancelled"
       /\ UNCHANGED <<received, failed, file, buffer, broken>>
    \/ /\ c.offset = received /\ WriteChunk(c.chunk, ok)
       /\ received' = received + 1
       /\ client' = IF ok THEN "reading" ELSE "cancelled"
       /\ UNCHANGED failed

ReadChunk ==
    /\ client = "reading" /\ wire # <<>>
    /\ wire' = Tail(wire)
    /\ \E ok \in BOOLEAN :
          \/ front = "worker" /\ WorkerCallback(Head(wire), ok)
          \/ front = "cli" /\ CliCallback(Head(wire), ok)
    /\ UNCHANGED <<setting, serverVars, status, opened, removal, outcome>>

Finish(s) == status' = s /\ client' = "finished"

\* Read returns false and Finish the server's status.  After TryCancel that
\* status wins the race if it had already arrived.
StreamEnds ==
    /\ \/ client = "reading" /\ wire = <<>> /\ server = "returned" /\ Finish(serverStatus)
       \/ client = "cancelled" /\ server = "returned" /\ Finish(serverStatus)
       \/ client = "cancelled" /\ Finish("CANCELLED")
    /\ UNCHANGED <<setting, serverVars, wire, received, failed, fileVars, outcome>>

\* The connection breaks or the 5-minute deadline expires; what is on the wire
\* is dropped.
StreamBreaks ==
    /\ client \in {"reading", "cancelled"}
    /\ \E s \in {"UNAVAILABLE", "DEADLINE_EXCEEDED"} : Finish(s)
    /\ wire' = <<>>
    /\ UNCHANGED <<setting, serverVars, received, failed, fileVars, outcome>>

\* output.close() flushes the buffer; that this fails is never looked at.
Close ==
    /\ client = "finished"
    /\ client' = "closed"
    /\ \/ file' = file \o buffer /\ UNCHANGED broken
       \/ buffer # <<>> /\ broken' = TRUE /\ UNCHANGED file
    /\ buffer' = <<>>
    /\ UNCHANGED <<setting, serverVars, wire, status, received, failed, opened, removal, outcome>>

Accepted_IgnoringStatus == ~failed

Accepted == ~failed /\ status = "OK" /\ received = Chunks

\* RpcWorker calls QFile::remove and does not look whether it did; main leaves
\* the file.
Conclude ==
    /\ client = "closed"
    /\ Tell(IF Accepted THEN "saved" ELSE "error")
    /\ IF ~Accepted /\ front = "worker"
       THEN \/ file' = <<>> /\ removal' = "done"
            \/ removal' = "failed" /\ UNCHANGED file
       ELSE UNCHANGED <<file, removal>>
    /\ UNCHANGED <<setting, serverVars, wire, status, received, failed, opened, buffer, broken>>

Done == client = "done" /\ server # "sending" /\ UNCHANGED vars

Server == Refuse \/ Begin \/ SendChunk \/ ReadFails \/ EndOfFile \/ ServerSeesCancel
Client == CreateFails \/ Created \/ OpenFails \/ Open \/ ReadChunk \/ StreamEnds \/ Close \/ Conclude
Next   == Server \/ Client \/ StreamBreaks \/ Done

Spec == Init /\ [][Next]_vars

-----------------------------------------------------------------------------
(* Every variable has its type.                                            *)
TypeOK ==
    /\ server \in {"idle", "sending", "returned"}
    /\ serverStatus \in {"none", "OK", "NOT_FOUND", "INTERNAL"}
    /\ sent \in 0..Chunks
    /\ wire \in Seq([chunk : 1..Chunks, offset : 0..Chunks])
    /\ client \in {"creating", "opening", "reading", "cancelled", "finished", "closed", "done"}
    /\ status \in {"none", "OK", "NOT_FOUND", "INTERNAL", "CANCELLED", "UNAVAILABLE",
                   "DEADLINE_EXCEEDED"}
    /\ (status # "none") => (client \in {"finished", "closed", "done"})
    /\ received \in 0..Chunks
    /\ failed \in BOOLEAN /\ opened \in BOOLEAN /\ broken \in BOOLEAN
    /\ removal \in {"none", "done", "failed"}
    /\ file \in Seq(1..Chunks) /\ buffer \in Seq(1..Chunks)
    /\ outcome \in {"none", "saved", "error"}
    /\ (outcome # "none") <=> (client = "done")

(* architecture.md:63: partial diagnostic downloads are deleted.  When the    *)
(* client is done, a destination it opened holds the whole archive or is     *)
(* gone, whatever failed where: the Agent, the stream, or the local disk.    *)
CompleteOrDeleted == client = "done" /\ opened => file = Archive \/ removal = "done"

(* What RpcWorker keeps of that promise: its local_write_failed, the status   *)
(* and the received count together catch every failure, wherever it struck,  *)
(* except one of the last flush, in output.close(), and it then asks for the  *)
(* file to be removed.  A partial file stays only when that QFile::remove     *)
(* fails too (RpcWorker.cpp 354-356), and then the user is told of an error.  *)
(* A failed ofstream that set no flag is Unnoticed.                         *)
Unnoticed == broken /\ ~failed

WorkerKeepsItsPromise ==
    front = "worker" /\ ~Unnoticed =>
        CompleteOrDeleted \/ (removal = "failed" /\ outcome = "error")

(* The user is told "saved" only for a complete file, unless the failure was  *)
(* Unnoticed: the last flush, or in main the write of the last chunk, which   *)
(* is counted, when the server's OK had already arrived.                    *)
SavedIsComplete ==
    client = "done" /\ outcome = "saved" => (opened /\ file = Archive) \/ Unnoticed

=============================================================================
