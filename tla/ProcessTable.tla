---------------------------- MODULE ProcessTable ----------------------------
(***************************************************************************)
(* ProcessCollector, NetworkCollector::ListTcpConnections and                *)
(* ProcessController against a /proc that changes while it is read: processes*)
(* exit, pids are reused, sockets are opened, passed on and closed between    *)
(* any two system calls of one call.                                        *)
(*                                                                         *)
(* A process is <<pid, n>>, the n-th that had this pid.  The files of /proc   *)
(* always parse, as ProcFiles has it; here they say only whose they are.  The *)
(* calls share no state in the Agent, so one at a time shows all there is.   *)
(*                                                                         *)
(* An operator X_Y beside X is X with the defect Y: it is not part of the    *)
(* specification, and shows that a property is sensitive to it.             *)
(***************************************************************************)
EXTENDS Integers, FiniteSets, FiniteSetsExt

CONSTANTS Pids,      \* of other processes, all above 1
          Agent,     \* getpid()
          Inodes,    \* of TCP sockets
          Requested, \* the pids a client may ask for, sensible or not
          MaxReuse   \* processes per pid in the instance

ASSUME TableAssumption ==
    /\ Pids \subseteq Nat \ {0, 1} /\ IsFiniteSet(Pids) /\ Agent \in Nat \ {0, 1} /\ Agent \notin Pids
    /\ Requested \subseteq Int /\ MaxReuse \in Nat

VARIABLES
    life,       \* life[p]: which process has pid p, 0 if none
    last,       \* the last that had it
    hidden,     \* pids whose process the Agent may not read nor signal
    holders,    \* holders[i]: the processes that have socket i open
    pc, op, arg, status,
    cursor,     \* where the iteration over /proc stands
    entry,      \* the ProcessInfo being filled: parts read so far
    entries,    \* the processes found
    rows,       \* the inodes of the TCP table
    links,      \* file descriptors of the current process yet to be read
    owner,      \* socket_pids
    hit,        \* the processes that got this call's signal
    missed,     \* those that an I/O error of this call kept from being read
    during,     \* the processes alive at some time of this call
    steady,     \* and those alive all the time
    held        \* <<inode, process>>: who had a socket at some time of it

vars == <<life, last, hidden, holders, pc, op, arg, status, cursor, entry, entries,
          rows, links, owner, hit, missed, during, steady, held>>
system  == <<life, last, hidden, holders>>
results == <<entries, rows, owner, hit, missed>>
ghosts  == <<during, steady, held>>

Alive      == {<<p, life[p]>> : p \in {q \in DOMAIN life : life[q] # 0}}
Blank      == [pid |-> 0, parts |-> {}]
NoOwner    == [i \in Inodes |-> 0]
Open       == {i \in Inodes : holders[i] # {}}
HeldNow    == {h \in Inodes \X Alive : h[2] \in holders[h[1]]}

Init ==
    /\ life = [p \in Pids \cup {Agent} |-> 1] /\ last = life
    /\ hidden \in SUBSET Pids /\ holders = [i \in Inodes |-> {}]
    /\ pc = "idle" /\ op = "none" /\ arg = 0 /\ status = "none" /\ cursor = 0
    /\ entry = Blank /\ entries = {} /\ rows = {} /\ links = {} /\ owner = NoOwner
    /\ hit = {} /\ missed = {} /\ during = {} /\ steady = {} /\ held = {}

-----------------------------------------------------------------------------
(* The other processes.                                                     *)
Vanish(gone) ==
    /\ life' = [p \in DOMAIN life |-> IF <<p, life[p]>> \in gone THEN 0 ELSE life[p]]
    /\ holders' = [i \in Inodes |-> holders[i] \ gone]
    /\ steady' = steady \ gone

Leave(p) ==
    /\ life[p] # 0 /\ Vanish({<<p, life[p]>>})
    /\ UNCHANGED <<last, hidden, pc, op, arg, status, cursor, entry, links, results, during, held>>

Spawn(p) ==
    /\ life[p] = 0 /\ last[p] < MaxReuse
    /\ last' = [last EXCEPT ![p] = @ + 1] /\ life' = [life EXCEPT ![p] = last[p] + 1]
    /\ hidden' \in {hidden \cup {p}, hidden \ {p}}
    /\ during' = during \cup {<<p, last[p] + 1>>}
    /\ UNCHANGED <<holders, pc, op, arg, status, cursor, entry, links, results, steady, held>>

\* A new socket, whose inode number may have been another's, or one inherited.
Acquire(p, i) ==
    /\ life[p] # 0 /\ <<p, life[p]>> \notin holders[i]
    /\ holders' = [holders EXCEPT ![i] = @ \cup {<<p, life[p]>>}]
    /\ held' = held \cup {<<i, <<p, life[p]>>>>}
    /\ UNCHANGED <<life, last, hidden, pc, op, arg, status, cursor, entry, links, results, during, steady>>

Release(p, i) ==
    /\ <<p, life[p]>> \in holders[i]
    /\ holders' = [holders EXCEPT ![i] = @ \ {<<p, life[p]>>}]
    /\ UNCHANGED <<life, last, hidden, pc, op, arg, status, cursor, entry, links, results, ghosts>>

-----------------------------------------------------------------------------
Goto(l) == pc' = l /\ UNCHANGED status
Return(s) == pc' = "idle" /\ status' = s

Call_KeepingMap(o, p, first) ==
    /\ pc = "idle" /\ pc' = first /\ op' = o /\ arg' = p /\ status' = "none"
    /\ cursor' = 0 /\ entry' = Blank /\ links' = {}
    /\ entries' = {} /\ rows' = {} /\ hit' = {} /\ missed' = {} /\ UNCHANGED owner
    /\ during' = Alive /\ steady' = Alive /\ held' = HeldNow
    /\ UNCHANGED system

Call(o, p, first) ==
    /\ pc = "idle" /\ pc' = first /\ op' = o /\ arg' = p /\ status' = "none"
    /\ cursor' = 0 /\ entry' = Blank /\ links' = {}
    /\ entries' = {} /\ rows' = {} /\ owner' = NoOwner /\ hit' = {} /\ missed' = {}
    /\ during' = Alive /\ steady' = Alive /\ held' = HeldNow
    /\ UNCHANGED system

ListProcesses      == Call("list", 0, "scan")
GetProcessDetails  == \E p \in Requested : Call("details", p, "check")
ListTcpConnections == Call("tcp", 0, "tcp")
ControlProcess     == \E p \in Requested : Call("control", p, "control")

(* The directory iterator: the lowest pid above the last, as /proc lists them.*)
Ahead == {p \in DOMAIN life : life[p] # 0 /\ p > cursor}

NextEntry ==
    /\ pc = "scan" /\ Ahead # {}
    /\ cursor' = Min(Ahead) /\ entry' = [pid |-> Min(Ahead), parts |-> {}]
    /\ Goto("stat")
    /\ UNCHANGED <<system, op, arg, links, results, ghosts>>

EndOfScan ==
    /\ pc = "scan" /\ Ahead = {} /\ Return("OK")
    /\ UNCHANGED <<system, op, arg, cursor, entry, links, results, ghosts>>

(* readdir fails: the error is cleared, but the iterator is at the end, and   *)
(* the listing returns what it has.                                          *)
ScanCutShort ==
    /\ pc = "scan" /\ Ahead # {} /\ Return("OK")
    /\ missed' = missed \cup {<<p, life[p]>> : p \in Ahead}
    /\ UNCHANGED <<system, op, arg, cursor, entry, links, entries, rows, owner, hit, ghosts>>

ScanFails ==
    /\ pc = "scan" /\ cursor = 0 /\ Return("INTERNAL")
    /\ UNCHANGED <<system, op, arg, cursor, entry, links, results, ghosts>>

CheckPid ==
    /\ pc = "check"
    /\ IF arg <= 0
       THEN Return("INVALID_ARGUMENT") /\ UNCHANGED <<cursor, entry>>
       ELSE Goto("stat") /\ cursor' = arg /\ entry' = [pid |-> arg, parts |-> {}]
    /\ UNCHANGED <<system, op, arg, links, results, ghosts>>

Living(p) == p \in DOMAIN life /\ life[p] # 0

(* GetProcess gave up: the details fail with it, the listing goes on.        *)
GiveUp_Always(s) == Return(s)

GiveUp(s) == IF op = "list" THEN Goto("scan") ELSE Return(s)

(* A failed read, of a process that exited after the open or for want of      *)
(* memory, leaves ReadFile with an empty text and no error.  ParseStatLine    *)
(* refuses that, ParseStatus takes it for a kernel thread.                   *)
ReadsNothing == \E x \in during : x[1] = cursor

(* The files of one process: stat and status are needed, in this order.  What *)
(* is neither gone nor hidden may still be INTERNAL: there is no descriptor or *)
(* memory to open it with, or its stat read as nothing.                      *)
NeedFile(file, next) ==
    /\ pc = file
    /\ \/ /\ Living(cursor) /\ Goto(next)
          /\ entry' = [entry EXCEPT !.parts = @ \cup {life[cursor]}] /\ UNCHANGED missed
       \/ ~Living(cursor) /\ GiveUp("NOT_FOUND") /\ UNCHANGED <<entry, missed>>
       \/ file # "stat" /\ ReadsNothing /\ Goto(next) /\ UNCHANGED <<entry, missed>>
       \/ Living(cursor) /\ cursor \in hidden /\ GiveUp("PERMISSION_DENIED") /\ UNCHANGED <<entry, missed>>
       \/ /\ GiveUp("INTERNAL") /\ UNCHANGED entry
          /\ missed' = missed \cup {x \in Alive : x[1] = cursor}
    /\ UNCHANGED <<system, op, arg, cursor, links, entries, rows, owner, hit, ghosts>>

ReadStat   == NeedFile("stat", "status")
ReadStatus == NeedFile("status", "optional")

\* cmdline and io may be missing; then the entry is complete.
ReadOptional ==
    /\ pc = "optional"
    /\ \E more \in {{}} \cup IF Living(cursor) THEN {{life[cursor]}} ELSE {} :
          entries' = entries \cup {[entry EXCEPT !.parts = @ \cup more]}
    /\ IF op = "list" THEN Goto("scan") ELSE Return("OK")
    /\ UNCHANGED <<system, op, arg, cursor, entry, links, rows, owner, hit, missed, ghosts>>

-----------------------------------------------------------------------------
\* /proc/net/tcp must open; a missing tcp6 is as good as an empty one.
ReadTcpTables ==
    /\ pc = "tcp"
    /\ \/ rows' \in SUBSET Open /\ Goto("pids")
       \/ Return("INTERNAL") /\ UNCHANGED rows
    /\ UNCHANGED <<system, op, arg, cursor, entry, links, entries, owner, hit, missed, ghosts>>

(* BuildSocketPidMap: every process's fd directory, if it may be read, and as *)
(* much of it as is listed without an error.                                *)
NextFdDirectory ==
    /\ pc = "pids" /\ Ahead # {} /\ links = {}
    /\ cursor' = Min(Ahead)
    /\ links' \in SUBSET {i \in Inodes : cursor' \notin hidden /\ <<cursor', life[cursor']>> \in holders[i]}
    /\ UNCHANGED <<system, pc, op, arg, status, entry, results, ghosts>>

Emplaced(i) == IF owner[i] = 0 THEN [owner EXCEPT ![i] = cursor] ELSE owner

ReadLink(i) ==
    owner' = IF Living(cursor) /\ <<cursor, life[cursor]>> \in holders[i] THEN Emplaced(i) ELSE owner

ReadLinks ==
    /\ pc = "pids"
    /\ \E i \in links : links' = links \ {i} /\ ReadLink(i)
    /\ UNCHANGED <<system, pc, op, arg, status, cursor, entry, entries, rows, hit, missed, ghosts>>

(* The iteration over /proc stops, at its end or at an error, and what it    *)
(* found is put into the rows.                                             *)
MapRows ==
    /\ pc = "pids" /\ links = {}
    /\ owner' = [i \in Inodes |-> IF i \in rows THEN owner[i] ELSE 0]
    /\ Return("OK")
    /\ UNCHANGED <<system, op, arg, cursor, entry, links, entries, rows, hit, missed, ghosts>>

-----------------------------------------------------------------------------
(* kill(2): 0 is the caller's group, -1 everything it may signal but itself.  *)
Targets(pid) ==
    {x \in Alive : x[1] \notin hidden
                   /\ (x[1] = pid \/ (pid = 0 /\ x[1] = Agent) \/ (pid = -1 /\ x[1] # Agent))}

Controllable_AnyOther(pid) == pid # Agent

Controllable(pid) == pid > 1 /\ pid # Agent

Reject ==
    /\ pc = "control" /\ Return("INVALID_ARGUMENT")     \* the pid, or the action
    /\ UNCHANGED <<system, op, arg, cursor, entry, links, results, ghosts>>

\* SIGKILL ends the process, SIGTERM may, SIGSTOP and SIGCONT do not.
Signal ==
    /\ pc = "control" /\ Controllable(arg) /\ Targets(arg) # {}
    /\ hit' = Targets(arg) /\ Return("OK")
    /\ \/ Vanish(Targets(arg))
       \/ UNCHANGED <<life, holders, steady>>
    /\ UNCHANGED <<last, hidden, op, arg, cursor, entry, links, entries, rows, owner, missed, during, held>>

SignalFails ==
    /\ pc = "control" /\ Controllable(arg) /\ Targets(arg) = {}
    /\ Return(IF Living(arg) THEN "PERMISSION_DENIED" ELSE "NOT_FOUND")
    /\ UNCHANGED <<system, op, arg, cursor, entry, links, results, ghosts>>

System ==
    \E p \in Pids : Leave(p) \/ Spawn(p) \/ \E i \in Inodes : Acquire(p, i) \/ Release(p, i)
Handler ==
    \/ ListProcesses \/ GetProcessDetails \/ ListTcpConnections \/ ControlProcess
    \/ NextEntry \/ EndOfScan \/ ScanCutShort \/ ScanFails
    \/ CheckPid \/ ReadStat \/ ReadStatus \/ ReadOptional
    \/ ReadTcpTables \/ NextFdDirectory \/ ReadLinks \/ MapRows
    \/ Reject \/ Signal \/ SignalFails
Next == System \/ Handler
Spec == Init /\ [][Next]_vars
-----------------------------------------------------------------------------
Processes == (Pids \cup {Agent}) \X (1..(MaxReuse + 1))
Statuses  == {"none", "OK", "INVALID_ARGUMENT", "NOT_FOUND", "PERMISSION_DENIED", "INTERNAL"}

(* Every variable has its type; an entry has parts, and one process an entry. *)
TypeOK ==
    /\ life \in [Pids \cup {Agent} -> 0..(MaxReuse + 1)] /\ last \in [Pids \cup {Agent} -> Nat]
    /\ hidden \subseteq Pids /\ holders \in [Inodes -> SUBSET Alive]
    /\ pc \in {"idle", "scan", "check", "stat", "status", "optional", "tcp", "pids", "control"}
    /\ op \in {"none", "list", "details", "tcp", "control"} /\ status \in Statuses
    /\ pc = "idle" <=> status # "none" \/ op = "none"
    /\ \A e \in entries : e.parts # {} /\ \A f \in entries : e.pid = f.pid => e = f
    /\ rows \subseteq Inodes /\ links \subseteq Inodes /\ owner \in [Inodes -> Nat]
    /\ hit \subseteq Processes /\ missed \subseteq Processes
    /\ during \subseteq Processes /\ steady \subseteq during

Parts(e) == {<<e.pid, n>> : n \in e.parts}
HadThePid(e) == {x \in during : x[1] = e.pid}

(* interview-guide.md:16: a pid can disappear during scanning, and one failed *)
(* process is skipped rather than failing the list, which fails only before   *)
(* the first process.  Every process the Agent may read that lived all        *)
(* through the call is in the answer, unless an I/O error kept it out: the    *)
(* Agent had no descriptor or memory to read it, or readdir failed before it. *)
(* What the answer says of a pid comes from processes that had it during the  *)
(* call: of one only, unless the pid was reused meanwhile.  Details are never *)
(* NOT_FOUND for a process that lived all through the call, and INTERNAL only *)
(* when an I/O error struck it.                                            *)
SnapshotsAreTrue ==
    pc = "idle" /\ op \in {"list", "details"} =>
        /\ \A e \in entries :
              /\ Parts(e) \subseteq during
              /\ Cardinality(HadThePid(e)) = 1 => Cardinality(e.parts) = 1
        /\ op = "list" /\ status # "OK" => cursor = 0
        /\ op = "list" /\ status = "OK" =>
              \A x \in steady : x[1] \in hidden \/ x \in missed \/ \E e \in entries : x \in Parts(e)
        /\ status = "NOT_FOUND" => \A x \in steady : x[1] # arg
        /\ status = "INTERNAL" => \A x \in steady : x[1] # arg \/ x \in missed

(* The inode-to-pid map is built after the tables were read, from links read  *)
(* one by one, while sockets change hands and inode numbers are used again.   *)
(* The map is only "best effort", but a pid shown with a connection is never  *)
(* invented: its process had that inode open at some time of the call.       *)
OwnersAreReal ==
    pc = "idle" /\ op = "tcp" =>
        \A i \in Inodes : owner[i] # 0 => i \in rows /\ \E x \in during : x[1] = owner[i] /\ <<i, x>> \in held

(* A signal reaches one process, the one that has the requested pid at that   *)
(* moment, and never the Agent; a client that is told OK did signal it.      *)
OnlyTheNamedProcess ==
    pc = "idle" /\ op = "control" =>
        /\ hit \subseteq {x \in during : x[1] = arg /\ arg > 1 /\ arg # Agent}
        /\ (status = "OK") = (Cardinality(hit) = 1)

=============================================================================
