-------------------------- MODULE CollectorProofs --------------------------
(***************************************************************************)
(* Proofs about the calls of the collectors.  ProcessTable: for any processes, *)
(* sockets and reuse of pids, a snapshot is true of the time of its call, an   *)
(* owner of a socket is never invented, and a signal reaches the named process *)
(* and no other; and of the texts: what the kernel prints is read back,       *)
(* whatever a process is called.  LogRead: for any log, keyword, block and    *)
(* caps the answer is the end of the log, and it is marked unless it is all.   *)
(***************************************************************************)
EXTENDS ProcessTexts, LogRead, WellFoundedInduction, FiniteSetTheorems, TLAPS

PidsOf == Pids \cup {Agent}

(* The processes that are alive and the sockets they hold.                   *)
WorldInv ==
    /\ life \in [PidsOf -> 0..(MaxReuse + 1)] /\ last \in [PidsOf -> Nat]
    /\ hidden \subseteq Pids /\ holders \in [Inodes -> SUBSET Alive]

(* What is alive, or held, has been during the call; what is steady lives.   *)
GhostInv ==
    /\ op # "none" => Alive \subseteq during /\ HeldNow \subseteq held
    /\ during \subseteq Processes /\ steady \subseteq during /\ steady \subseteq Alive

Reading == {"stat", "status", "optional"}

(* Where a call of each kind may be.                                        *)
CallInv ==
    /\ pc \in {"idle", "scan", "check", "tcp", "pids", "control"} \cup Reading
    /\ op \in {"none", "list", "details", "tcp", "control"} /\ status \in Statuses
    /\ pc = "idle" => status # "none" \/ op = "none"
    /\ status # "none" \/ op = "none" => pc = "idle"
    /\ pc = "scan" => op = "list"
    /\ pc = "check" => op = "details"
    /\ pc \in Reading => op \in {"list", "details"} /\ (op = "details" => cursor = arg)
    /\ pc \in {"tcp", "pids"} => op = "tcp"
    /\ pc = "control" => op = "control"
    /\ op = "list" => arg = 0
    /\ op \in {"details", "control"} => arg \in Int
    /\ cursor \in Int

(* The process being read, and the processes read so far: they are in order.  *)
EntryInv ==
    /\ pc \in Reading =>
          /\ entry = [pid |-> cursor, parts |-> entry.parts]
          /\ \A n \in entry.parts : <<cursor, n>> \in during
          /\ \A e \in entries : e.pid < cursor
          /\ op = "details" => entries = {}
    /\ pc \in {"status", "optional"} =>
          entry.parts # {} /\ \A x \in steady : x[1] = cursor => x[2] \in entry.parts
    /\ pc \in {"check", "tcp", "pids", "control"} => entries = {}
    /\ pc = "scan" => \A e \in entries : e.pid <= cursor
    /\ \A e \in entries : /\ e = [pid |-> e.pid, parts |-> e.parts] /\ e.pid \in Int
                          /\ e.parts # {} /\ Parts(e) \subseteq during
                          /\ \A f \in entries : e.pid = f.pid => e = f

Told(x) == x[1] \in hidden \/ x \in missed \/ \E e \in entries : x \in Parts(e)

(* No process that lived all through the listing was passed over, unless an   *)
(* I/O error did it.                                                       *)
CoverInv ==
    /\ pc = "scan" => \A x \in steady : x[1] <= cursor => Told(x)
    /\ pc \in Reading /\ op = "list" => \A x \in steady : x[1] < cursor => Told(x)
    /\ pc = "idle" /\ op = "list" /\ status = "OK" => \A x \in steady : Told(x)
    /\ pc = "idle" /\ op = "list" /\ status # "OK" => cursor = 0
    /\ pc = "idle" /\ op = "details" /\ status = "NOT_FOUND" => \A x \in steady : x[1] # arg
    /\ pc = "idle" /\ op = "details" /\ status = "INTERNAL" =>
          \A x \in steady : x[1] # arg \/ x \in missed

TcpInv ==
    /\ rows \subseteq Inodes /\ links \subseteq Inodes /\ owner \in [Inodes -> Nat]
    /\ \A i \in Inodes : owner[i] # 0 => \E x \in during : x[1] = owner[i] /\ <<i, x>> \in held
    /\ pc = "tcp" => \A i \in Inodes : owner[i] = 0
    /\ pc = "idle" /\ op = "tcp" => \A i \in Inodes : owner[i] # 0 => i \in rows

SignalInv ==
    /\ pc # "idle" => hit = {}
    /\ hit \subseteq Processes /\ missed \subseteq Processes
    /\ OnlyTheNamedProcess

IInv == WorldInv /\ GhostInv /\ CallInv /\ EntryInv /\ CoverInv /\ TcpInv /\ SignalInv

-----------------------------------------------------------------------------
(* The processes of the model.                                             *)
LEMMA PidsArePositive == PidsOf \subseteq Nat /\ \A p \in PidsOf : p > 1
BY TableAssumption DEF PidsOf

LEMMA AliveAre ==
    ASSUME WorldInv
    PROVE  /\ \A x : x \in Alive <=> \E p \in PidsOf : life[p] # 0 /\ x = <<p, life[p]>>
           /\ \A p \in PidsOf : life[p] # 0 <=> <<p, life[p]>> \in Alive
           /\ Alive \subseteq Processes
           /\ \A p : Living(p) <=> p \in PidsOf /\ life[p] # 0
<1>1. DOMAIN life = PidsOf
  BY DEF WorldInv
<1>2. \A p \in PidsOf : life[p] # 0 => life[p] \in 1..(MaxReuse + 1)
  BY TableAssumption DEF WorldInv
<1>3. \A x : x \in Alive <=> \E p \in PidsOf : life[p] # 0 /\ x = <<p, life[p]>>
  BY <1>1 DEF Alive
<1>4. \A p : Living(p) <=> p \in PidsOf /\ life[p] # 0
  BY <1>1 DEF Living
<1>5. \A p \in PidsOf : life[p] # 0 <=> <<p, life[p]>> \in Alive
  BY <1>3
<1>6. Alive \subseteq Processes
  BY <1>2, <1>3 DEF Processes, PidsOf
<1> QED
  BY <1>3, <1>4, <1>5, <1>6

LEMMA SteadyAre ==
    ASSUME IInv, NEW x \in steady
    PROVE  x = <<x[1], x[2]>> /\ x[1] \in PidsOf /\ x[1] \in Nat /\ x[1] > 1
           /\ life[x[1]] # 0 /\ life[x[1]] = x[2] /\ Living(x[1])
<1>1. WorldInv /\ x \in Alive
  BY DEF IInv, GhostInv
<1>2. PICK p \in PidsOf : life[p] # 0 /\ x = <<p, life[p]>>
  BY <1>1, AliveAre
<1>3. p \in Nat /\ p > 1 /\ Living(p)
  BY <1>1, <1>2, PidsArePositive, AliveAre
<1> QED
  BY <1>2, <1>3

(* What other processes do while a call is in progress.                      *)
LEMMA WorldFrame ==
    ASSUME IInv, UNCHANGED <<pc, op, arg, status, cursor, entry, entries, rows, links, owner, hit, missed>>,
           during \subseteq during', steady' \subseteq steady, held \subseteq held',
           \A x \in steady' : x[1] \in hidden => x[1] \in hidden',
           WorldInv', GhostInv'
    PROVE  IInv'
<1>1. CallInv'
  BY DEF IInv, CallInv, Reading
<1>2. EntryInv'
  BY DEF IInv, EntryInv, Reading, Parts
<1>3. \A x \in steady' : Told(x) => Told(x)'
  BY DEF Told, Parts
<1>4. CoverInv'
  BY <1>3 DEF IInv, CoverInv, Reading
<1>5. TcpInv'
  BY DEF IInv, TcpInv
<1>6. SignalInv'
  BY DEF IInv, SignalInv, OnlyTheNamedProcess, Processes
<1> QED
  BY <1>1, <1>2, <1>4, <1>5, <1>6 DEF IInv

LEMMA VanishKeeps ==
    ASSUME IInv, NEW gone, Vanish(gone), UNCHANGED <<last, hidden, during, held, op>>
    PROVE  WorldInv' /\ GhostInv'
<1>1. WorldInv /\ GhostInv
  BY DEF IInv
<1>2. life' = [p \in PidsOf |-> IF <<p, life[p]>> \in gone THEN 0 ELSE life[p]]
      /\ holders' = [i \in Inodes |-> holders[i] \ gone] /\ steady' = steady \ gone
  BY <1>1 DEF Vanish, WorldInv
<1>3. life' \in [PidsOf -> 0..(MaxReuse + 1)]
  <2>1. 0 \in 0..(MaxReuse + 1) /\ \A p \in PidsOf : life[p] \in 0..(MaxReuse + 1)
    BY <1>1, TableAssumption DEF WorldInv
  <2> QED
    BY <1>2, <2>1
<1>4. \A p \in PidsOf : /\ <<p, life[p]>> \in gone => life'[p] = 0
                        /\ <<p, life[p]>> \notin gone => life'[p] = life[p]
  BY <1>2
<1>5. DOMAIN life' = PidsOf
  BY <1>2
<1>6. \A x : x \in Alive' <=> x \in Alive \ gone
  <2>1. \A x : x \in Alive' <=> \E p \in PidsOf : life'[p] # 0 /\ x = <<p, life'[p]>>
    BY <1>5 DEF Alive
  <2>2. \A x : x \in Alive <=> \E p \in PidsOf : life[p] # 0 /\ x = <<p, life[p]>>
    BY <1>1, AliveAre
  <2>3. ASSUME NEW x, x \in Alive' PROVE x \in Alive \ gone
    <3>1. PICK p \in PidsOf : life'[p] # 0 /\ x = <<p, life'[p]>>
      BY <2>1, <2>3
    <3>2. <<p, life[p]>> \notin gone /\ life'[p] = life[p]
      BY <3>1, <1>4
    <3> QED
      BY <3>1, <3>2, <2>2
  <2>4. ASSUME NEW x, x \in Alive, x \notin gone PROVE x \in Alive'
    <3>1. PICK p \in PidsOf : life[p] # 0 /\ x = <<p, life[p]>>
      BY <2>2, <2>4
    <3>2. life'[p] = life[p]
      BY <3>1, <2>4, <1>4
    <3> QED
      BY <3>1, <3>2, <2>1
  <2> QED
    BY <2>3, <2>4
<1>7. \A i \in Inodes : holders'[i] = holders[i] \ gone /\ holders[i] \subseteq Alive
  BY <1>1, <1>2 DEF WorldInv
<1>8. holders' \in [Inodes -> SUBSET Alive']
  BY <1>2, <1>6, <1>7
<1>9. WorldInv'
  BY <1>1, <1>3, <1>8 DEF WorldInv
<1>10. HeldNow' \subseteq HeldNow
  BY <1>6, <1>7 DEF HeldNow
<1>11. GhostInv'
  BY <1>1, <1>2, <1>6, <1>10 DEF GhostInv, Processes
<1> QED
  BY <1>9, <1>11

LEMMA LeaveKeeps == ASSUME IInv, NEW p \in Pids, Leave(p) PROVE IInv'
<1>1. Vanish({<<p, life[p]>>}) /\ steady' \subseteq steady
      /\ UNCHANGED <<last, hidden, pc, op, arg, status, cursor, entry, links, results, during, held>>
  BY DEF Leave, Vanish
<1>2. WorldInv' /\ GhostInv'
  BY <1>1, VanishKeeps
<1> QED
  BY <1>1, <1>2, WorldFrame DEF results

LEMMA SpawnKeeps == ASSUME IInv, NEW p \in Pids, Spawn(p) PROVE IInv'
<1>1. WorldInv /\ GhostInv /\ p \in PidsOf
  BY DEF IInv, PidsOf
<1>2. life[p] = 0 /\ last[p] \in Nat /\ last[p] < MaxReuse /\ MaxReuse \in Nat
  BY <1>1, TableAssumption DEF Spawn, WorldInv
<1>3. last' = [last EXCEPT ![p] = @ + 1] /\ life' = [life EXCEPT ![p] = last[p] + 1]
      /\ hidden' \in {hidden \cup {p}, hidden \ {p}} /\ during' = during \cup {<<p, last[p] + 1>>}
      /\ UNCHANGED <<holders, pc, op, arg, status, cursor, entry, links, results, steady, held>>
  BY DEF Spawn
<1>4. last[p] + 1 \in 1..(MaxReuse + 1)
  BY <1>2
<1>5. DOMAIN life' = PidsOf /\ life'[p] = last[p] + 1 /\ \A q \in PidsOf \ {p} : life'[q] = life[q]
  BY <1>1, <1>3 DEF WorldInv
<1>6. life' \in [PidsOf -> 0..(MaxReuse + 1)] /\ last' \in [PidsOf -> Nat]
  BY <1>1, <1>2, <1>3, <1>4 DEF WorldInv
<1>7. \A x : x \in Alive' <=> x \in Alive \/ x = <<p, last[p] + 1>>
  <2>1. \A x : x \in Alive' <=> \E q \in PidsOf : life'[q] # 0 /\ x = <<q, life'[q]>>
    BY <1>5 DEF Alive
  <2>2. \A x : x \in Alive <=> \E q \in PidsOf : life[q] # 0 /\ x = <<q, life[q]>>
    BY <1>1, AliveAre
  <2>3. last[p] + 1 # 0
    BY <1>4
  <2> QED
    BY <1>1, <1>2, <1>5, <2>1, <2>2, <2>3
<1>8. hidden' \subseteq Pids
  BY <1>1, <1>3 DEF WorldInv
<1>9. holders' \in [Inodes -> SUBSET Alive']
  <2>1. Alive \subseteq Alive' /\ holders' = holders
    BY <1>3, <1>7
  <2> QED
    BY <1>1, <2>1 DEF WorldInv
<1>10. WorldInv'
  BY <1>6, <1>8, <1>9 DEF WorldInv
<1>11. <<p, last[p] + 1>> \in Processes
  BY <1>4 DEF Processes
<1>12. HeldNow' \subseteq HeldNow
  BY <1>1, <1>3 DEF HeldNow, WorldInv
<1>13. GhostInv'
  <2>1. op' = op /\ steady' = steady /\ held' = held
    BY <1>3
  <2>2. during' \subseteq Processes'
    BY <1>1, <1>3, <1>11 DEF GhostInv, Processes
  <2>3. op # "none" => Alive' \subseteq during' /\ HeldNow' \subseteq held
    BY <1>1, <1>3, <1>7, <1>12 DEF GhostInv
  <2>4. steady \subseteq during' /\ steady \subseteq Alive'
    BY <1>1, <1>3, <1>7 DEF GhostInv
  <2> QED
    BY <2>1, <2>2, <2>3, <2>4 DEF GhostInv
<1>14. \A x \in steady : x[1] # p
  BY <1>2, SteadyAre
<1>15. \A x \in steady' : x[1] \in hidden => x[1] \in hidden'
  BY <1>3, <1>14
<1>16. during \subseteq during'
  BY <1>3
<1> QED
  BY <1>3, <1>10, <1>13, <1>15, <1>16, WorldFrame DEF results

LEMMA SocketsKeep ==
    ASSUME IInv, NEW p \in Pids, NEW i \in Inodes, Acquire(p, i) \/ Release(p, i)
    PROVE  IInv'
<1>1. WorldInv /\ GhostInv /\ p \in PidsOf
  BY DEF IInv, PidsOf
<1>2. UNCHANGED <<life, last, hidden, pc, op, arg, status, cursor, entry, links, results, during, steady>>
  BY DEF Acquire, Release, ghosts
<1>3. Alive' = Alive
  BY <1>2 DEF Alive
<1>4. CASE Acquire(p, i)
  <2> DEFINE x == <<p, life[p]>>
  <2>1. x \in Alive /\ holders' = [holders EXCEPT ![i] = @ \cup {x}] /\ held' = held \cup {<<i, x>>}
    BY <1>1, <1>4, AliveAre DEF Acquire
  <2>2. WorldInv'
    BY <1>1, <1>2, <1>3, <2>1 DEF WorldInv
  <2>3. HeldNow' \subseteq HeldNow \cup {<<i, x>>}
    BY <1>1, <1>3, <2>1 DEF HeldNow, WorldInv
  <2>4. GhostInv'
    BY <1>1, <1>2, <1>3, <2>1, <2>3 DEF GhostInv, Processes
  <2> QED
    BY <1>2, <2>1, <2>2, <2>4, WorldFrame DEF results
<1>5. CASE Release(p, i)
  <2>1. holders' = [holders EXCEPT ![i] = @ \ {<<p, life[p]>>}] /\ held' = held
    BY <1>5 DEF Release, ghosts
  <2>2. WorldInv'
    BY <1>1, <1>2, <1>3, <2>1 DEF WorldInv
  <2>3. HeldNow' \subseteq HeldNow
    BY <1>1, <1>3, <2>1 DEF HeldNow, WorldInv
  <2>4. GhostInv'
    BY <1>1, <1>2, <1>3, <2>1, <2>3 DEF GhostInv, Processes
  <2> QED
    BY <1>2, <2>1, <2>2, <2>4, WorldFrame DEF results
<1> QED
  BY <1>4, <1>5

-----------------------------------------------------------------------------
(* The handlers.                                                             *)
LEMMA HandlerFrame ==
    ASSUME IInv, UNCHANGED <<system, ghosts, op>>
    PROVE  WorldInv' /\ GhostInv' /\ Alive' = Alive
<1>1. UNCHANGED <<life, last, hidden, holders, during, steady, held>>
  BY DEF system, ghosts
<1>2. Alive' = Alive
  BY <1>1 DEF Alive
<1>3. WorldInv'
  BY <1>1, <1>2 DEF IInv, WorldInv
<1>4. GhostInv'
  BY <1>1, <1>2 DEF IInv, GhostInv, HeldNow, Processes
<1> QED
  BY <1>2, <1>3, <1>4

LEMMA ScanFrame ==
    ASSUME IInv, UNCHANGED <<system, ghosts, op, arg, rows, owner, hit, links>>,
           op \in {"list", "details"}, pc # "idle", pc' # "tcp", missed' \subseteq Processes
    PROVE  WorldInv' /\ GhostInv' /\ TcpInv' /\ SignalInv'
<1>1. TcpInv'
  BY DEF IInv, TcpInv, ghosts
<1>2. SignalInv'
  BY DEF IInv, SignalInv, OnlyTheNamedProcess, Processes
<1> QED
  BY <1>1, <1>2, HandlerFrame

(* A nonempty set of numbers has a least one.                                *)
LEMMA LeastExists ==
    ASSUME NEW S, S \subseteq Nat, S # {}
    PROVE  \E x \in S : \A y \in S : x <= y
  <1> DEFINE R == OpToRel(<, Nat)
  <1>1. IsWellFoundedOn(R, Nat)
    BY NatLessThanWellFounded, Zenon
  <1>2. \A x, y \in Nat : y < x => <<y, x>> \in R
    <2> SUFFICES ASSUME NEW x \in Nat, NEW y \in Nat, y < x
                 PROVE  <<y, x>> \in R
      BY Zenon
    <2>1. <<y, x>> \in Nat \X Nat /\ <<y, x>>[1] < <<y, x>>[2]
      <3> HIDE DEF R
      <3> QED
        OBVIOUS
    <2> QED
      BY <2>1, Zenon DEF OpToRel
  <1> HIDE DEF R
  <1>3. PICK x \in S : \A y \in S : ~(<<y, x>> \in R)
    BY <1>1, WFMin
  <1>4. \A y \in S : x <= y
    <2> SUFFICES ASSUME NEW y \in S
                 PROVE  x <= y
      OBVIOUS
    <2>1. x \in Nat /\ y \in Nat
      OBVIOUS
    <2>2. ~(y < x)
      BY <2>1, <1>2, <1>3, Zenon
    <2> QED
      BY <2>1, <2>2
  <1> QED
    BY <1>4, Zenon


LEMMA LeastAhead ==
    ASSUME IInv, Ahead # {}
    PROVE  /\ Min(Ahead) \in PidsOf /\ Living(Min(Ahead)) /\ Min(Ahead) \in Int /\ Min(Ahead) > cursor
           /\ \A q \in Ahead : Min(Ahead) <= q
<1>1. WorldInv
  BY DEF IInv
<1>2. Ahead \subseteq Nat /\ \A q \in Ahead : q \in PidsOf /\ Living(q) /\ q > cursor
  BY <1>1, PidsArePositive DEF WorldInv, Ahead, Living
<1>3. \E m \in Ahead : \A q \in Ahead : m <= q
  BY <1>2, LeastExists
<1>4. PICK m \in Ahead : m = Min(Ahead) /\ \A q \in Ahead : m <= q
  BY <1>3 DEF Min
<1>5. m \in PidsOf /\ Living(m) /\ m \in Int /\ m > cursor
  BY <1>2, <1>4
<1> QED
  BY <1>4, <1>5

LEMMA NextEntryKeeps == ASSUME IInv, NextEntry PROVE IInv'
<1>1. pc = "scan" /\ op = "list" /\ Ahead # {} /\ status = "none" /\ op' = op /\ status' = status
      /\ pc' = "stat" /\ entry' = [pid |-> cursor', parts |-> {}] /\ cursor' = Min(Ahead)
      /\ UNCHANGED <<hidden, during, steady, entries, missed, arg>> /\ missed \subseteq Processes
  BY DEF NextEntry, IInv, CallInv, SignalInv, Goto, system, ghosts, results
<1>2. cursor' \in PidsOf /\ cursor' \in Int /\ cursor \in Int /\ cursor' > cursor
      /\ \A q \in Ahead : cursor' <= q
  BY <1>1, LeastAhead DEF IInv, CallInv
<1>3. CallInv'
  BY <1>1, <1>2 DEF IInv, CallInv, Reading
<1>4. EntryInv'
  <2>1. \A e \in entries : e.pid \in Int /\ e.pid <= cursor
    BY <1>1 DEF IInv, EntryInv
  <2>2. \A e \in entries' : e.pid < cursor'
    BY <1>1, <1>2, <2>1
  <2>3. \A e \in entries' : Parts(e)' = Parts(e)
    BY DEF Parts
  <2> QED
    BY <1>1, <2>2, <2>3 DEF IInv, EntryInv, Reading
<1>5. CoverInv'
  <2>1. \A x \in steady : x[1] < cursor' => x[1] <= cursor
    <3> SUFFICES ASSUME NEW x \in steady, x[1] < cursor', ~(x[1] <= cursor) PROVE FALSE
      OBVIOUS
    <3>1. x[1] \in Nat /\ Living(x[1])
      BY SteadyAre
    <3>2. x[1] \in Ahead
      BY <3>1, <1>2 DEF Ahead, Living
    <3> QED
      BY <3>1, <3>2, <1>2
  <2>2. \A x \in steady : Told(x) => Told(x)'
    BY <1>1 DEF Told, Parts
  <2> QED
    BY <1>1, <2>1, <2>2 DEF IInv, CoverInv, Reading
<1>6. WorldInv' /\ GhostInv' /\ TcpInv' /\ SignalInv'
  <2>1. UNCHANGED <<system, ghosts, op, arg, rows, owner, hit, links>>
    BY DEF NextEntry, results
  <2> QED
    BY <1>1, <2>1, ScanFrame
<1> QED
  BY <1>3, <1>4, <1>5, <1>6 DEF IInv

LEMMA EndOfScanKeeps == ASSUME IInv, EndOfScan \/ ScanCutShort \/ ScanFails PROVE IInv'
<1>1. pc = "scan" /\ op = "list" /\ pc' = "idle" /\ op' = op /\ cursor' = cursor
      /\ UNCHANGED <<hidden, during, steady, entries>>
      /\ UNCHANGED <<system, ghosts, op, arg, rows, owner, hit, links>>
  BY DEF EndOfScan, ScanCutShort, ScanFails, IInv, CallInv, Return, system, ghosts, results
<1>2. \/ Ahead = {} /\ status' = "OK" /\ missed' = missed
      \/ status' = "OK" /\ missed' = missed \cup {<<p, life[p]>> : p \in Ahead}
      \/ cursor = 0 /\ status' = "INTERNAL" /\ missed' = missed
  BY DEF EndOfScan, ScanCutShort, ScanFails, Return, results
<1>7. \A p \in Ahead : <<p, life[p]>> \in Alive
  BY DEF Ahead, Alive
<1>8. missed \subseteq missed' /\ missed' \subseteq Processes
  <2>1. missed \subseteq Processes /\ Alive \subseteq Processes
    BY AliveAre DEF IInv, SignalInv
  <2> QED
    BY <1>2, <1>7, <2>1
<1>3. CallInv'
  BY <1>1, <1>2 DEF IInv, CallInv, Reading, Statuses
<1>4. EntryInv'
  BY <1>1 DEF IInv, EntryInv, Reading, Parts
<1>5. CoverInv'
  <2>2. \A x \in steady : Told(x) => Told(x)'
    BY <1>1, <1>8 DEF Told, Parts
  <2>3. ASSUME status' = "OK", NEW x \in steady, x[1] > cursor PROVE Told(x)'
    <3>1. x[1] \in Ahead /\ x = <<x[1], life[x[1]]>>
      BY <2>3, SteadyAre DEF Ahead, Living
    <3>2. x \in missed'
      BY <1>2, <2>3, <3>1
    <3> QED
      BY <3>2 DEF Told
  <2>4. ASSUME status' = "OK" PROVE \A x \in steady : Told(x)'
    <3> SUFFICES ASSUME NEW x \in steady PROVE Told(x)'
      OBVIOUS
    <3>1. x[1] <= cursor \/ x[1] > cursor
      BY SteadyAre DEF IInv, CallInv
    <3>2. x[1] <= cursor => Told(x)
      BY <1>1 DEF IInv, CoverInv
    <3> QED
      BY <2>2, <2>3, <2>4, <3>1, <3>2
  <2> QED
    BY <1>1, <1>2, <2>4 DEF CoverInv, Reading
<1>6. WorldInv' /\ GhostInv' /\ TcpInv' /\ SignalInv'
  BY <1>1, <1>8, ScanFrame
<1> QED
  BY <1>3, <1>4, <1>5, <1>6 DEF IInv

LEMMA CheckPidKeeps == ASSUME IInv, CheckPid PROVE IInv'
<1>1. pc = "check" /\ op = "details" /\ op' = op /\ entries = {} /\ entries' = {}
      /\ UNCHANGED <<hidden, during, steady, arg>>
      /\ UNCHANGED <<system, ghosts, op, arg, rows, owner, hit, links>>
      /\ status = "none" /\ cursor \in Int /\ missed' \subseteq Processes
  BY DEF CheckPid, IInv, CallInv, EntryInv, SignalInv, system, ghosts, results
<1>2. \/ pc' = "idle" /\ status' = "INVALID_ARGUMENT" /\ cursor' = cursor
      \/ /\ pc' = "stat" /\ status' = status /\ cursor' = arg /\ entry' = [pid |-> arg, parts |-> {}]
         /\ arg \in Int
  BY DEF CheckPid, Return, Goto, IInv, CallInv
<1>3. CallInv'
  BY <1>1, <1>2 DEF IInv, CallInv, Reading, Statuses
<1>4. EntryInv'
  BY <1>1, <1>2 DEF EntryInv, Reading
<1>5. CoverInv'
  BY <1>1, <1>2 DEF CoverInv, Reading
<1>6. WorldInv' /\ GhostInv' /\ TcpInv' /\ SignalInv'
  BY <1>1, <1>2, ScanFrame
<1> QED
  BY <1>3, <1>4, <1>5, <1>6 DEF IInv

(* GetProcess gives up on a process that is gone, is hidden, or is struck by an *)
(* I/O error.                                                               *)
LEMMA GiveUpKeeps ==
    ASSUME IInv, pc \in {"stat", "status"}, NEW s, GiveUp(s),
           \/ ~Living(cursor) /\ s = "NOT_FOUND" /\ missed' = missed
           \/ cursor \in hidden /\ s = "PERMISSION_DENIED" /\ missed' = missed
           \/ s = "INTERNAL" /\ missed' = missed \cup {x \in Alive : x[1] = cursor},
           UNCHANGED <<entry, system, op, arg, cursor, links, entries, rows, owner, hit, ghosts>>
    PROVE  IInv'
<1>1. op \in {"list", "details"} /\ status = "none" /\ cursor \in Int /\ (op = "details" => cursor = arg)
      /\ UNCHANGED <<hidden, during, steady, entries>>
      /\ UNCHANGED <<system, ghosts, op, arg, rows, owner, hit, links>>
  BY DEF IInv, CallInv, Reading, system, ghosts
<1>2. \/ op = "list" /\ pc' = "scan" /\ status' = "none"
      \/ op = "details" /\ pc' = "idle" /\ status' = s
  BY <1>1 DEF GiveUp, Goto, Return
<1>3. CallInv'
  BY <1>1, <1>2 DEF IInv, CallInv, Reading, Statuses
<1>4. EntryInv'
  <2>1. \A e \in entries : e.pid \in Int /\ e.pid < cursor
    BY DEF IInv, EntryInv, Reading
  <2>2. \A e \in entries' : e.pid <= cursor'
    BY <1>1, <2>1
  <2>3. \A e \in entries' : Parts(e)' = Parts(e)
    BY DEF Parts
  <2> QED
    BY <1>1, <1>2, <2>2, <2>3 DEF IInv, EntryInv, Reading
<1>7. missed \subseteq missed' /\ missed' \subseteq Processes
  <2>1. missed \subseteq Processes /\ Alive \subseteq Processes
    BY AliveAre DEF IInv, SignalInv
  <2> QED
    BY <2>1
<1>5. CoverInv'
  <2>1. \A x \in steady : x[1] = cursor => \/ x[1] \in hidden /\ s = "PERMISSION_DENIED"
                                           \/ x \in missed' /\ s = "INTERNAL"
    <3> SUFFICES ASSUME NEW x \in steady, x[1] = cursor
                 PROVE  \/ x[1] \in hidden /\ s = "PERMISSION_DENIED"
                        \/ x \in missed' /\ s = "INTERNAL"
      BY Zenon
    <3>1. Living(cursor)
      BY SteadyAre
    <3>2. x \in {y \in Alive : y[1] = cursor}
      BY DEF IInv, GhostInv
    <3> QED
      BY <3>1, <3>2
  <2>2. \A x \in steady : Told(x) => Told(x)'
    BY <1>1, <1>7 DEF Told, Parts
  <2>3. \A x \in steady : x[1] \in hidden \/ x \in missed' => Told(x)'
    BY <1>1 DEF Told
  <2>4. CASE op = "list"
    <3>1. \A x \in steady : x[1] < cursor => Told(x)
      BY <2>4 DEF IInv, CoverInv, Reading
    <3>2. \A x \in steady : x[1] <= cursor => Told(x)'
      BY <1>1, <2>1, <2>2, <2>3, <3>1, SteadyAre
    <3> QED
      BY <1>1, <1>2, <2>4, <3>2 DEF CoverInv, Reading
  <2>5. CASE op = "details"
    BY <1>1, <1>2, <2>1, <2>5 DEF CoverInv, Reading
  <2> QED
    BY <1>1, <2>4, <2>5
<1>6. WorldInv' /\ GhostInv' /\ TcpInv' /\ SignalInv'
  <2>1. pc # "idle" /\ pc' # "tcp"
    BY <1>2
  <2> QED
    BY <1>1, <1>7, <2>1, ScanFrame
<1> QED
  BY <1>3, <1>4, <1>5, <1>6 DEF IInv

(* A file of a living process adds to its entry; a kernel thread's adds nothing.*)
LEMMA ReadsOnKeeps ==
    ASSUME IInv, pc \in {"stat", "status"}, NEW next \in {"status", "optional"}, Goto(next),
           \/ Living(cursor) /\ entry' = [entry EXCEPT !.parts = @ \cup {life[cursor]}]
           \/ pc = "status" /\ entry' = entry,
           UNCHANGED <<system, op, arg, cursor, links, results, ghosts>>
    PROVE  IInv'
<1>1. op \in {"list", "details"} /\ status = "none" /\ pc' = next /\ status' = status
      /\ UNCHANGED <<hidden, during, steady, entries, missed, op, arg, cursor>>
      /\ UNCHANGED <<system, ghosts, op, arg, rows, owner, hit, links>> /\ missed' \subseteq Processes
  BY DEF IInv, CallInv, SignalInv, Reading, system, ghosts, results, Goto
<1>2. CallInv'
  BY <1>1 DEF IInv, CallInv, Reading
<1>3. entry = [pid |-> cursor, parts |-> entry.parts] /\ \A n \in entry.parts : <<cursor, n>> \in during
  BY DEF IInv, EntryInv, Reading
<1>4. \A x \in steady : x[1] = cursor => x[2] = life[cursor] /\ Living(cursor)
  BY SteadyAre
<1>5. Living(cursor) => <<cursor, life[cursor]>> \in during
  <2>1. WorldInv /\ Alive \subseteq during
    BY <1>1 DEF IInv, GhostInv
  <2> QED
    BY <2>1, AliveAre
<1>6. /\ entry' = [pid |-> cursor, parts |-> entry'.parts]
      /\ \A n \in entry'.parts : <<cursor, n>> \in during
      /\ entry'.parts # {}
      /\ \A x \in steady : x[1] = cursor => x[2] \in entry'.parts
  <2>1. CASE Living(cursor) /\ entry' = [entry EXCEPT !.parts = @ \cup {life[cursor]}]
    <3>1. entry' = [pid |-> cursor, parts |-> entry.parts \cup {life[cursor]}]
      BY <1>3, <2>1
    <3>2. entry'.parts = entry.parts \cup {life[cursor]}
      BY <3>1
    <3>3. \A n \in entry'.parts : <<cursor, n>> \in during
      BY <1>3, <1>5, <2>1, <3>2
    <3> QED
      BY <1>4, <3>1, <3>2, <3>3
  <2>2. CASE pc = "status" /\ entry' = entry
    BY <1>3, <2>2 DEF IInv, EntryInv
  <2> QED
    BY <2>1, <2>2
<1>7. EntryInv'
  <2>1. \A e \in entries' : Parts(e)' = Parts(e)
    BY DEF Parts
  <2>2. \A e \in entries' : e.pid < cursor'
    BY <1>1 DEF IInv, EntryInv, Reading
  <2>3. op' = "details" => entries' = {}
    BY <1>1 DEF IInv, EntryInv, Reading
  <2>4. \A e \in entries' : /\ e = [pid |-> e.pid, parts |-> e.parts] /\ e.pid \in Int
                            /\ e.parts # {} /\ Parts(e) \subseteq during
                            /\ \A f \in entries' : e.pid = f.pid => e = f
    BY <1>1 DEF IInv, EntryInv
  <2> QED
    BY <1>1, <1>6, <2>1, <2>2, <2>3, <2>4 DEF EntryInv, Reading
<1>8. CoverInv'
  <2>1. \A x \in steady : Told(x) => Told(x)'
    BY <1>1 DEF Told, Parts
  <2>2. op = "list" => \A x \in steady : x[1] < cursor => Told(x)
    BY DEF IInv, CoverInv, Reading
  <2> QED
    BY <1>1, <2>1, <2>2 DEF CoverInv, Reading
<1>9. WorldInv' /\ GhostInv' /\ TcpInv' /\ SignalInv'
  <2>1. pc # "idle"
    OBVIOUS
  <2> QED
    BY <1>1, <2>1, ScanFrame
<1> QED
  BY <1>2, <1>7, <1>8, <1>9 DEF IInv

LEMMA NeedFileKeeps == ASSUME IInv, ReadStat \/ ReadStatus PROVE IInv'
<1> USE DEF results, system, ghosts
<1>1. PICK which \in {"stat", "status"}, next \in {"status", "optional"} : NeedFile(which, next)
  BY DEF ReadStat, ReadStatus
<1>2. pc = which /\ UNCHANGED <<system, op, arg, cursor, links, entries, rows, owner, hit, ghosts>>
  BY <1>1 DEF NeedFile
<1>3. CASE Living(cursor) /\ Goto(next) /\ entry' = [entry EXCEPT !.parts = @ \cup {life[cursor]}]
           /\ UNCHANGED missed
  BY <1>2, <1>3, ReadsOnKeeps
<1>4. CASE ~Living(cursor) /\ GiveUp("NOT_FOUND") /\ UNCHANGED <<entry, missed>>
  BY <1>2, <1>4, GiveUpKeeps
<1>5. CASE which = "status" /\ Goto(next) /\ UNCHANGED <<entry, missed>>
  BY <1>2, <1>5, ReadsOnKeeps
<1>6. CASE cursor \in hidden /\ GiveUp("PERMISSION_DENIED") /\ UNCHANGED <<entry, missed>>
  BY <1>2, <1>6, GiveUpKeeps
<1>7. CASE GiveUp("INTERNAL") /\ UNCHANGED entry /\ missed' = missed \cup {x \in Alive : x[1] = cursor}
  BY <1>2, <1>7, GiveUpKeeps
<1> QED
  BY <1>1, <1>3, <1>4, <1>5, <1>6, <1>7 DEF NeedFile

LEMMA ReadOptionalKeeps == ASSUME IInv, ReadOptional PROVE IInv'
<1>1. pc = "optional" /\ op \in {"list", "details"} /\ status = "none"
      /\ UNCHANGED <<hidden, during, steady, missed, op, arg, cursor>>
      /\ UNCHANGED <<system, ghosts, op, arg, rows, owner, hit, links>> /\ missed' \subseteq Processes
  BY DEF ReadOptional, IInv, CallInv, SignalInv, Reading, system, ghosts
<1>2. \/ op = "list" /\ pc' = "scan" /\ status' = "none"
      \/ op = "details" /\ pc' = "idle" /\ status' = "OK"
  BY <1>1 DEF ReadOptional, Goto, Return
<1>3. CallInv'
  BY <1>1, <1>2 DEF IInv, CallInv, Reading, Statuses
<1>4. /\ entry = [pid |-> cursor, parts |-> entry.parts] /\ \A n \in entry.parts : <<cursor, n>> \in during
      /\ entry.parts # {} /\ \A x \in steady : x[1] = cursor => x[2] \in entry.parts
      /\ \A e \in entries : e.pid < cursor
      /\ op = "details" => entries = {}
  BY <1>1 DEF IInv, EntryInv, Reading
<1>5. PICK more \in {{}} \cup IF Living(cursor) THEN {{life[cursor]}} ELSE {} :
          entries' = entries \cup {[entry EXCEPT !.parts = @ \cup more]}
  BY DEF ReadOptional
<1>6. Living(cursor) => <<cursor, life[cursor]>> \in during
  <2>1. WorldInv /\ Alive \subseteq during
    BY <1>1 DEF IInv, GhostInv
  <2> QED
    BY <2>1, AliveAre
<1> DEFINE new == [pid |-> cursor, parts |-> entry.parts \cup more]
<1>7. entries' = entries \cup {new}
  BY <1>4, <1>5
<1>8. \A n \in new.parts : <<cursor, n>> \in during
  BY <1>4, <1>5, <1>6
<1>9. new.parts # {} /\ new.pid = cursor /\ \A x \in steady : x[1] = cursor => x[2] \in new.parts
  BY <1>4
<1>10. Parts(new) \subseteq during
  BY <1>8 DEF Parts
<1>11. new = [pid |-> new.pid, parts |-> new.parts]
  OBVIOUS
<1>12. \A e \in entries : /\ e = [pid |-> e.pid, parts |-> e.parts] /\ e.pid \in Int
                          /\ e.parts # {} /\ Parts(e) \subseteq during
                          /\ \A f \in entries : e.pid = f.pid => e = f
  BY DEF IInv, EntryInv
<1>13. cursor \in Int
  BY DEF IInv, CallInv
<1>14. \A e : Parts(e)' = Parts(e)
  BY DEF Parts
<1> HIDE DEF new
<1>15. EntryInv'
  <2>1. \A e \in entries' : e.pid <= cursor'
    BY <1>1, <1>4, <1>7, <1>9, <1>12, <1>13
  <2>2. \A e, f \in entries' : e.pid = f.pid => e = f
    BY <1>4, <1>7, <1>9, <1>12, <1>13
  <2>3. \A e \in entries' : /\ e = [pid |-> e.pid, parts |-> e.parts] /\ e.pid \in Int
                            /\ e.parts # {} /\ Parts(e) \subseteq during
    BY <1>7, <1>9, <1>10, <1>11, <1>12, <1>13
  <2> QED
    BY <1>1, <1>2, <1>14, <2>1, <2>2, <2>3 DEF EntryInv, Reading
<1>16. CoverInv'
  <2>1. \A x \in steady : Told(x) => Told(x)'
    BY <1>1, <1>7 DEF Told, Parts
  <2>2. ASSUME NEW x \in steady, x[1] = cursor PROVE Told(x)'
    <3>1. x = <<x[1], x[2]>> /\ x[2] \in new.parts
      BY <1>9, <2>2, SteadyAre
    <3>2. x \in Parts(new)
      BY <1>9, <2>2, <3>1 DEF Parts
    <3> QED
      BY <1>7, <3>2 DEF Told, Parts
  <2>3. op = "list" => \A x \in steady : x[1] < cursor => Told(x)
    BY <1>1 DEF IInv, CoverInv, Reading
  <2>4. op = "list" => \A x \in steady : x[1] <= cursor => Told(x)'
    BY <1>13, <2>1, <2>2, <2>3, SteadyAre
  <2> QED
    BY <1>1, <1>2, <2>4 DEF CoverInv, Reading
<1>17. WorldInv' /\ GhostInv' /\ TcpInv' /\ SignalInv'
  BY <1>1, <1>2, ScanFrame
<1> QED
  BY <1>3, <1>15, <1>16, <1>17 DEF IInv

-----------------------------------------------------------------------------
(* A call begins: all that the Agent knows is forgotten.                     *)
LEMMA CallKeeps ==
    ASSUME IInv, ListProcesses \/ GetProcessDetails \/ ListTcpConnections \/ ControlProcess
    PROVE  IInv'
<1>1. PICK o \in {"list", "details", "tcp", "control"}, p \in Int, first \in {"scan", "check", "tcp", "control"} :
          /\ Call(o, p, first)
          /\ o = "list" => first = "scan" /\ p = 0
          /\ o = "details" => first = "check"
          /\ o = "tcp" => first = "tcp"
          /\ o = "control" => first = "control"
  BY TableAssumption DEF ListProcesses, GetProcessDetails, ListTcpConnections, ControlProcess
<1>2. /\ pc' = first /\ op' = o /\ arg' = p /\ status' = "none" /\ cursor' = 0 /\ links' = {}
      /\ entries' = {} /\ rows' = {} /\ owner' = NoOwner /\ hit' = {} /\ missed' = {}
      /\ during' = Alive /\ steady' = Alive /\ held' = HeldNow
      /\ UNCHANGED <<life, last, hidden, holders>>
  BY <1>1 DEF Call, system
<1>3. Alive' = Alive /\ HeldNow' = HeldNow
  BY <1>2 DEF Alive, HeldNow
<1>4. WorldInv
  BY DEF IInv
<1>5. WorldInv'
  BY <1>2, <1>3, <1>4 DEF WorldInv
<1>6. GhostInv'
  BY <1>2, <1>3, <1>4, AliveAre DEF GhostInv, Processes
<1>7. CallInv'
  BY <1>1, <1>2 DEF CallInv, Reading, Statuses
<1>8. EntryInv'
  BY <1>2 DEF EntryInv, Reading
<1>9. CoverInv'
  <2>1. \A x \in steady' : ~(x[1] <= 0)
    <3> SUFFICES ASSUME NEW x \in Alive PROVE ~(x[1] <= 0)
      BY <1>2
    <3>1. PICK q \in PidsOf : x = <<q, life[q]>>
      BY <1>4, AliveAre
    <3>2. q \in Nat /\ q > 1
      BY PidsArePositive
    <3> QED
      BY <3>1, <3>2
  <2> QED
    BY <1>2, <2>1 DEF CoverInv, Reading
<1>10. TcpInv'
  BY <1>2 DEF TcpInv, NoOwner
<1>11. SignalInv'
  BY <1>2 DEF SignalInv, OnlyTheNamedProcess
<1> QED
  BY <1>5, <1>6, <1>7, <1>8, <1>9, <1>10, <1>11 DEF IInv

(* The connections: there are no entries, and no signal.                      *)
LEMMA TcpFrame ==
    ASSUME IInv, pc \in {"tcp", "pids"}, UNCHANGED <<system, op, arg, entry, entries, hit, missed, ghosts>>,
           \/ pc' = "pids" /\ status' = status
           \/ pc' = "idle" /\ status' \in {"OK", "INTERNAL"},
           cursor' \in Int, TcpInv'
    PROVE  IInv'
<1>1. op = "tcp" /\ entries = {} /\ hit = {} /\ status = "none" /\ op' = "tcp" /\ entries' = {} /\ hit' = {}
  BY DEF IInv, CallInv, EntryInv, SignalInv, Reading
<1>2. CallInv'
  BY <1>1 DEF IInv, CallInv, Reading, Statuses
<1>3. EntryInv'
  BY <1>1 DEF EntryInv, Reading
<1>4. CoverInv'
  BY <1>1 DEF CoverInv, Reading
<1>5. SignalInv'
  BY <1>1 DEF IInv, SignalInv, OnlyTheNamedProcess, Processes
<1> QED
  BY <1>2, <1>3, <1>4, <1>5, HandlerFrame DEF IInv

LEMMA ReadTcpTablesKeeps == ASSUME IInv, ReadTcpTables PROVE IInv'
<1>1. pc = "tcp" /\ cursor' = cursor /\ cursor \in Int
      /\ UNCHANGED <<system, op, arg, entry, entries, hit, missed, ghosts, links, owner>>
  BY DEF ReadTcpTables, IInv, CallInv
<1>2. \/ pc' = "pids" /\ status' = status /\ rows' \subseteq Inodes
      \/ pc' = "idle" /\ status' = "INTERNAL" /\ rows' = rows
  BY DEF ReadTcpTables, Goto, Return, Open
<1>3. TcpInv'
  BY <1>1, <1>2 DEF IInv, TcpInv, ghosts
<1> QED
  BY <1>1, <1>2, <1>3, TcpFrame

LEMMA NextFdDirectoryKeeps == ASSUME IInv, NextFdDirectory PROVE IInv'
<1>1. pc = "pids" /\ cursor' = Min(Ahead) /\ Ahead # {}
      /\ UNCHANGED <<system, pc, op, arg, status, entry, results, ghosts>>
  BY DEF NextFdDirectory
<1>2. cursor' \in Int
  BY <1>1, LeastAhead
<1>3. links' \subseteq Inodes
  BY DEF NextFdDirectory
<1>4. TcpInv'
  BY <1>1, <1>3 DEF IInv, TcpInv, ghosts, results
<1> QED
  BY <1>1, <1>2, <1>4, TcpFrame DEF results

LEMMA ReadLinksKeeps == ASSUME IInv, ReadLinks PROVE IInv'
<1>1. pc = "pids" /\ cursor' = cursor /\ cursor \in Int
      /\ UNCHANGED <<system, pc, op, arg, status, entry, entries, rows, hit, missed, ghosts>>
  BY DEF ReadLinks, IInv, CallInv
<1>2. PICK i \in links : links' = links \ {i} /\ ReadLink(i)
  BY DEF ReadLinks
<1>3. i \in Inodes /\ owner \in [Inodes -> Nat]
  BY DEF IInv, TcpInv
<1>4. \/ owner' = owner
      \/ /\ owner' = [owner EXCEPT ![i] = cursor] /\ cursor \in Nat
         /\ \E x \in during : x[1] = cursor /\ <<i, x>> \in held
  <2> SUFFICES ASSUME owner' # owner
               PROVE  /\ owner' = [owner EXCEPT ![i] = cursor] /\ cursor \in Nat
                      /\ \E x \in during : x[1] = cursor /\ <<i, x>> \in held
    OBVIOUS
  <2>1. Living(cursor) /\ <<cursor, life[cursor]>> \in holders[i] /\ owner' = [owner EXCEPT ![i] = cursor]
    BY <1>2 DEF ReadLink, Emplaced
  <2>2. WorldInv /\ Alive \subseteq during /\ HeldNow \subseteq held
    BY <1>1 DEF IInv, GhostInv, CallInv
  <2>3. cursor \in PidsOf /\ <<cursor, life[cursor]>> \in Alive
    BY <2>1, <2>2, AliveAre
  <2>4. cursor \in Nat
    BY <2>3, PidsArePositive
  <2>5. <<i, <<cursor, life[cursor]>>>> \in HeldNow
    BY <1>3, <2>1, <2>3 DEF HeldNow
  <2> QED
    BY <2>1, <2>2, <2>3, <2>4, <2>5
<1>5. TcpInv'
  <2>1. rows' \subseteq Inodes /\ links' \subseteq Inodes /\ owner' \in [Inodes -> Nat]
    BY <1>1, <1>2, <1>3, <1>4 DEF IInv, TcpInv
  <2>2. \A j \in Inodes : owner'[j] # 0 => \E x \in during : x[1] = owner'[j] /\ <<j, x>> \in held
    BY <1>3, <1>4 DEF IInv, TcpInv
  <2> QED
    BY <1>1, <2>1, <2>2 DEF TcpInv, ghosts
<1> QED
  BY <1>1, <1>5, TcpFrame

LEMMA MapRowsKeeps == ASSUME IInv, MapRows PROVE IInv'
<1>1. pc = "pids" /\ cursor' = cursor /\ cursor \in Int /\ pc' = "idle" /\ status' = "OK"
      /\ UNCHANGED <<system, op, arg, entry, links, entries, rows, hit, missed, ghosts>>
  BY DEF MapRows, IInv, CallInv, Return
<1>2. owner' = [i \in Inodes |-> IF i \in rows THEN owner[i] ELSE 0]
  BY DEF MapRows
<1>3. TcpInv'
  <2>1. owner' \in [Inodes -> Nat]
    BY <1>2 DEF IInv, TcpInv
  <2>2. \A i \in Inodes : owner'[i] # 0 => i \in rows /\ owner'[i] = owner[i]
    BY <1>2
  <2> QED
    BY <1>1, <2>1, <2>2 DEF IInv, TcpInv, ghosts
<1> QED
  BY <1>1, <1>3, TcpFrame

-----------------------------------------------------------------------------
(* A signal: there are no entries, nothing is being read.                     *)
LEMMA ControlFrame ==
    ASSUME IInv, pc = "control", pc' = "idle", status' \in Statuses \ {"none"},
           UNCHANGED <<last, hidden, op, arg, cursor, entry, links, entries, rows, owner, missed, during, held>>,
           WorldInv', GhostInv', SignalInv'
    PROVE  IInv'
<1>1. op = "control" /\ entries = {} /\ arg \in Int /\ cursor \in Int
  BY DEF IInv, CallInv, EntryInv, Reading
<1>2. CallInv'
  BY <1>1 DEF CallInv, Reading, Statuses
<1>3. EntryInv'
  BY <1>1 DEF EntryInv, Reading
<1>4. CoverInv'
  BY <1>1 DEF CoverInv, Reading
<1>5. TcpInv'
  BY <1>1 DEF IInv, TcpInv
<1> QED
  BY <1>2, <1>3, <1>4, <1>5 DEF IInv

LEMMA NoSignalKeeps == ASSUME IInv, Reject \/ SignalFails PROVE IInv'
<1>1. pc = "control" /\ pc' = "idle" /\ status' \in Statuses \ {"none"} /\ status' # "OK" /\ hit = {}
      /\ UNCHANGED <<system, op, arg, cursor, entry, links, results, ghosts>>
  BY DEF Reject, SignalFails, Return, Statuses, IInv, SignalInv
<1>2. SignalInv'
  BY <1>1, FS_EmptySet DEF IInv, SignalInv, OnlyTheNamedProcess, Processes, results
<1> QED
  BY <1>1, <1>2, HandlerFrame, ControlFrame DEF results, system, ghosts

LEMMA SignalKeeps == ASSUME IInv, Signal PROVE IInv'
<1>1. /\ pc = "control" /\ Controllable(arg) /\ Targets(arg) # {} /\ hit' = Targets(arg)
      /\ pc' = "idle" /\ status' = "OK" /\ op = "control" /\ arg \in Int
      /\ UNCHANGED <<last, hidden, op, arg, cursor, entry, links, entries, rows, owner, missed, during, held>>
  BY DEF Signal, Return, IInv, CallInv
<1>2. WorldInv /\ Alive \subseteq during /\ during \subseteq Processes
  BY <1>1 DEF IInv, GhostInv
<1>3. arg > 1 /\ arg # Agent
  BY <1>1 DEF Controllable
<1>4. \A x \in Targets(arg) : x \in Alive /\ x[1] = arg
  BY <1>1, <1>3 DEF Targets
<1>5. \A x, y \in Targets(arg) : x = y
  BY <1>2, <1>4, AliveAre
<1>6. PICK x \in Targets(arg) : Targets(arg) = {x}
  BY <1>1, <1>5
<1>7. Cardinality(Targets(arg)) = 1
  BY <1>6, FS_Singleton
<1>8. SignalInv'
  BY <1>1, <1>2, <1>3, <1>4, <1>7 DEF IInv, SignalInv, OnlyTheNamedProcess, Processes
<1>9. WorldInv' /\ GhostInv'
  <2>1. CASE Vanish(Targets(arg))
    BY <1>1, <2>1, VanishKeeps
  <2>2. CASE UNCHANGED <<life, holders, steady>>
    BY <1>1, <2>2, HandlerFrame DEF system, ghosts
  <2> QED
    BY <2>1, <2>2 DEF Signal
<1> QED
  BY <1>1, <1>8, <1>9, ControlFrame DEF Statuses

-----------------------------------------------------------------------------
LEMMA InitHolds == Init => IInv
<1> SUFFICES ASSUME Init PROVE IInv
  OBVIOUS
<1>1. WorldInv
  BY TableAssumption DEF Init, WorldInv, PidsOf
<1>2. GhostInv
  BY DEF Init, GhostInv
<1>3. CallInv
  BY DEF Init, CallInv, Reading, Statuses
<1>4. EntryInv
  BY DEF Init, EntryInv, Reading
<1>5. CoverInv
  BY DEF Init, CoverInv, Reading
<1>6. TcpInv
  BY DEF Init, TcpInv, NoOwner
<1>7. SignalInv
  BY DEF Init, SignalInv, OnlyTheNamedProcess
<1> QED
  BY <1>1, <1>2, <1>3, <1>4, <1>5, <1>6, <1>7 DEF IInv

LEMMA StutterKeeps == IInv /\ UNCHANGED vars => IInv'
<1> SUFFICES ASSUME IInv, UNCHANGED vars PROVE IInv'
  OBVIOUS
<1>1. UNCHANGED <<life, last, hidden, holders, pc, op, arg, status, cursor, entry, entries,
                  rows, links, owner, hit, missed, during, steady, held>>
  BY DEF vars
<1>2. WorldInv' /\ GhostInv'
  BY <1>1, HandlerFrame DEF system, ghosts
<1> QED
  BY <1>1, <1>2, WorldFrame

LEMMA Inductive == IInv /\ [Next]_vars => IInv'
<1> SUFFICES ASSUME IInv, [Next]_vars PROVE IInv'
  OBVIOUS
<1>1. CASE System
  BY <1>1, LeaveKeeps, SpawnKeeps, SocketsKeep DEF System
<1>2. CASE ListProcesses \/ GetProcessDetails \/ ListTcpConnections \/ ControlProcess
  BY <1>2, CallKeeps
<1>3. CASE NextEntry \/ EndOfScan \/ ScanCutShort \/ ScanFails \/ CheckPid
  BY <1>3, NextEntryKeeps, EndOfScanKeeps, CheckPidKeeps
<1>4. CASE ReadStat \/ ReadStatus \/ ReadOptional
  BY <1>4, NeedFileKeeps, ReadOptionalKeeps
<1>5. CASE ReadTcpTables \/ NextFdDirectory \/ ReadLinks \/ MapRows
  BY <1>5, ReadTcpTablesKeeps, NextFdDirectoryKeeps, ReadLinksKeeps, MapRowsKeeps
<1>6. CASE Reject \/ Signal \/ SignalFails
  BY <1>6, NoSignalKeeps, SignalKeeps
<1>7. CASE UNCHANGED vars
  BY <1>7, StutterKeeps
<1> QED
  BY <1>1, <1>2, <1>3, <1>4, <1>5, <1>6, <1>7 DEF Next, Handler

(* The inductive invariant: what is alive or held was so during the call, and *)
(* the entries so far are in the order of /proc and of processes of the call. *)
THEOREM Invariance == Spec => []IInv
BY InitHolds, Inductive, PTL DEF Spec

(* There are finitely many processes, so a call meets finitely many.          *)
LEMMA ProcessesAreFinite == IsFiniteSet(Processes)
<1>1. IsFiniteSet(Pids \cup {Agent})
  BY TableAssumption, FS_AddElement
<1>2. IsFiniteSet(1..(MaxReuse + 1))
  BY TableAssumption, FS_Interval
<1> QED
  BY <1>1, <1>2, FS_Product DEF Processes

LEMMA OfOnePid ==
    ASSUME IInv, NEW e \in entries, Cardinality(HadThePid(e)) = 1
    PROVE  Cardinality(e.parts) = 1
<1>1. IsFiniteSet(HadThePid(e))
  BY ProcessesAreFinite, FS_Subset DEF IInv, GhostInv, HadThePid
<1>2. PICK x : HadThePid(e) = {x}
  BY <1>1, FS_Singleton
<1>3. e.parts # {} /\ Parts(e) \subseteq during
  BY DEF IInv, EntryInv
<1>4. \A n \in e.parts : <<e.pid, n>> = x
  BY <1>2, <1>3 DEF Parts, HadThePid
<1>5. PICK n \in e.parts : e.parts = {n}
  BY <1>3, <1>4
<1> QED
  BY <1>5, FS_Singleton

-----------------------------------------------------------------------------
(* The variables have their types, and an answer has one entry for a process. *)
THEOREM TypeCorrectness == Spec => []TypeOK
<1>1. ASSUME IInv PROVE TypeOK
  <2>1. /\ life \in [Pids \cup {Agent} -> 0..(MaxReuse + 1)] /\ last \in [Pids \cup {Agent} -> Nat]
        /\ hidden \subseteq Pids /\ holders \in [Inodes -> SUBSET Alive]
    BY <1>1 DEF IInv, WorldInv, PidsOf
  <2>2. /\ pc \in {"idle", "scan", "check", "stat", "status", "optional", "tcp", "pids", "control"}
        /\ op \in {"none", "list", "details", "tcp", "control"} /\ status \in Statuses
        /\ pc = "idle" <=> status # "none" \/ op = "none"
    BY <1>1 DEF IInv, CallInv, Reading
  <2>3. \A e \in entries : e.parts # {} /\ \A f \in entries : e.pid = f.pid => e = f
    BY <1>1 DEF IInv, EntryInv
  <2>4. /\ rows \subseteq Inodes /\ links \subseteq Inodes /\ owner \in [Inodes -> Nat]
        /\ hit \subseteq Processes /\ missed \subseteq Processes
        /\ during \subseteq Processes /\ steady \subseteq during
    BY <1>1 DEF IInv, TcpInv, SignalInv, GhostInv
  <2> QED
    BY <2>1, <2>2, <2>3, <2>4 DEF TypeOK
<1> QED
  BY <1>1, Invariance, PTL

(* ListProcesses and GetProcessDetails: every readable process that lived all *)
(* through the call and was not struck by an I/O error is in the answer, what *)
(* is said of a pid is said of processes that had it meanwhile, and of one    *)
(* only unless the pid was reused; and no lasting process is NOT_FOUND.       *)
THEOREM SnapshotsAreTrueAlways == Spec => []SnapshotsAreTrue
<1>1. ASSUME IInv PROVE SnapshotsAreTrue
  <2> SUFFICES ASSUME pc = "idle", op \in {"list", "details"}
               PROVE  /\ \A e \in entries :
                            /\ Parts(e) \subseteq during
                            /\ Cardinality(HadThePid(e)) = 1 => Cardinality(e.parts) = 1
                      /\ op = "list" /\ status # "OK" => cursor = 0
                      /\ op = "list" /\ status = "OK" => \A x \in steady : Told(x)
                      /\ status = "NOT_FOUND" => \A x \in steady : x[1] # arg
                      /\ status = "INTERNAL" => \A x \in steady : x[1] # arg \/ x \in missed
    BY DEF SnapshotsAreTrue, Told
  <2>1. \A e \in entries : /\ Parts(e) \subseteq during
                           /\ Cardinality(HadThePid(e)) = 1 => Cardinality(e.parts) = 1
    BY <1>1, OfOnePid DEF IInv, EntryInv
  <2>2. /\ op = "list" /\ status # "OK" => cursor = 0
        /\ op = "list" /\ status = "OK" => \A x \in steady : Told(x)
    BY <1>1 DEF IInv, CoverInv
  <2>3. op = "list" => \A x \in steady : x[1] # arg
    <3>1. op = "list" => arg = 0
      BY <1>1 DEF IInv, CallInv
    <3> QED
      BY <1>1, <3>1, SteadyAre
  <2>4. op = "details" => /\ status = "NOT_FOUND" => \A x \in steady : x[1] # arg
                          /\ status = "INTERNAL" => \A x \in steady : x[1] # arg \/ x \in missed
    BY <1>1 DEF IInv, CoverInv
  <2> QED
    BY <2>1, <2>2, <2>3, <2>4
<1> QED
  BY <1>1, Invariance, PTL

(* ListTcpConnections: the pid shown with a connection had its socket open at *)
(* some time of the call, however sockets change hands meanwhile.            *)
THEOREM OwnersAreAlwaysReal == Spec => []OwnersAreReal
<1>1. IInv => OwnersAreReal
  BY DEF IInv, TcpInv, OwnersAreReal
<1> QED
  BY <1>1, Invariance, PTL

(* ControlProcess: kill(2) reaches the process with the requested pid, never  *)
(* the Agent, a group or another, and OK means that one process was reached.  *)
THEOREM SignalsReachTheNamed == Spec => []OnlyTheNamedProcess
<1>1. IInv => OnlyTheNamedProcess
  BY DEF IInv, SignalInv
<1> QED
  BY <1>1, Invariance, PTL

-----------------------------------------------------------------------------
(* The texts.  At takes the elements one by one.                             *)
LEMMA AtUnfolds ==
    ASSUME NEW s, NEW K, Len(s) \in Nat
    PROVE  \E f : /\ f[0] = <<>>
                  /\ \A i \in 1..Len(s) : f[i] = IF i \in K THEN Append(f[i - 1], s[i]) ELSE f[i - 1]
                  /\ At(s, K) = f[Len(s)]
<1> DEFINE Step(f, i) == IF i = 0 THEN <<>>
                         ELSE IF i \in K THEN Append(f[i - 1], s[i]) ELSE f[i - 1]
           Runs(n, f) == f = [i \in 0..n |-> Step(f, i)]
           Bad == {n \in Nat : ~\E f : Runs(n, f)}
<1>1. Bad = {}
  <2>1. SUFFICES ASSUME Bad # {} PROVE FALSE
    OBVIOUS
  <2>2. PICK n \in Bad : \A m \in Bad : n <= m
    BY <2>1, LeastExists
  <2>3. CASE n = 0
    <3> DEFINE f == [i \in {0} |-> <<>>]
    <3>1. \A i \in 0..0 : i = 0
      OBVIOUS
    <3>2. f = [i \in 0..0 |-> Step(f, i)]
      BY <3>1
    <3> QED
      BY <2>2, <2>3, <3>2
  <2>4. CASE n # 0
    <3>1. n \in Nat /\ n - 1 \in Nat /\ ~(n <= n - 1)
      BY <2>2, <2>4
    <3>2. PICK f : Runs(n - 1, f)
      BY <2>2, <3>1
    <3> DEFINE g == [i \in 0..n |-> IF i = n THEN Step(f, n) ELSE f[i]]
    <3>3. \A i \in 0..(n - 1) : f[i] = Step(f, i)
      BY <3>2
    <3>4. \A i \in 0..n : i # n => i \in 0..(n - 1)
      BY <3>1
    <3>5. \A i \in 0..n : i # 0 => i - 1 \in 0..n /\ i - 1 # n
      BY <3>1
    <3>6. \A i \in 0..n : i # 0 => g[i - 1] = f[i - 1]
      BY <3>5, Zenon
    <3>7. \A i \in 0..n : Step(g, i) = Step(f, i)
      BY <3>6
    <3>8. \A i \in 0..n : g[i] = Step(f, i)
      BY <3>3, <3>4, Zenon
    <3>9. g = [i \in 0..n |-> Step(g, i)]
      BY <3>7, <3>8, Zenon
    <3> QED
      BY <2>2, <3>9, Zenon
  <2> QED
    BY <2>3, <2>4
<1> DEFINE N == Len(s)
           made == CHOOSE f : Runs(N, f)
<1>2. Runs(N, made)
  BY <1>1, Zenon
<1>3. At(s, K) = made[N]
  BY Zenon DEF At
<1> HIDE DEF made
<1>4. \A i \in 0..N : made[i] = Step(made, i)
  BY <1>2, Zenon
<1>5. 0 \in 0..N /\ \A i \in 1..N : i \in 0..N /\ i # 0
  OBVIOUS
<1>6. made[0] = <<>>
  BY <1>4, <1>5, Zenon
<1>7. \A i \in 1..N : made[i] = IF i \in K THEN Append(made[i - 1], s[i]) ELSE made[i - 1]
  BY <1>4, <1>5, Zenon
<1> QED
  BY <1>3, <1>6, <1>7, Zenon

(* And loses none of them.                                                  *)
LEMMA AtKeepsAll ==
    ASSUME NEW s, NEW K, Len(s) \in Nat, NEW i \in K, i \in 1..Len(s)
    PROVE  \E k \in DOMAIN At(s, K) : At(s, K)[k] = s[i]
<1> DEFINE N == Len(s)
           E == {s[j] : j \in 1..N}
<1>1. PICK f : /\ f[0] = <<>>
               /\ \A j \in 1..N : f[j] = IF j \in K THEN Append(f[j - 1], s[j]) ELSE f[j - 1]
               /\ At(s, K) = f[N]
  BY AtUnfolds
<1> DEFINE Good(j) == /\ f[j] \in Seq(E)
                      /\ j >= i => \E k \in 1..Len(f[j]) : f[j][k] = s[i]
           Bad == {j \in 0..N : ~Good(j)}
<1>2. Bad = {}
  <2>1. SUFFICES ASSUME Bad # {} PROVE FALSE
    OBVIOUS
  <2>2. PICK j \in Bad : \A m \in Bad : j <= m
    <3>1. Bad \subseteq Nat
      OBVIOUS
    <3> QED
      BY <2>1, <3>1, LeastExists, Zenon
  <2>3. j # 0
    <3>1. Good(0)
      BY <1>1
    <3> QED
      BY <3>1, <2>2
  <2>4. j \in 1..N /\ j - 1 \in 0..N /\ ~(j <= j - 1)
    BY <2>2, <2>3
  <2>5. Good(j - 1)
    BY <2>2, <2>4
  <2>6. f[j] = IF j \in K THEN Append(f[j - 1], s[j]) ELSE f[j - 1]
    BY <1>1, <2>4
  <2>7. s[j] \in E
    BY <2>4
  <2>8. f[j - 1] \in Seq(E) /\ (j - 1 >= i => \E k \in 1..Len(f[j - 1]) : f[j - 1][k] = s[i])
    BY <2>5
  <2>9. ASSUME j \in K PROVE Good(j)
    <3> DEFINE t == f[j - 1]
    <3>1. f[j] = Append(t, s[j])
      BY <2>6, <2>9
    <3> HIDE DEF t, E
    <3>2. t \in Seq(E) /\ (j - 1 >= i => \E k \in 1..Len(t) : t[k] = s[i])
      BY <2>8 DEF t
    <3>3. /\ Append(t, s[j]) \in Seq(E) /\ Len(Append(t, s[j])) = Len(t) + 1
          /\ Append(t, s[j])[Len(t) + 1] = s[j]
          /\ \A k \in 1..Len(t) : Append(t, s[j])[k] = t[k]
          /\ Len(t) \in Nat
      BY <3>2, <2>7
    <3>4. CASE i = j
      <4>1. Len(t) + 1 \in 1..Len(Append(t, s[j])) /\ Append(t, s[j])[Len(t) + 1] = s[i]
        BY <3>3, <3>4
      <4> QED
        BY <3>1, <3>3, <4>1, Zenon
    <3>5. CASE i # j
      <4>1. \A k \in 1..Len(t) : k \in 1..Len(Append(t, s[j])) /\ Append(t, s[j])[k] = t[k]
        BY <3>3
      <4>2. j >= i => j - 1 >= i
        BY <2>4, <3>5
      <4>3. j >= i => \E k \in 1..Len(Append(t, s[j])) : Append(t, s[j])[k] = s[i]
        BY <3>2, <4>1, <4>2, Zenon
      <4> QED
        BY <3>1, <3>3, <4>3, Zenon
    <3> QED
      BY <3>4, <3>5
  <2>10. ASSUME j \notin K PROVE Good(j)
    <3>1. f[j] = f[j - 1] /\ j # i
      BY <2>6, <2>10
    <3>2. j >= i => j - 1 >= i
      BY <2>4, <3>1
    <3> QED
      BY <3>1, <3>2, <2>8, Zenon
  <2> QED
    BY <2>2, <2>9, <2>10, Zenon
<1>3. Good(N) /\ At(s, K) = f[N]
  <2>1. N \in 0..N
    OBVIOUS
  <2> QED
    BY <1>1, <1>2, <2>1, Zenon
<1>4. \E k \in 1..Len(At(s, K)) : At(s, K)[k] = s[i]
  BY <1>3
<1>5. At(s, K) \in Seq(E)
  BY <1>3
<1> QED
  BY <1>4, <1>5

LEMMA TokensDiffer ==
    ASSUME NEW n
    PROVE  /\ Number(n) \notin {Char("("), Char(")"), Char(" ")}
           /\ Char("(") # Char(")") /\ Char("(") # Char(" ") /\ Char(")") # Char(" ")
           /\ IsNumber(Number(n)) /\ Number(n)[2] = n
  BY DEF Number, Char, IsNumber

LEMMA Three ==
    ASSUME NEW S, NEW x \in S, NEW y \in S, NEW z \in S
    PROVE  <<x, y, z>> \in Seq(S)
  OBVIOUS

LEMMA Four ==
    ASSUME NEW S, NEW x \in S, NEW y \in S, NEW z \in S, NEW u \in S
    PROVE  <<x, y, z, u>> \in Seq(S)
  OBVIOUS

LEMMA Joined ==
    ASSUME NEW S, NEW s \in Seq(S), NEW t \in Seq(S)
    PROVE  /\ s \o t \in Seq(S) /\ Len(s \o t) = Len(s) + Len(t)
           /\ \A i \in 1..Len(s) : (s \o t)[i] = s[i]
           /\ \A i \in 1..Len(t) : (s \o t)[Len(s) + i] = t[i]
           /\ Len(s) \in Nat /\ Len(t) \in Nat
  OBVIOUS

(* What stands where in a line of stat, whatever the name is.                 *)
LEMMA StatLineShape ==
    ASSUME NEW p, IsProcess(p)
    PROVE  LET line == StatLine(p)
               n    == Len(p.name)
           IN /\ n \in Nat /\ Len(line) = n + 26
              /\ line[1] = Number(p.pid) /\ line[2] = Char(" ") /\ line[3] = Char("(")
              /\ \A i \in 1..n : line[3 + i] = p.name[i]
              /\ line[n + 4] = Char(")") /\ line[n + 5] = Char(" ")
              /\ line[n + 6] = p.state /\ line[n + 7] = Char(" ")
              /\ \A k \in 1..19 : line[n + 7 + k] = Number(p.fields[k])
              /\ \E S : line \in Seq(S)
<1> DEFINE n == Len(p.name)
           a == <<Number(p.pid), Char(" "), Char("(")>>
           b == <<Char(")"), Char(" "), p.state, Char(" ")>>
           c == [k \in 1..19 |-> Number(p.fields[k])]
           S == Tokens \cup {a[i] : i \in 1..3} \cup {b[i] : i \in 1..4} \cup {c[k] : k \in 1..19}
<1>1. a \in Seq(S) /\ b \in Seq(S) /\ p.name \in Seq(S)
  <2>1. a[1] \in S /\ a[2] \in S /\ a[3] \in S
        /\ b[1] \in S /\ b[2] \in S /\ b[3] \in S /\ b[4] \in S
    <3>1. 1 \in 1..3 /\ 2 \in 1..3 /\ 3 \in 1..3
          /\ 1 \in 1..4 /\ 2 \in 1..4 /\ 3 \in 1..4 /\ 4 \in 1..4
      OBVIOUS
    <3> HIDE DEF a, b, c
    <3> QED
      BY <3>1
  <2>2. /\ a[1] = Number(p.pid) /\ a[2] = Char(" ") /\ a[3] = Char("(")
        /\ b[1] = Char(")") /\ b[2] = Char(" ") /\ b[3] = p.state /\ b[4] = Char(" ")
    OBVIOUS
  <2>4. Number(p.pid) \in S /\ Char(" ") \in S /\ Char("(") \in S /\ Char(")") \in S /\ p.state \in S
    <3> HIDE DEF a, b, S
    <3> QED
      BY <2>1, <2>2
  <2>3. p.name \in Seq(S)
    <3>1. p.name \in Seq(Tokens) /\ Tokens \subseteq S
      BY DEF IsProcess
    <3> HIDE DEF S
    <3> QED
      BY <3>1
  <2> HIDE DEF S
  <2> QED
    BY <2>3, <2>4, Three, Four
<1>2. c \in Seq(S) /\ Len(c) = 19
  <2>1. \A k \in 1..19 : c[k] \in S
    <3> HIDE DEF a, b, c
    <3> QED
      OBVIOUS
  <2> HIDE DEF S
  <2>2. c \in [1..19 -> S]
    BY <2>1
  <2> QED
    BY <2>2
<1>3. Len(a) = 3 /\ a[1] = Number(p.pid) /\ a[2] = Char(" ") /\ a[3] = Char("(")
      /\ Len(b) = 4 /\ b[1] = Char(")") /\ b[2] = Char(" ") /\ b[3] = p.state /\ b[4] = Char(" ")
      /\ \A k \in 1..19 : c[k] = Number(p.fields[k])
  OBVIOUS
<1>4. StatLine(p) = ((a \o p.name) \o b) \o c
  <2> HIDE DEF S
  <2> SUFFICES a \o p.name \o b \o c = ((a \o p.name) \o b) \o c
    BY Zenon DEF StatLine
  <2> HIDE DEF a, b, c
  <2> QED
    BY <1>1, <1>2
<1> DEFINE d == a \o p.name
           e == d \o b
           line == e \o c
<1> HIDE DEF a, b, c, S
<1>5. d \in Seq(S) /\ Len(d) = n + 3 /\ n \in Nat
      /\ d[1] = a[1] /\ d[2] = a[2] /\ d[3] = a[3] /\ \A i \in 1..n : d[3 + i] = p.name[i]
  <2>1. /\ d \in Seq(S) /\ Len(d) = Len(a) + n /\ n \in Nat
        /\ \A i \in 1..Len(a) : d[i] = a[i]
        /\ \A i \in 1..n : d[Len(a) + i] = p.name[i]
    <3> HIDE DEF n
    <3>1. d \in Seq(S) /\ Len(d) = Len(a) + Len(p.name)
          /\ (\A i \in 1..Len(a) : d[i] = a[i])
          /\ (\A i \in 1..Len(p.name) : d[Len(a) + i] = p.name[i])
          /\ Len(p.name) \in Nat
      BY <1>1, Joined
    <3> QED
      BY <3>1, Zenon DEF n
  <2>2. 1 \in 1..3 /\ 2 \in 1..3 /\ 3 \in 1..3 /\ Len(a) = 3
    <3>1. Len(a) = 3
      BY <1>3, Zenon
    <3>2. 1 \in 1..3 /\ 2 \in 1..3 /\ 3 \in 1..3
      OBVIOUS
    <3> QED
      BY <3>1, <3>2, Zenon
  <2>3. Len(a) + n = n + 3
    BY <2>1, <2>2
  <2> HIDE DEF d, n
  <2> QED
    BY <2>1, <2>2, <2>3, Zenon
<1> HIDE DEF d, n
<1>6. e \in Seq(S) /\ Len(e) = n + 7
      /\ (\A i \in 1..(n + 3) : e[i] = d[i])
      /\ e[n + 4] = b[1] /\ e[n + 5] = b[2] /\ e[n + 6] = b[3] /\ e[n + 7] = b[4]
  <2>1. /\ e \in Seq(S) /\ Len(e) = Len(d) + Len(b)
        /\ \A i \in 1..Len(d) : e[i] = d[i]
        /\ \A i \in 1..Len(b) : e[Len(d) + i] = b[i]
    <3>1. d \in Seq(S) /\ b \in Seq(S)
      BY <1>1, <1>5, Zenon
    <3> QED
      BY <3>1, Joined
  <2>2. Len(d) = n + 3 /\ Len(b) = 4 /\ n \in Nat
    BY <1>3, <1>5
  <2>3. 1 \in 1..4 /\ 2 \in 1..4 /\ 3 \in 1..4 /\ 4 \in 1..4
        /\ (n + 3) + 1 = n + 4 /\ (n + 3) + 2 = n + 5 /\ (n + 3) + 3 = n + 6 /\ (n + 3) + 4 = n + 7
    BY <2>2
  <2> HIDE DEF e
  <2>4. e[(n + 3) + 1] = b[1] /\ e[(n + 3) + 2] = b[2] /\ e[(n + 3) + 3] = b[3] /\ e[(n + 3) + 4] = b[4]
    BY <2>1, <2>2, <2>3, Zenon
  <2> QED
    BY <2>1, <2>2, <2>3, <2>4
<1> HIDE DEF e
<1>7. line \in Seq(S) /\ Len(line) = n + 26
      /\ (\A i \in 1..(n + 7) : line[i] = e[i])
      /\ \A k \in 1..19 : line[n + 7 + k] = c[k]
  <2>1. /\ line \in Seq(S) /\ Len(line) = Len(e) + Len(c)
        /\ \A i \in 1..Len(e) : line[i] = e[i]
        /\ \A k \in 1..Len(c) : line[Len(e) + k] = c[k]
    <3>1. e \in Seq(S) /\ c \in Seq(S)
      BY <1>2, <1>6, Zenon
    <3> QED
      BY <3>1, Joined
  <2>2. Len(e) = n + 7 /\ Len(c) = 19 /\ (n + 7) + 19 = n + 26
    BY <1>2, <1>5, <1>6
  <2> HIDE DEF line
  <2> QED
    BY <2>1, <2>2, Zenon
<1> HIDE DEF line
<1>8. line = StatLine(p)
  BY <1>4 DEF line, e, d
<1>9. /\ \A i \in 1..n : 3 + i \in 1..(n + 3) /\ 3 + i \in 1..(n + 7)
      /\ 1 \in 1..(n + 3) /\ 2 \in 1..(n + 3) /\ 3 \in 1..(n + 3)
      /\ 1 \in 1..(n + 7) /\ 2 \in 1..(n + 7) /\ 3 \in 1..(n + 7)
      /\ n + 4 \in 1..(n + 7) /\ n + 5 \in 1..(n + 7) /\ n + 6 \in 1..(n + 7) /\ n + 7 \in 1..(n + 7)
  BY <1>5
<1>10. /\ line[1] = a[1] /\ line[2] = a[2] /\ line[3] = a[3]
       /\ \A i \in 1..n : line[3 + i] = p.name[i]
       /\ line[n + 4] = b[1] /\ line[n + 5] = b[2] /\ line[n + 6] = b[3] /\ line[n + 7] = b[4]
  <2>1. /\ line[1] = e[1] /\ line[2] = e[2] /\ line[3] = e[3]
        /\ e[1] = d[1] /\ e[2] = d[2] /\ e[3] = d[3]
    BY <1>6, <1>7, <1>9
  <2>2. ASSUME NEW i \in 1..n PROVE line[3 + i] = p.name[i]
    <3>1. line[3 + i] = e[3 + i] /\ e[3 + i] = d[3 + i]
      BY <1>6, <1>7, <1>9, Zenon
    <3> QED
      BY <1>5, <3>1
  <2>3. /\ line[n + 4] = e[n + 4] /\ line[n + 5] = e[n + 5]
        /\ line[n + 6] = e[n + 6] /\ line[n + 7] = e[n + 7]
    BY <1>7, <1>9, Zenon
  <2> QED
    BY <2>1, <2>2, <2>3, <1>5, <1>6, Zenon
<1> QED
  BY <1>3, <1>5, <1>7, <1>8, <1>10, Zenon DEF n

(* The first "(" is the one that opens the name and the last ")" the one that *)
(* ends it.                                                                *)
LEMMA NameIsFound ==
    ASSUME NEW p, IsProcess(p)
    PROVE  /\ Places(StatLine(p), "(") # {} /\ Places(StatLine(p), ")") # {}
           /\ Opens(StatLine(p)) = 3 /\ Closes(StatLine(p)) = Len(p.name) + 4
<1> DEFINE line == StatLine(p)
           n == Len(p.name)
<1>1. /\ n \in Nat /\ Len(line) = n + 26
      /\ line[1] = Number(p.pid) /\ line[2] = Char(" ") /\ line[3] = Char("(")
      /\ line[n + 4] = Char(")") /\ line[n + 5] = Char(" ")
      /\ line[n + 6] = p.state /\ line[n + 7] = Char(" ")
      /\ \A k \in 1..19 : line[n + 7 + k] = Number(p.fields[k])
  BY StatLineShape, Zenon
<1> HIDE DEF line, n
<1>6. n \in Nat /\ Places(line, "(") \subseteq 1..(n + 26) /\ Places(line, ")") \subseteq 1..(n + 26)
      /\ 3 \in 1..(n + 26) /\ n + 4 \in 1..(n + 26)
  <2>1. n \in Nat /\ Len(line) = n + 26
    BY <1>1
  <2> QED
    BY <2>1 DEF Places
<1>2. 3 \in Places(line, "(") /\ \A i \in Places(line, "(") : i >= 3
  <2>1. 1 \notin Places(line, "(") /\ 2 \notin Places(line, "(")
    BY <1>1, TokensDiffer, Zenon DEF Places
  <2>2. \A i \in 1..(n + 26) : i = 1 \/ i = 2 \/ i >= 3
    BY <1>6
  <2>3. 3 \in Places(line, "(")
    BY <1>1, <1>6, Zenon DEF Places
  <2> QED
    BY <1>6, <2>1, <2>2, <2>3, Zenon
<1>3. n + 4 \in Places(line, ")") /\ \A i \in Places(line, ")") : i <= n + 4
  <2>1. \A k \in 1..19 : n + 7 + k \notin Places(line, ")")
    BY <1>1, TokensDiffer, Zenon DEF Places
  <2>2. n + 5 \notin Places(line, ")") /\ n + 6 \notin Places(line, ")") /\ n + 7 \notin Places(line, ")")
    BY <1>1, TokensDiffer, Zenon DEF Places, IsProcess
  <2>3. \A i \in 1..(n + 26) : i <= n + 4 \/ i = n + 5 \/ i = n + 6 \/ i = n + 7
                               \/ \E k \in 1..19 : i = n + 7 + k
    <3> SUFFICES ASSUME NEW i \in 1..(n + 26), i > n + 7
                 PROVE  \E k \in 1..19 : i = n + 7 + k
      BY <1>6
    <3>1. i - (n + 7) \in 1..19 /\ i = n + 7 + (i - (n + 7))
      BY <1>6
    <3> QED
      BY <3>1
  <2>4. Places(line, ")") \subseteq 1..(n + 26)
    BY <1>6
  <2>5. n + 4 \in Places(line, ")")
    BY <1>1, <1>6, Zenon DEF Places
  <2> QED
    BY <2>1, <2>2, <2>3, <2>4, <2>5, Zenon
<1>4. Opens(line) = 3
  <2>1. \A i \in Places(line, "(") : (\A j \in Places(line, "(") : i <= j) <=> i = 3
    <3>1. Places(line, "(") \subseteq Nat
      BY DEF Places
    <3> QED
      BY <1>2, <3>1
  <2> QED
    BY <1>2, <2>1, Zenon DEF Opens
<1>5. Closes(line) = n + 4
  <2>1. \A i \in Places(line, ")") : (\A j \in Places(line, ")") : j <= i) <=> i = n + 4
    <3>1. Places(line, ")") \subseteq Nat
      BY DEF Places
    <3> QED
      BY <1>6, <1>3, <3>1
  <2> QED
    BY <1>3, <2>1, Zenon DEF Closes
<1> QED
  BY <1>2, <1>3, <1>4, <1>5, Zenon DEF line, n

LEMMA Between ==
    ASSUME NEW S, NEW s \in Seq(S), NEW m \in 1..Len(s), NEW n \in (m - 1)..Len(s)
    PROVE  /\ SubSeq(s, m, n) \in Seq(S) /\ Len(SubSeq(s, m, n)) = n - m + 1
           /\ \A i \in 1..(n - m + 1) : SubSeq(s, m, n)[i] = s[m - 1 + i]
  OBVIOUS

LEMMA Elements ==
    ASSUME NEW S, NEW s \in Seq(S)
    PROVE  \A i \in 1..Len(s) : s[i] \in S
  OBVIOUS

LEMMA SameElements ==
    ASSUME NEW S, NEW s \in Seq(S), NEW T, NEW t \in Seq(T), Len(s) = Len(t),
           \A i \in 1..Len(s) : s[i] = t[i]
    PROVE  s = t
  OBVIOUS

(* The words after the name are the state and the numbers, in their order.    *)
LEMMA WordsAreFields ==
    ASSUME NEW p, IsProcess(p)
    PROVE  LET words == Words(StatLine(p))
           IN /\ Len(words) = 20 /\ words[1] = p.state
              /\ \A k \in 1..19 : words[k + 1] = Number(p.fields[k])
<1> DEFINE line == StatLine(p)
           n == Len(p.name)
           rest == SubSeq(line, n + 5, n + 26)
           K == {i \in 1..Len(rest) : ~IsSpace(rest[i])}
<1>1. /\ n \in Nat /\ Len(line) = n + 26 /\ \E S : line \in Seq(S)
      /\ line[n + 5] = Char(" ") /\ line[n + 6] = p.state /\ line[n + 7] = Char(" ")
      /\ \A k \in 1..19 : line[n + 7 + k] = Number(p.fields[k])
  BY StatLineShape, Zenon
<1>2. Words(line) = At(rest, K)
  <2>1. Closes(line) = n + 4 /\ Len(line) = n + 26
    BY NameIsFound, <1>1, Zenon
  <2>2. (n + 4) + 1 = n + 5
    <3>1. n \in Nat
      BY <1>1, Zenon
    <3> HIDE DEF n
    <3> QED
      BY <3>1
  <2> QED
    BY <2>1, <2>2, Zenon DEF Words
<1> HIDE DEF line, n
<1>3. PICK S : line \in Seq(S)
  BY <1>1
<1>4. rest \in Seq(S) /\ Len(rest) = 22 /\ \A i \in 1..22 : rest[i] = line[n + 4 + i]
  <2>1. n \in Nat /\ Len(line) = n + 26
    BY <1>1
  <2>2. n + 5 \in 1..Len(line) /\ n + 26 \in (n + 5 - 1)..Len(line)
        /\ (n + 26) - (n + 5) + 1 = 22 /\ (n + 5) - 1 = n + 4
    BY <2>1
  <2>3. /\ rest \in Seq(S) /\ Len(rest) = (n + 26) - (n + 5) + 1
        /\ \A i \in 1..((n + 26) - (n + 5) + 1) : rest[i] = line[((n + 5) - 1) + i]
    BY <1>3, <2>2, Between
  <2> HIDE DEF rest
  <2> QED
    BY <2>2, <2>3
<1> HIDE DEF rest
<1>5. /\ rest[1] = Char(" ") /\ rest[2] = p.state /\ rest[3] = Char(" ")
      /\ \A k \in 1..19 : rest[3 + k] = Number(p.fields[k])
  <2>1. n \in Nat /\ 1 \in 1..22 /\ 2 \in 1..22 /\ 3 \in 1..22
        /\ n + 4 + 1 = n + 5 /\ n + 4 + 2 = n + 6 /\ n + 4 + 3 = n + 7
    <3>1. n \in Nat
      BY <1>1
    <3> QED
      BY <3>1
  <2>2. \A k \in 1..19 : 3 + k \in 1..22 /\ n + 4 + (3 + k) = n + 7 + k
    BY <2>1
  <2>3. rest[1] = line[n + 5] /\ rest[2] = line[n + 6] /\ rest[3] = line[n + 7]
    BY <1>4, <2>1, Zenon
  <2>4. \A k \in 1..19 : rest[3 + k] = line[n + 7 + k]
    BY <1>4, <2>2, Zenon
  <2> QED
    BY <1>1, <2>3, <2>4, Zenon
<1>6. 1 \notin K /\ 2 \in K /\ 3 \notin K /\ \A k \in 1..19 : 3 + k \in K
  <2>1. 2 \in 1..22 /\ \A k \in 1..19 : 3 + k \in 1..22
    OBVIOUS
  <2>2. ~IsSpace(p.state)
    BY Zenon DEF IsProcess, IsSpace
  <2>3. \A k \in 1..19 : ~IsSpace(Number(p.fields[k]))
    BY TokensDiffer, Zenon DEF IsSpace
  <2>4. IsSpace(Char(" "))
    BY DEF IsSpace
  <2> QED
    BY <1>4, <1>5, <2>1, <2>2, <2>3, <2>4
<1> HIDE DEF K
<1>12. \A i \in 1..22 : rest[i] \in S
  <2>1. rest \in Seq(S) /\ Len(rest) = 22
    BY <1>4, Zenon
  <2>2. \A i \in 1..Len(rest) : rest[i] \in S
    BY <2>1, Elements
  <2> QED
    BY <2>1, <2>2, Zenon
<1>13. PICK f : /\ f[0] = <<>>
                /\ \A i \in 1..Len(rest) :
                      f[i] = IF i \in K THEN Append(f[i - 1], rest[i]) ELSE f[i - 1]
                /\ At(rest, K) = f[Len(rest)]
  <2>1. Len(rest) \in Nat
    BY <1>4
  <2> QED
    BY <2>1, AtUnfolds
<1>7. /\ f[0] = <<>>
      /\ \A i \in 1..22 : f[i] = IF i \in K THEN Append(f[i - 1], rest[i]) ELSE f[i - 1]
      /\ At(rest, K) = f[22]
  <2>1. Len(rest) = 22
    BY <1>4, Zenon
  <2> QED
    BY <1>13, <2>1, Zenon
<1>8. f[3] = <<p.state>>
  <2>1. 1 \in 1..22 /\ 2 \in 1..22 /\ 3 \in 1..22 /\ 1 - 1 = 0 /\ 2 - 1 = 1 /\ 3 - 1 = 2
    OBVIOUS
  <2>2. f[1] = <<>>
    BY <1>6, <1>7, <2>1
  <2>3. f[2] = Append(<<>>, p.state)
    BY <1>5, <1>6, <1>7, <2>1, <2>2
  <2>4. f[3] = f[2]
    BY <1>6, <1>7, <2>1
  <2> QED
    BY <2>3, <2>4
<1> DEFINE Good(j) == /\ f[j] \in Seq(S) /\ Len(f[j]) = j - 2 /\ f[j][1] = p.state
                      /\ \A k \in 1..(j - 3) : f[j][k + 1] = rest[3 + k]
           Bad == {j \in 3..22 : ~Good(j)}
<1>9. Bad = {}
  <2>1. SUFFICES ASSUME Bad # {} PROVE FALSE
    OBVIOUS
  <2>2. PICK j \in Bad : \A m \in Bad : j <= m
    <3>1. Bad \subseteq Nat
      OBVIOUS
    <3> QED
      BY <2>1, <3>1, LeastExists, Zenon
  <2>3. j # 3
    <3>1. p.state \in S
      <4>1. 2 \in 1..22
        OBVIOUS
      <4> QED
        BY <1>5, <1>12, <4>1, Zenon
    <3>2. <<p.state>> \in Seq(S) /\ Len(<<p.state>>) = 1 /\ <<p.state>>[1] = p.state
      BY <3>1
    <3>3. Good(3)
      BY <1>8, <3>2
    <3> QED
      BY <2>2, <3>3, Zenon
  <2>4. j \in 4..22 /\ j - 1 \in 3..22 /\ ~(j <= j - 1) /\ j \in 1..22
        /\ j - 3 \in 1..19 /\ 3 + (j - 3) = j
    <3>1. j \in 3..22
      OBVIOUS
    <3> HIDE DEF Bad
    <3> QED
      BY <2>3, <3>1
  <2>5. Good(j - 1)
    BY <2>2, <2>4, Zenon
  <2>6. j \in K
    BY <1>6, <2>4
  <2>7. f[j] = Append(f[j - 1], rest[j]) /\ rest[j] \in S
    BY <1>7, <1>12, <2>4, <2>6, Zenon
  <2> DEFINE t == f[j - 1]
  <2>8. /\ t \in Seq(S) /\ Len(t) = j - 3 /\ t[1] = p.state
        /\ \A k \in 1..(j - 4) : t[k + 1] = rest[3 + k]
    <3>1. (j - 1) - 2 = j - 3 /\ (j - 1) - 3 = j - 4
      BY <2>4
    <3> QED
      BY <2>5, <3>1
  <2> HIDE DEF t
  <2>9. /\ Append(t, rest[j]) \in Seq(S) /\ Len(Append(t, rest[j])) = j - 2
        /\ Append(t, rest[j])[j - 2] = rest[j]
        /\ \A k \in 1..(j - 3) : Append(t, rest[j])[k] = t[k]
    BY <2>4, <2>7, <2>8
  <2>10. f[j] = Append(t, rest[j])
    BY <2>7 DEF t
  <2>11. ASSUME NEW k \in 1..(j - 3) PROVE f[j][k + 1] = rest[3 + k]
    <3>1. CASE k = j - 3
      <4>1. k + 1 = j - 2 /\ 3 + k = j
        BY <2>4, <3>1
      <4> QED
        BY <2>9, <2>10, <4>1
    <3>2. CASE k # j - 3
      <4>1. k \in 1..(j - 4) /\ k + 1 \in 1..(j - 3)
        BY <2>4, <3>2
      <4>2. f[j][k + 1] = t[k + 1] /\ t[k + 1] = rest[3 + k]
        BY <2>8, <2>9, <2>10, <4>1, Zenon
      <4> QED
        BY <4>2
    <3> QED
      BY <3>1, <3>2
  <2>12. 1 \in 1..(j - 3)
    BY <2>4
  <2>13. Good(j)
    BY <2>8, <2>9, <2>10, <2>11, <2>12, Zenon
  <2> QED
    BY <2>2, <2>13, Zenon
<1>10. Good(22)
  <2>1. 22 \in 3..22
    OBVIOUS
  <2> QED
    BY <1>9, <2>1, Zenon
<1>11. Len(f[22]) = 20 /\ f[22][1] = p.state /\ \A k \in 1..19 : f[22][k + 1] = Number(p.fields[k])
  <2>1. 22 - 2 = 20 /\ 22 - 3 = 19
    OBVIOUS
  <2>2. Len(f[22]) = 20 /\ f[22][1] = p.state /\ \A k \in 1..19 : f[22][k + 1] = rest[3 + k]
    BY <1>10, <2>1, Zenon
  <2> QED
    BY <1>5, <2>2, Zenon
<1> QED
  BY <1>2, <1>7, <1>11, Zenon DEF line

LEMMA NameReadsBack ==
    ASSUME NEW p, IsProcess(p)
    PROVE  Name(StatLine(p)) = p.name
<1> DEFINE line == StatLine(p)
           n == Len(p.name)
<1>1. /\ n \in Nat /\ Len(line) = n + 26 /\ (\E S : line \in Seq(S))
      /\ \A i \in 1..n : line[3 + i] = p.name[i]
  BY StatLineShape, Zenon
<1>2. Opens(line) = 3 /\ Closes(line) = n + 4
  BY NameIsFound, Zenon
<1>3. p.name \in Seq(Tokens)
  BY DEF IsProcess
<1> HIDE DEF line
<1>4. PICK S : line \in Seq(S)
  BY <1>1
<1> DEFINE name == SubSeq(line, 4, n + 3)
<1>5. /\ name \in Seq(S) /\ Len(name) = n
      /\ \A i \in 1..n : name[i] = line[3 + i]
  <2> HIDE DEF n
  <2>1. n \in Nat /\ Len(line) = n + 26
    BY <1>1
  <2>2. 4 \in 1..Len(line) /\ n + 3 \in (4 - 1)..Len(line) /\ (n + 3) - 4 + 1 = n /\ 4 - 1 = 3
    BY <2>1
  <2>3. /\ name \in Seq(S) /\ Len(name) = (n + 3) - 4 + 1
        /\ \A i \in 1..((n + 3) - 4 + 1) : name[i] = line[4 - 1 + i]
    BY <1>4, <2>2, Between
  <2> HIDE DEF name
  <2> QED
    BY <2>2, <2>3
<1>6. Name(line) = name
  <2>1. 3 + 1 = 4 /\ (n + 4) - 1 = n + 3
    <3> HIDE DEF n
    <3>1. n \in Nat
      BY <1>1
    <3> QED
      BY <3>1
  <2> QED
    BY <1>2, <2>1, Zenon DEF Name
<1> HIDE DEF name
<1>7. name = p.name
  <2>1. Len(name) = Len(p.name) /\ \A i \in 1..Len(name) : name[i] = p.name[i]
    BY <1>1, <1>5, Zenon
  <2>2. name \in Seq(S)
    BY <1>5
  <2> QED
    BY <1>3, <2>1, <2>2, SameElements
<1> QED
  BY <1>6, <1>7 DEF line

(* So a line of stat is read back, whatever name the process gave itself.     *)
LEMMA StatLinesReadBack == ASSUME NEW p, IsProcess(p) PROVE StatReadsBack(p)
<1> DEFINE line == StatLine(p)
           n == Len(p.name)
           words == Words(line)
<1>1. n \in Nat /\ Len(line) = n + 26 /\ line[1] = Number(p.pid)
  BY StatLineShape, Zenon
<1>2. /\ Places(line, "(") # {} /\ Places(line, ")") # {}
      /\ Opens(line) = 3 /\ Closes(line) = n + 4
  BY NameIsFound, Zenon
<1>3. Len(words) = 20 /\ words[1] = p.state /\ \A k \in 1..19 : words[k + 1] = Number(p.fields[k])
  BY WordsAreFields, Zenon
<1>4. Name(line) = p.name
  BY NameReadsBack
<1>5. Field(line, 3) = p.state
  <2>1. 3 - 2 = 1
    OBVIOUS
  <2> QED
    BY <1>3, <2>1, Zenon DEF Field
<1>6. \A k \in 4..22 : Field(line, k) = Number(p.fields[k - 3])
  <2> SUFFICES ASSUME NEW k \in 4..22 PROVE Field(line, k) = Number(p.fields[k - 3])
    OBVIOUS
  <2>1. k - 3 \in 1..19 /\ k - 2 = (k - 3) + 1
    OBVIOUS
  <2> QED
    BY <1>3, <2>1, Zenon DEF Field
<1>7. /\ Value(line, 4) = p.fields[1] /\ Value(line, 14) = p.fields[11]
      /\ Value(line, 15) = p.fields[12] /\ Value(line, 20) = p.fields[17]
      /\ Value(line, 22) = p.fields[19]
  <2>1. /\ 4 \in 4..22 /\ 14 \in 4..22 /\ 15 \in 4..22 /\ 20 \in 4..22 /\ 22 \in 4..22
        /\ 4 - 3 = 1 /\ 14 - 3 = 11 /\ 15 - 3 = 12 /\ 20 - 3 = 17 /\ 22 - 3 = 19
    OBVIOUS
  <2>2. /\ Field(line, 4) = Number(p.fields[1]) /\ Field(line, 14) = Number(p.fields[11])
        /\ Field(line, 15) = Number(p.fields[12]) /\ Field(line, 20) = Number(p.fields[17])
        /\ Field(line, 22) = Number(p.fields[19])
    BY <1>6, <2>1, Zenon
  <2> QED
    BY <2>2, TokensDiffer, Zenon DEF Value
<1>8. /\ p.pid \in Int /\ p.pid > 0 /\ p.pid <= Int32Max
      /\ p.fields[1] >= 0 /\ p.fields[1] <= Int32Max /\ p.fields[17] <= Uint32Max
      /\ p.fields[11] <= Word - 1 - p.fields[12]
      /\ IsChar(p.state)
  <2>1. /\ p.pid \in 1..Int32Max /\ p.fields[1] \in 0..Int32Max /\ p.fields[17] \in 0..Uint32Max
        /\ p.fields[11] \in Nat /\ p.fields[12] \in Nat /\ p.fields[11] + p.fields[12] < Word
        /\ IsChar(p.state)
    BY Zenon DEF IsProcess
  <2>2. Word \in Nat /\ Int32Max \in Nat /\ Uint32Max \in Nat
    BY PrintedAssumption
  <2>3. p.fields[11] <= Word - 1 - p.fields[12]
    BY <2>1, <2>2
  <2> QED
    BY <2>1, <2>2, <2>3
<1> HIDE DEF line, words
<1>9. HasName(line)
  <2> HIDE DEF n
  <2>1. n \in Nat
    BY <1>1
  <2>2. 3 < n + 4 /\ (n + 4) + 1 <= n + 26
    BY <2>1
  <2> QED
    BY <1>1, <1>2, <2>2, Zenon DEF HasName
<1>10. StatParses(line)
  <2>1. Opens(line) > 1
    BY <1>2
  <2>2. IsNumber(line[1]) /\ line[1][2] > 0 /\ line[1][2] <= Int32Max
    BY <1>1, <1>8, TokensDiffer, Zenon
  <2>3. Len(words) >= 20
    BY <1>3
  <2>4. \A k \in 4..22 : IsNumber(Field(line, k))
    BY <1>6, TokensDiffer, Zenon
  <2> QED
    BY <1>5, <1>7, <1>8, <1>9, <2>1, <2>2, <2>3, <2>4, Zenon DEF StatParses, words
<1>11. line[1][2] = p.pid
  BY <1>1, TokensDiffer, Zenon
<1>12. ParseStatLine(line) =
          [pid |-> p.pid, name |-> p.name, state |-> p.state, ppid |-> p.fields[1],
           cpu_ticks |-> p.fields[11] + p.fields[12], thread_count |-> p.fields[17],
           start_time_ticks |-> p.fields[19]]
  BY <1>4, <1>5, <1>7, <1>11, Zenon DEF ParseStatLine
<1> QED
  BY <1>10, <1>12, Zenon DEF StatReadsBack, line

(* status and io; a kernel thread has no memory shown.                        *)
LEMMA StatusFilesReadBack == ASSUME NEW p, IsProcess(p) PROVE StatusReadsBack(p)
<1> DEFINE size    == [key |-> "VmSize", value |-> p.size, unit |-> "kB"]
           rss     == [key |-> "VmRSS", value |-> p.rss, unit |-> "kB"]
           threads == [key |-> "Threads", value |-> p.fields[17], unit |-> ""]
           shown   == StatusLines(p)
<1>1. /\ size.key = "VmSize" /\ size.value = p.size /\ size.unit = "kB"
      /\ rss.key = "VmRSS" /\ rss.value = p.rss /\ rss.unit = "kB"
      /\ threads.key = "Threads" /\ threads.value = p.fields[17]
  OBVIOUS
<1>2. p.size <= MaximumKb /\ p.rss <= MaximumKb /\ p.fields[17] <= Uint32Max /\ p.kernel \in BOOLEAN
  <2>1. /\ p.size \in 0..MaximumKb /\ p.rss \in 0..MaximumKb /\ p.fields[17] \in 0..Uint32Max
        /\ p.kernel \in BOOLEAN
    BY Zenon DEF IsProcess
  <2>2. MaximumKb \in Int /\ Uint32Max \in Int
    BY PrintedAssumption DEF MaximumKb
  <2> QED
    BY <2>1, <2>2
<1>3. shown = IF p.kernel THEN <<threads>> ELSE <<size, rss, threads>>
  BY Zenon DEF StatusLines
<1> HIDE DEF size, rss, threads, shown
<1>4. StatusParses(shown)
  <2>1. CASE p.kernel
    <3>1. shown = <<threads>>
      BY <1>3, <2>1
    <3>2. DOMAIN shown = {1} /\ shown[1] = threads
      BY <3>1
    <3> QED
      BY <1>1, <1>2, <3>2 DEF StatusParses
  <2>2. CASE ~p.kernel
    <3>1. shown = <<size, rss, threads>>
      BY <1>3, <2>2
    <3>2. DOMAIN shown = {1, 2, 3} /\ shown[1] = size /\ shown[2] = rss /\ shown[3] = threads
      BY <3>1
    <3> QED
      BY <1>1, <1>2, <3>2 DEF StatusParses, KilobytesParse
  <2> QED
    BY <2>1, <2>2, <1>2
<1>5. /\ Last(shown, "VmRSS", 0) = (IF p.kernel THEN 0 ELSE p.rss)
      /\ Last(shown, "VmSize", 0) = (IF p.kernel THEN 0 ELSE p.size)
      /\ Last(shown, "Threads", p.fields[17]) = p.fields[17]
  <2>1. CASE p.kernel
    <3>1. shown = <<threads>>
      BY <1>3, <2>1
    <3>2. DOMAIN shown = {1} /\ shown[1] = threads
      BY <3>1
    <3>3. Holding(shown, "VmRSS") = {} /\ Holding(shown, "VmSize") = {} /\ Holding(shown, "Threads") = {1}
      BY <1>1, <3>2 DEF Holding
    <3> QED
      BY <1>1, <2>1, <3>2, <3>3 DEF Last
  <2>2. CASE ~p.kernel
    <3>1. shown = <<size, rss, threads>>
      BY <1>3, <2>2
    <3>2. DOMAIN shown = {1, 2, 3} /\ shown[1] = size /\ shown[2] = rss /\ shown[3] = threads
      BY <3>1
    <3>3. /\ Holding(shown, "VmRSS") = {2} /\ Holding(shown, "VmSize") = {1}
          /\ Holding(shown, "Threads") = {3}
      BY <1>1, <3>2 DEF Holding
    <3> QED
      BY <1>1, <2>2, <3>2, <3>3 DEF Last
  <2> QED
    BY <2>1, <2>2, <1>2
<1>6. ParseStatus(shown, p.fields[17]) =
          [resident_memory |-> IF p.kernel THEN 0 ELSE 1024 * p.rss,
           virtual_memory  |-> IF p.kernel THEN 0 ELSE 1024 * p.size,
           thread_count    |-> p.fields[17]]
  <2>1. 1024 * 0 = 0
    OBVIOUS
  <2>2. /\ 1024 * Last(shown, "VmRSS", 0) = (IF p.kernel THEN 0 ELSE 1024 * p.rss)
        /\ 1024 * Last(shown, "VmSize", 0) = (IF p.kernel THEN 0 ELSE 1024 * p.size)
    <3>1. CASE p.kernel
      BY <1>5, <2>1, <3>1
    <3>2. CASE ~p.kernel
      BY <1>5, <3>2
    <3> QED
      BY <3>1, <3>2
  <2> DEFINE resident == Last(shown, "VmRSS", 0)
             virtual == Last(shown, "VmSize", 0)
             count == Last(shown, "Threads", p.fields[17])
  <2>3. ParseStatus(shown, p.fields[17]) =
            [resident_memory |-> 1024 * resident, virtual_memory |-> 1024 * virtual,
             thread_count    |-> count]
    BY SMT DEF ParseStatus
  <2>4. count = p.fields[17]
    BY <1>5, Zenon
  <2>5. /\ 1024 * resident = (IF p.kernel THEN 0 ELSE 1024 * p.rss)
        /\ 1024 * virtual = (IF p.kernel THEN 0 ELSE 1024 * p.size)
    BY <2>2
  <2> HIDE DEF resident, virtual, count
  <2> QED
    BY <2>3, <2>4, <2>5, SMT
<1>7. ParseIo(IoLines(p)) = [read_bytes |-> p.read, write_bytes |-> p.written]
  <2> DEFINE io == IoLines(p)
  <2>1. /\ DOMAIN io = {1, 2, 3, 4}
        /\ io[1].key = "rchar" /\ io[2].key = "read_bytes" /\ io[3].key = "write_bytes"
        /\ io[4].key = "cancelled_write_bytes" /\ io[2].value = p.read /\ io[3].value = p.written
    BY DEF IoLines
  <2> HIDE DEF io
  <2>2. Holding(io, "read_bytes") = {2} /\ Holding(io, "write_bytes") = {3}
    BY <2>1 DEF Holding
  <2>3. Last(io, "read_bytes", 0) = p.read /\ Last(io, "write_bytes", 0) = p.written
    BY <2>1, <2>2 DEF Last
  <2> QED
    BY <2>3, Zenon DEF ParseIo, io
<1> QED
  BY <1>4, <1>6, <1>7, Zenon DEF StatusReadsBack, shown

LEMMA UsageHasATotal == ASSUME NEW p, IsProcess(p) PROVE UsageIsDefined(p)
<1>1. ParseStatLine(StatLine(p)).start_time_ticks = p.fields[19]
  BY StatLinesReadBack DEF StatReadsBack
<1>2. p.fields[19] \in Nat /\ p.uptime \in Nat
  BY DEF IsProcess
<1> QED
  BY <1>1, <1>2 DEF UsageIsDefined, CalculateCpuUsage

(* The kernel prints four bytes of an address as one number; printed so, they  *)
(* stand in the opposite order.                                             *)
LEMMA Printed32Reverses ==
    ASSUME NEW bytes, bytes[1] \in 0..255, bytes[2] \in 0..255, bytes[3] \in 0..255, bytes[4] \in 0..255
    PROVE  Printed32(bytes) = <<bytes[4], bytes[3], bytes[2], bytes[1]>>
<1> DEFINE value == bytes[1] + 256 * bytes[2] + 65536 * bytes[3] + 16777216 * bytes[4]
<1>1. ASSUME NEW b1, NEW b2, NEW b3, NEW b4, b1 \in 0..255, b2 \in 0..255, b3 \in 0..255,
             b4 \in 0..255, bytes[1] = b1, bytes[2] = b2, bytes[3] = b3, bytes[4] = b4
      PROVE  /\ value \div 16777216 = bytes[4] /\ (value \div 65536) % 256 = bytes[3]
             /\ (value \div 256) % 256 = bytes[2] /\ value % 256 = bytes[1]
  <2> DEFINE v == b1 + 256 * b2 + 65536 * b3 + 16777216 * b4
  <2>1. v \div 16777216 = b4 /\ v % 256 = b1
    BY <1>1, SMT
  <2>2. v \div 65536 = b3 + 256 * b4 /\ (b3 + 256 * b4) % 256 = b3
    BY <1>1, SMT
  <2>3. v \div 256 = b2 + 256 * (b3 + 256 * b4) /\ (b2 + 256 * (b3 + 256 * b4)) % 256 = b2
    BY <1>1, SMT
  <2>4. value = v
    BY <1>1, SMT
  <2> HIDE DEF v, value
  <2> QED
    BY <1>1, <2>1, <2>2, <2>3, <2>4, SMT
<1>2. Printed32(bytes) = <<value \div 16777216, (value \div 65536) % 256,
                           (value \div 256) % 256, value % 256>>
  BY SMT DEF Printed32
<1> HIDE DEF value
<1>3. /\ value \div 16777216 = bytes[4] /\ (value \div 65536) % 256 = bytes[3]
      /\ (value \div 256) % 256 = bytes[2] /\ value % 256 = bytes[1]
  BY <1>1, SMT
<1> QED
  BY <1>2, <1>3, SMT

LEMMA FunctionIsSeq ==
    ASSUME NEW n \in Nat, NEW S, NEW f \in [1..n -> S]
    PROVE  f \in Seq(S) /\ Len(f) = n
  OBVIOUS

LEMMA FourFrom ==
    ASSUME NEW S, NEW s \in Seq(S), NEW k \in Nat, k + 4 <= Len(s)
    PROVE  LET four == SubSeq(s, k + 1, k + 4)
           IN four[1] = s[k + 1] /\ four[2] = s[k + 2] /\ four[3] = s[k + 3] /\ four[4] = s[k + 4]
<1>1. k + 1 \in 1..Len(s) /\ k + 4 \in ((k + 1) - 1)..Len(s) /\ (k + 4) - (k + 1) + 1 = 4
      /\ (k + 1) - 1 + 1 = k + 1 /\ (k + 1) - 1 + 2 = k + 2
      /\ (k + 1) - 1 + 3 = k + 3 /\ (k + 1) - 1 + 4 = k + 4
      /\ 1 \in 1..4 /\ 2 \in 1..4 /\ 3 \in 1..4 /\ 4 \in 1..4
  OBVIOUS
<1>2. \A i \in 1..((k + 4) - (k + 1) + 1) : SubSeq(s, k + 1, k + 4)[i] = s[(k + 1) - 1 + i]
  BY <1>1, Between, SMT
<1>3. \A i \in 1..4 : SubSeq(s, k + 1, k + 4)[i] = s[(k + 1) - 1 + i]
  BY <1>1, <1>2, Zenon
<1> DEFINE four == SubSeq(s, k + 1, k + 4)
<1>4. /\ four[1] = s[(k + 1) - 1 + 1] /\ four[2] = s[(k + 1) - 1 + 2]
      /\ four[3] = s[(k + 1) - 1 + 3] /\ four[4] = s[(k + 1) - 1 + 4]
  BY <1>1, <1>3, Zenon
<1> HIDE DEF four
<1>5. four[1] = s[k + 1] /\ four[2] = s[k + 2] /\ four[3] = s[k + 3] /\ four[4] = s[k + 4]
  BY <1>1, <1>4
<1> QED
  BY <1>5 DEF four

LEMMA EndpointIsRecord ==
    ASSUME NEW A, NEW P, NEW e \in [address : A, port : P]
    PROVE  e.address \in A /\ e.port \in P /\ e = [address |-> e.address, port |-> e.port]
  OBVIOUS

LEMMA AddressReadsBack ==
    ASSUME NEW size \in {4, 16}, NEW address \in [1..size -> 0..255]
    PROVE  Unswapped(PrintedAddress(address)) = address /\ Len(PrintedAddress(address)) = size
<1> DEFINE hex == PrintedAddress(address)
           Word4(w) == SubSeq(address, w * 4 + 1, w * 4 + 4)
<1>1. address \in Seq(0..255) /\ Len(address) = size /\ size \in Nat
  OBVIOUS
<1>2. DOMAIN hex = 1..size /\ Len(hex) = size
  <2>1. hex = [i \in 1..size |-> Printed32(Word4((i - 1) \div 4))[((i - 1) % 4) + 1]]
    BY <1>1, Zenon DEF PrintedAddress
  <2> DEFINE g(i) == Printed32(Word4((i - 1) \div 4))[((i - 1) % 4) + 1]
  <2>2. hex = [i \in 1..size |-> g(i)]
    BY <2>1
  <2> HIDE DEF hex, g
  <2> QED
    BY <1>1, <2>2
<1>3. ASSUME NEW w \in Nat, 4 * w + 4 <= size, NEW b \in 0..3
      PROVE  hex[4 * w + (3 - b) + 1] = address[4 * w + b + 1]
  <2> DEFINE i == 4 * w + (3 - b) + 1
  <2>1. i \in 1..size /\ (i - 1) \div 4 = w /\ ((i - 1) % 4) + 1 = 4 - b /\ w * 4 = 4 * w
    BY <1>1, <1>3
  <2>2. hex[i] = Printed32(Word4((i - 1) \div 4))[((i - 1) % 4) + 1]
    <3> HIDE DEF i
    <3> QED
      BY <1>1, <2>1, Zenon DEF PrintedAddress
  <2>3. /\ Word4(w)[1] = address[4 * w + 1] /\ Word4(w)[2] = address[4 * w + 2]
        /\ Word4(w)[3] = address[4 * w + 3] /\ Word4(w)[4] = address[4 * w + 4]
    <3>1. w * 4 \in Nat /\ w * 4 + 4 <= Len(address) /\ w * 4 = 4 * w
      BY <1>1, <1>3
    <3>2. address \in Seq(0..255)
      BY <1>1
    <3>3. /\ Word4(w)[1] = address[w * 4 + 1] /\ Word4(w)[2] = address[w * 4 + 2]
          /\ Word4(w)[3] = address[w * 4 + 3] /\ Word4(w)[4] = address[w * 4 + 4]
      <4> HIDE DEF hex, i
      <4> QED
        BY <3>1, <3>2, FourFrom, SMT
    <3> HIDE DEF Word4
    <3> QED
      BY <3>1, <3>3
  <2>4. /\ address[4 * w + 1] \in 0..255 /\ address[4 * w + 2] \in 0..255
        /\ address[4 * w + 3] \in 0..255 /\ address[4 * w + 4] \in 0..255
    <3>1. 4 * w + 1 \in 1..size /\ 4 * w + 2 \in 1..size /\ 4 * w + 3 \in 1..size /\ 4 * w + 4 \in 1..size
      BY <1>1, <1>3
    <3> QED
      BY <3>1
  <2> HIDE DEF Word4
  <2>5. Printed32(Word4(w)) = <<address[4 * w + 4], address[4 * w + 3], address[4 * w + 2], address[4 * w + 1]>>
    <3>1. /\ Word4(w)[1] \in 0..255 /\ Word4(w)[2] \in 0..255
          /\ Word4(w)[3] \in 0..255 /\ Word4(w)[4] \in 0..255
      BY <2>3, <2>4
    <3> HIDE DEF i, hex
    <3>2. Printed32(Word4(w)) = <<Word4(w)[4], Word4(w)[3], Word4(w)[2], Word4(w)[1]>>
      BY <3>1, Printed32Reverses, Zenon
    <3> QED
      BY <2>3, <3>2, Zenon
  <2>6. hex[i] = Printed32(Word4(w))[4 - b]
    <3> HIDE DEF i, hex
    <3> QED
      BY <2>1, <2>2
  <2> HIDE DEF i, hex
  <2>7. hex[i] = address[4 * w + b + 1]
    <3>1. CASE b = 0
      BY <2>5, <2>6, <3>1
    <3>2. CASE b = 1
      BY <2>5, <2>6, <3>2
    <3>3. CASE b = 2
      BY <2>5, <2>6, <3>3
    <3>4. CASE b = 3
      BY <2>5, <2>6, <3>4
    <3> QED
      BY <3>1, <3>2, <3>3, <3>4
  <2> QED
    BY <2>7 DEF i
<1> HIDE DEF hex
<1>4. ASSUME NEW i \in 1..size
      PROVE  Unswapped(hex)[i] = address[i]
  <2> DEFINE w == (i - 1) \div 4
             b == (i - 1) % 4
  <2>1. w \in Nat /\ b \in 0..3 /\ 4 * w + 4 <= size /\ 4 * w + b + 1 = i /\ w * 4 = 4 * w
    BY <1>1
  <2>2. Unswapped(hex)[i] = hex[w * 4 + (3 - b) + 1]
    BY <1>2, Zenon DEF Unswapped
  <2> HIDE DEF w, b
  <2>3. hex[4 * w + (3 - b) + 1] = address[4 * w + b + 1]
    BY <1>3, <2>1
  <2> QED
    BY <2>1, <2>2, <2>3
<1>5. Unswapped(hex) = [i \in 1..size |-> Unswapped(hex)[i]]
  BY <1>2, Zenon DEF Unswapped
<1>6. Unswapped(hex) = address
  <2>1. address = [i \in 1..size |-> address[i]]
    OBVIOUS
  <2> QED
    BY <1>4, <1>5, <2>1, Zenon
<1> QED
  BY <1>2, <1>6 DEF hex

(* A row of the TCP tables.                                                  *)
LEMMA SocketsReadBack == ASSUME NEW c, IsConnection(c) PROVE SocketReadsBack(c)
<1>1. PICK size \in {4, 16} : IsEndpoint(c.local, size) /\ IsEndpoint(c.remote, size)
  BY DEF IsConnection
<1>2. /\ c.local.address \in [1..size -> 0..255] /\ c.local.port \in 0..MaximumPort
      /\ c.remote.address \in [1..size -> 0..255] /\ c.remote.port \in 0..MaximumPort
      /\ c.local = [address |-> c.local.address, port |-> c.local.port]
      /\ c.remote = [address |-> c.remote.address, port |-> c.remote.port]
  BY <1>1, EndpointIsRecord, Zenon DEF IsEndpoint
<1> DEFINE ipv6 == Len(c.local.address) = 16
           fields == TcpLine(c)
<1>3. Len(c.local.address) = size /\ Size(ipv6) = size
  <2>1. Len(c.local.address) = size
    <3>1. size \in Nat
      OBVIOUS
    <3>2. c.local.address \in [1..size -> 0..255]
      BY <1>2, Zenon
    <3> HIDE DEF ipv6, fields
    <3> QED
      BY <3>1, <3>2, FunctionIsSeq
  <2> QED
    BY <2>1 DEF Size
<1>4. /\ Len(fields) = 10 /\ fields[2] = PrintedEndpoint(c.local)
      /\ fields[3] = PrintedEndpoint(c.remote) /\ fields[4] = c.code /\ fields[10] = c.inode
  BY DEF TcpLine
<1>5. /\ PrintedEndpoint(c.local).port = c.local.port
      /\ PrintedEndpoint(c.remote).port = c.remote.port
      /\ PrintedEndpoint(c.local).hex = PrintedAddress(c.local.address)
      /\ PrintedEndpoint(c.remote).hex = PrintedAddress(c.remote.address)
  BY DEF PrintedEndpoint
<1>6. /\ Unswapped(PrintedAddress(c.local.address)) = c.local.address
      /\ Len(PrintedAddress(c.local.address)) = size
      /\ Unswapped(PrintedAddress(c.remote.address)) = c.remote.address
      /\ Len(PrintedAddress(c.remote.address)) = size
  <2>1. size \in {4, 16} /\ c.local.address \in [1..size -> 0..255]
        /\ c.remote.address \in [1..size -> 0..255]
    BY <1>2, Zenon
  <2>2. /\ Unswapped(PrintedAddress(c.local.address)) = c.local.address
        /\ Len(PrintedAddress(c.local.address)) = size
    BY <2>1, AddressReadsBack, Zenon
  <2>3. /\ Unswapped(PrintedAddress(c.remote.address)) = c.remote.address
        /\ Len(PrintedAddress(c.remote.address)) = size
    BY <2>1, AddressReadsBack, Zenon
  <2> QED
    BY <2>2, <2>3, Zenon
<1>7. c.inode < Word
  <2>1. c.inode \in 0..(Word - 1)
    BY DEF IsConnection
  <2>2. Word \in Nat
    BY PrintedAssumption
  <2> QED
    BY <2>1, <2>2
<1> HIDE DEF ipv6, fields
<1>8. TcpParses(fields, ipv6)
  <2>1. EndpointParses(fields[2], ipv6) /\ EndpointParses(fields[3], ipv6)
    <3>1. MaximumPort \in Nat
      BY DEF MaximumPort
    <3>2. c.local.port <= MaximumPort /\ c.remote.port <= MaximumPort
      BY <1>2, <3>1
    <3> QED
      BY <1>3, <1>4, <1>5, <1>6, <3>2, Zenon DEF EndpointParses
  <2> QED
    BY <1>4, <1>7, <2>1 DEF TcpParses
<1>9. /\ ParseEndpoint(fields[2]) = [address |-> c.local.address, port |-> c.local.port]
      /\ ParseEndpoint(fields[3]) = [address |-> c.remote.address, port |-> c.remote.port]
  BY <1>4, <1>5, <1>6, Zenon DEF ParseEndpoint
<1>10. LET read == ParseTcpLine(fields, ipv6)
       IN /\ read.local = ParseEndpoint(fields[2]) /\ read.remote = ParseEndpoint(fields[3])
          /\ read.inode = c.inode /\ read.state = TcpStateName(c.code)
  BY <1>4 DEF ParseTcpLine
<1> QED
  BY <1>2, <1>8, <1>9, <1>10, Zenon DEF SocketReadsBack, ipv6, fields

LEMMA AllProcessTexts == ProcessTextsReadBack
  BY PrintedAssumption, StatLinesReadBack, StatusFilesReadBack, UsageHasATotal
  DEF ProcessTextsReadBack

(* An address is under the interface it was listed for.                       *)
LEMMA AllNetworkTexts == NetworkTextsReadBack
<1>1. \A c \in PrintedSockets : SocketReadsBack(c)
  BY PrintedAssumption, SocketsReadBack
<1>2. ASSUME NEW list \in AddressLists, NEW i \in DOMAIN list
      PROVE  \E n \in GetInterfaces(list) :
          /\ n.name = list[i].name
          /\ list[i].family = "ipv4" => \E k \in DOMAIN n.ipv4_addresses : n.ipv4_addresses[k] = list[i]
          /\ list[i].family = "ipv6" => \E k \in DOMAIN n.ipv6_addresses : n.ipv6_addresses[k] = list[i]
  <2>1. Len(list) \in Nat /\ DOMAIN list = 1..Len(list) /\ i \in 1..Len(list)
    BY PrintedAssumption
  <2>2. ASSUME NEW family, list[i].family = family
        PROVE  \E k \in DOMAIN Addresses(list, list[i].name, family) :
                  Addresses(list, list[i].name, family)[k] = list[i]
    <3> DEFINE K == {j \in DOMAIN list : list[j].name = list[i].name /\ list[j].family = family}
    <3>1. i \in K
      BY <2>2
    <3> HIDE DEF K
    <3>2. \E k \in DOMAIN At(list, K) : At(list, K)[k] = list[i]
      BY <2>1, <3>1, AtKeepsAll, Zenon
    <3> USE DEF K
    <3> QED
      BY <3>2, Zenon DEF Addresses
  <2> DEFINE n == [name |-> list[i].name, ipv4_addresses |-> Addresses(list, list[i].name, "ipv4"),
                   ipv6_addresses |-> Addresses(list, list[i].name, "ipv6")]
  <2>3. n \in GetInterfaces(list)
    <3>1. list[i].name \in {list[j].name : j \in DOMAIN list}
      OBVIOUS
    <3> QED
      BY <3>1, Zenon DEF GetInterfaces
  <2>4. /\ n.name = list[i].name
        /\ n.ipv4_addresses = Addresses(list, list[i].name, "ipv4")
        /\ n.ipv6_addresses = Addresses(list, list[i].name, "ipv6")
    OBVIOUS
  <2> HIDE DEF n
  <2> QED
    BY <2>2, <2>3, <2>4, Zenon
<1> QED
  BY <1>1, <1>2, Zenon DEF NetworkTextsReadBack

(* Every entry and row of an answer is made of texts that say exactly what the *)
(* kernel printed: for any name a process gives itself, any counters that fit *)
(* their types and any addresses.                                           *)
THEOREM TextsAreReadBack == Spec => []TextsReadBack
<1>1. TextsReadBack
  BY AllProcessTexts, AllNetworkTexts, Zenon DEF TextsReadBack
<1> QED
  BY <1>1, PTL

-----------------------------------------------------------------------------
(* The log.  First SanitizeUtf8: by the first byte of a character the code's   *)
(* arithmetic and the table of the Unicode Standard say the same.             *)
LEMMA BytesAreNumbers == Byte \subseteq Nat
  BY SMT DEF Byte

LEMMA ValidIsAnnounced == ASSUME NEW text, NEW i, NEW n, ValidAt(text, i, n) PROVE n > 0
  BY SMT DEF ValidAt

(* The code point of a character of two, three and four bytes.               *)
LEMMA CodePointIs ==
    ASSUME NEW text, NEW i \in Nat, NEW length \in {2, 3, 4}
    PROVE  LET one   == LeadBits(text[i], length) * 64 + (text[i + 1] % 64)
               two   == one * 64 + (text[i + 2] % 64)
               three == two * 64 + (text[i + 3] % 64)
           IN CodePoint(text, i, length) =
                 IF length = 2 THEN one ELSE IF length = 3 THEN two ELSE three
<1> DEFINE lead  == LeadBits(text[i], length)
           bits(k) == text[i + k] % 64
           one   == lead * 64 + bits(1)
           two   == one * 64 + bits(2)
           three == two * 64 + bits(3)
           Runs(f) == f = [k \in 0..(length - 1) |-> IF k = 0 THEN lead ELSE f[k - 1] * 64 + bits(k)]
           made == CHOOSE f : Runs(f)
<1>1. CodePoint(text, i, length) = made[length - 1]
  BY Zenon DEF CodePoint
<1> HIDE DEF lead, bits
<1>2. \E f : Runs(f)
  <2> DEFINE f == [k \in 0..(length - 1) |->
                     IF k = 0 THEN lead ELSE IF k = 1 THEN one ELSE IF k = 2 THEN two ELSE three]
             Next1(k) == IF k = 0 THEN lead ELSE f[k - 1] * 64 + bits(k)
  <2>1. \A k \in 0..(length - 1) : k \in {0, 1, 2, 3} /\ (k # 0 => k - 1 \in 0..(length - 1))
    OBVIOUS
  <2> HIDE DEF one, two, three
  <2>2. \A k \in 0..(length - 1) :
           f[k] = IF k = 0 THEN lead ELSE IF k = 1 THEN one ELSE IF k = 2 THEN two ELSE three
    OBVIOUS
  <2> HIDE DEF f
  <2>3. ASSUME NEW k \in 0..(length - 1) PROVE f[k] = Next1(k)
    <3>1. CASE k = 0
      BY <2>2, <3>1
    <3>2. CASE k = 1
      <4>1. f[k] = one /\ f[0] = lead /\ k - 1 = 0
        BY <2>1, <2>2, <3>2
      <4> QED
        BY <3>2, <4>1 DEF one
    <3>3. CASE k = 2
      <4>1. f[k] = two /\ f[1] = one /\ k - 1 = 1
        BY <2>1, <2>2, <3>3
      <4> QED
        BY <3>3, <4>1 DEF two
    <3>4. CASE k = 3
      <4>1. f[k] = three /\ f[2] = two /\ k - 1 = 2
        BY <2>1, <2>2, <3>4
      <4> QED
        BY <3>4, <4>1 DEF three
    <3> QED
      BY <2>1, <3>1, <3>2, <3>3, <3>4
  <2> HIDE DEF Next1
  <2>4. f = [k \in 0..(length - 1) |-> Next1(k)]
    BY <2>3, Zenon DEF f
  <2> QED
    BY <2>4, Zenon DEF Next1
<1>3. Runs(made)
  BY <1>2, Zenon
<1> HIDE DEF made
<1>4. \A k \in 0..(length - 1) : made[k] = IF k = 0 THEN lead ELSE made[k - 1] * 64 + bits(k)
  BY <1>3, Zenon
<1>5. /\ 0 \in 0..(length - 1) /\ 1 \in 0..(length - 1)
      /\ length # 2 => 2 \in 0..(length - 1)
      /\ length \notin {2, 3} => 3 \in 0..(length - 1)
      /\ 1 - 1 = 0 /\ 2 - 1 = 1 /\ 3 - 1 = 2
  OBVIOUS
<1>6. made[1] = one
  BY <1>4, <1>5
<1>7. length # 2 => made[2] = two
  BY <1>4, <1>5, <1>6
<1>8. length \notin {2, 3} => made[3] = three
  BY <1>4, <1>5, <1>7
<1>9. made[length - 1] = IF length = 2 THEN one ELSE IF length = 3 THEN two ELSE three
  BY <1>5, <1>6, <1>7, <1>8
<1> QED
  BY <1>1, <1>9 DEF lead, bits

(* The table of well-formed characters, by the bytes they have.               *)
Encodes(n, b1, b2, b3, b4) ==
    \/ n = 1 /\ b1 \in 0..127
    \/ n = 2 /\ b1 \in 194..223 /\ b2 \in 128..191
    \/ /\ n = 3 /\ b3 \in 128..191
       /\ \/ b1 = 224 /\ b2 \in 160..191
          \/ b1 \in (225..236) \cup {238, 239} /\ b2 \in 128..191
          \/ b1 = 237 /\ b2 \in 128..159
    \/ /\ n = 4 /\ b3 \in 128..191 /\ b4 \in 128..191
       /\ \/ b1 = 240 /\ b2 \in 144..191
          \/ b1 \in 241..243 /\ b2 \in 128..191
          \/ b1 = 244 /\ b2 \in 128..143
EncodesAt(text, i, n) == Encodes(n, text[i], text[i + 1], text[i + 2], text[i + 3])

LEMMA EncodesOwnBytes ==
    ASSUME NEW n \in 1..4, NEW b1, NEW b2, NEW b3, NEW b4,
           NEW c1, NEW c2, NEW c3, NEW c4, b1 = c1,
           n >= 2 => b2 = c2, n >= 3 => b3 = c3, n >= 4 => b4 = c4
    PROVE  Encodes(n, b1, b2, b3, b4) <=> Encodes(n, c1, c2, c3, c4)
  BY SMT DEF Encodes

(* Continuations and code point of each length, and what the table says.      *)
Allowed(point, length) ==
    point >= Minimum(length) /\ point <= 1114111 /\ point \notin 55296..57343

(* A continuation, and the first bytes of two, three and four, by their bits. *)
Tails        == 128..191
LeadsOfTwo   == 192..223
LeadsOfThree == 224..239
LeadsOfFour  == 240..247

LEMMA Continuations ==
    ASSUME NEW b \in Byte
    PROVE  (b \div 64 = 2 <=> b \in Tails) /\ (b \in Tails => b % 64 = b - 128)
<1>1. b \div 64 = 2 <=> b \in Tails
  BY SMT DEF Byte, Tails
<1>2. b \in Tails => b % 64 = b - 128
  BY SMT DEF Byte, Tails
<1> QED
  BY <1>1, <1>2, Zenon

LEMMA Leads ==
    ASSUME NEW b \in Byte
    PROVE  /\ b \div 32 = 6 => b \in LeadsOfTwo /\ b % 32 = b - 192
           /\ b \div 16 = 14 => b \in LeadsOfThree /\ b % 16 = b - 224
           /\ b \div 8 = 30 => b \in LeadsOfFour /\ b % 8 = b - 240
<1>1. b \div 32 = 6 => b \in LeadsOfTwo /\ b % 32 = b - 192
  BY SMT DEF Byte, LeadsOfTwo
<1>2. b \div 16 = 14 => b \in LeadsOfThree /\ b % 16 = b - 224
  BY SMT DEF Byte, LeadsOfThree
<1>3. b \div 8 = 30 => b \in LeadsOfFour /\ b % 8 = b - 240
  BY SMT DEF Byte, LeadsOfFour
<1> QED
  BY <1>1, <1>2, <1>3, Zenon

(* For each length: the point is linear in the bytes, the bounds of the code  *)
(* on it are the table's on the bytes, and so both take the same bytes.       *)
TwoPoint(b1, b2) == (b1 - 192) * 64 + (b2 - 128)

LEMMA TwoAllowed ==
    ASSUME NEW b1 \in LeadsOfTwo, NEW b2 \in Tails, NEW b3, NEW b4
    PROVE  Allowed(TwoPoint(b1, b2), 2) <=> Encodes(2, b1, b2, b3, b4)
  BY SMT DEF Allowed, Minimum, Encodes, LeadsOfTwo, Tails, TwoPoint

LEMMA TwoBytes ==
    ASSUME NEW b1 \in Byte, NEW b2 \in Byte, NEW b3, NEW b4, NEW point,
           b1 \div 32 = 6, point = (b1 % 32) * 64 + (b2 % 64)
    PROVE  (b2 \div 64 = 2 /\ Allowed(point, 2))
              <=> Encodes(2, b1, b2, b3, b4)
<1> DEFINE C == b2 \in Tails
<1>1. (b2 \div 64 = 2) <=> C
  BY Continuations
<1>2. Encodes(2, b1, b2, b3, b4) => C
  BY SMT DEF Encodes, Tails
<1>3. ASSUME C PROVE Allowed(point, 2) <=> Encodes(2, b1, b2, b3, b4)
  <2>1. b1 \in LeadsOfTwo /\ b1 % 32 = b1 - 192
    BY Leads
  <2>2. b2 % 64 = b2 - 128
    BY <1>3, Continuations
  <2>3. point = TwoPoint(b1, b2)
    BY <2>1, <2>2, SMT DEF TwoPoint
  <2>4. Allowed(TwoPoint(b1, b2), 2) <=> Encodes(2, b1, b2, b3, b4)
    BY <1>3, <2>1, TwoAllowed, Zenon
  <2> QED
    BY <2>3, <2>4, SMT
<1> HIDE DEF C
<1> QED
  BY <1>1, <1>2, <1>3, Zenon

ThreePoint(b1, b2, b3) == ((b1 - 224) * 64 + (b2 - 128)) * 64 + (b3 - 128)

LEMMA ThreeAllowed ==
    ASSUME NEW b1 \in LeadsOfThree, NEW b2 \in Tails, NEW b3 \in Tails, NEW b4
    PROVE  Allowed(ThreePoint(b1, b2, b3), 3) <=> Encodes(3, b1, b2, b3, b4)
<1> DEFINE Ok == (b1 = 224 => b2 >= 160) /\ (b1 = 237 => b2 <= 159)
<1>1. Encodes(3, b1, b2, b3, b4) <=> Ok
  BY SMT DEF Encodes, LeadsOfThree, Tails
<1>2. Allowed(ThreePoint(b1, b2, b3), 3) <=> Ok
  <2> DEFINE P == ThreePoint(b1, b2, b3)
             Shortest == b1 = 224 => b2 >= 160
             NoSurrogate == b1 = 237 => b2 <= 159
  <2>1. P \in Int /\ P <= 65535
    BY SMT DEF LeadsOfThree, Tails, ThreePoint
  <2>2. P >= 2048 <=> Shortest
    BY SMT DEF LeadsOfThree, Tails, ThreePoint
  <2>3. P \notin 55296..57343 <=> NoSurrogate
    <3>1. b1 <= 236 => P < 55296
      BY SMT DEF LeadsOfThree, Tails, ThreePoint
    <3>2. b1 >= 238 => P > 57343
      BY SMT DEF LeadsOfThree, Tails, ThreePoint
    <3>3. b1 = 237 => P <= 57343 /\ (P < 55296 <=> b2 <= 159)
      BY SMT DEF LeadsOfThree, Tails, ThreePoint
    <3>4. b1 \in Int /\ (b1 <= 236 \/ b1 = 237 \/ b1 >= 238)
      BY SMT DEF LeadsOfThree
    <3> HIDE DEF P
    <3>5. P \in 55296..57343 <=> ~(P < 55296) /\ ~(P > 57343)
      BY <2>1, SMT
    <3>6. b1 = 237 => ~(P > 57343)
      BY <2>1, <3>3, SMT
    <3> QED
      BY <3>1, <3>2, <3>3, <3>4, <3>5, <3>6, SMT
  <2>4. Minimum(3) = 2048
    BY SMT DEF Minimum
  <2> HIDE DEF P, Shortest, NoSurrogate
  <2>5. Allowed(P, 3) <=> Shortest /\ NoSurrogate
    BY <2>1, <2>2, <2>3, <2>4, SMT DEF Allowed
  <2> QED
    BY <2>5, SMT DEF P, Shortest, NoSurrogate
<1> QED
  BY <1>1, <1>2, SMT

LEMMA ThreeBytes ==
    ASSUME NEW b1 \in Byte, NEW b2 \in Byte, NEW b3 \in Byte, NEW b4, NEW point,
           b1 \div 16 = 14, point = ((b1 % 16) * 64 + (b2 % 64)) * 64 + (b3 % 64)
    PROVE  (b2 \div 64 = 2 /\ b3 \div 64 = 2 /\ Allowed(point, 3))
              <=> Encodes(3, b1, b2, b3, b4)
<1> DEFINE C == b2 \in Tails /\ b3 \in Tails
<1>1. (b2 \div 64 = 2 /\ b3 \div 64 = 2) <=> C
  BY Continuations
<1>2. Encodes(3, b1, b2, b3, b4) => C
  BY SMT DEF Encodes, Tails
<1>3. ASSUME C PROVE Allowed(point, 3) <=> Encodes(3, b1, b2, b3, b4)
  <2>1. b1 \in LeadsOfThree /\ b1 % 16 = b1 - 224
    BY Leads
  <2>2. b2 % 64 = b2 - 128 /\ b3 % 64 = b3 - 128
    BY <1>3, Continuations
  <2>3. point = ThreePoint(b1, b2, b3)
    BY <2>1, <2>2, SMT DEF ThreePoint
  <2>4. Allowed(ThreePoint(b1, b2, b3), 3) <=> Encodes(3, b1, b2, b3, b4)
    BY <1>3, <2>1, ThreeAllowed, Zenon
  <2> QED
    BY <2>3, <2>4, SMT
<1> HIDE DEF C
<1> QED
  BY <1>1, <1>2, <1>3, Zenon

FourPoint(b1, b2, b3, b4) == (((b1 - 240) * 64 + (b2 - 128)) * 64 + (b3 - 128)) * 64 + (b4 - 128)

LEMMA FourAllowed ==
    ASSUME NEW b1 \in LeadsOfFour, NEW b2 \in Tails, NEW b3 \in Tails, NEW b4 \in Tails
    PROVE  Allowed(FourPoint(b1, b2, b3, b4), 4) <=> Encodes(4, b1, b2, b3, b4)
<1> DEFINE Ok == b1 <= 244 /\ (b1 = 240 => b2 >= 144) /\ (b1 = 244 => b2 <= 143)
<1>1. Encodes(4, b1, b2, b3, b4) <=> Ok
  BY SMT DEF Encodes, LeadsOfFour, Tails
<1>2. Allowed(FourPoint(b1, b2, b3, b4), 4) <=> Ok
  <2> DEFINE P == FourPoint(b1, b2, b3, b4)
             Shortest == b1 = 240 => b2 >= 144
             Largest == b1 <= 244 /\ (b1 = 244 => b2 <= 143)
  <2>1. P \in Int /\ (P >= 65536 <=> Shortest)
    BY SMT DEF LeadsOfFour, Tails, FourPoint
  <2>2. P <= 1114111 <=> Largest
    BY SMT DEF LeadsOfFour, Tails, FourPoint
  <2>3. Minimum(4) = 65536
    BY SMT DEF Minimum
  <2> HIDE DEF P, Shortest, Largest
  <2>4. Allowed(P, 4) <=> Shortest /\ Largest
    BY <2>1, <2>2, <2>3, SMT DEF Allowed
  <2> QED
    BY <2>4, SMT DEF P, Shortest, Largest
<1> QED
  BY <1>1, <1>2, SMT

LEMMA FourBytes ==
    ASSUME NEW b1 \in Byte, NEW b2 \in Byte, NEW b3 \in Byte, NEW b4 \in Byte, NEW point,
           b1 \div 8 = 30, point = (((b1 % 8) * 64 + (b2 % 64)) * 64 + (b3 % 64)) * 64 + (b4 % 64)
    PROVE  (b2 \div 64 = 2 /\ b3 \div 64 = 2 /\ b4 \div 64 = 2 /\ Allowed(point, 4))
              <=> Encodes(4, b1, b2, b3, b4)
<1> DEFINE C == b2 \in Tails /\ b3 \in Tails /\ b4 \in Tails
<1>1. (b2 \div 64 = 2 /\ b3 \div 64 = 2 /\ b4 \div 64 = 2) <=> C
  BY Continuations
<1>2. Encodes(4, b1, b2, b3, b4) => C
  BY SMT DEF Encodes, Tails
<1>3. ASSUME C PROVE Allowed(point, 4) <=> Encodes(4, b1, b2, b3, b4)
  <2>1. b1 \in LeadsOfFour /\ b1 % 8 = b1 - 240
    BY Leads
  <2>2. b2 % 64 = b2 - 128 /\ b3 % 64 = b3 - 128 /\ b4 % 64 = b4 - 128
    BY <1>3, Continuations
  <2>3. point = FourPoint(b1, b2, b3, b4)
    BY <2>1, <2>2, SMT DEF FourPoint
  <2>4. Allowed(FourPoint(b1, b2, b3, b4), 4) <=> Encodes(4, b1, b2, b3, b4)
    BY <1>3, <2>1, FourAllowed, Zenon
  <2> QED
    BY <2>3, <2>4, SMT
<1> HIDE DEF C
<1> QED
  BY <1>1, <1>2, <1>3, Zenon

(* The first byte decides how long a character can be.                        *)
LEMMA FirstByte ==
    ASSUME NEW b1 \in Byte, NEW b2, NEW b3, NEW b4
    PROVE  /\ Announced(b1) \in {0, 2, 3, 4}
           /\ Announced(b1) = 2 <=> b1 \div 32 = 6
           /\ Announced(b1) = 3 <=> b1 \div 16 = 14
           /\ Announced(b1) = 4 <=> b1 \div 8 = 30
           /\ Encodes(1, b1, b2, b3, b4) <=> b1 < 128
           /\ Encodes(2, b1, b2, b3, b4) => b1 \div 32 = 6
           /\ Encodes(3, b1, b2, b3, b4) => b1 \div 16 = 14
           /\ Encodes(4, b1, b2, b3, b4) => b1 \div 8 = 30
<1>1. /\ b1 \div 32 = 6 <=> b1 \in 192..223
      /\ b1 \div 16 = 14 <=> b1 \in 224..239
      /\ b1 \div 8 = 30 <=> b1 \in 240..247
  BY SMT DEF Byte
<1>2. /\ Encodes(1, b1, b2, b3, b4) <=> b1 < 128
      /\ Encodes(2, b1, b2, b3, b4) => b1 \in 192..223
      /\ Encodes(3, b1, b2, b3, b4) => b1 \in 224..239
      /\ Encodes(4, b1, b2, b3, b4) => b1 \in 240..247
  BY SMT DEF Byte, Encodes
<1>3. ~(b1 \div 32 = 6 /\ b1 \div 16 = 14) /\ ~(b1 \div 32 = 6 /\ b1 \div 8 = 30)
      /\ ~(b1 \div 16 = 14 /\ b1 \div 8 = 30)
  BY SMT DEF Byte
<1> DEFINE two == b1 \div 32 = 6
           three == b1 \div 16 = 14
           four == b1 \div 8 = 30
<1>4. /\ two => Announced(b1) = 2
      /\ three => Announced(b1) = 3
      /\ four => Announced(b1) = 4
      /\ ~two /\ ~three /\ ~four => Announced(b1) = 0
  <2>1. Announced(b1) = CASE two -> 2 [] three -> 3 [] four -> 4 [] OTHER -> 0
    BY Zenon DEF Announced
  <2>2. ~(two /\ three) /\ ~(two /\ four) /\ ~(three /\ four)
    BY <1>3, Zenon
  <2> HIDE DEF two, three, four
  <2> QED
    BY <2>1, <2>2, SMT
<1>5. two \in BOOLEAN /\ three \in BOOLEAN /\ four \in BOOLEAN
  BY Zenon
<1> HIDE DEF two, three, four
<1>6. /\ Announced(b1) \in {0, 2, 3, 4}
      /\ Announced(b1) = 2 <=> two
      /\ Announced(b1) = 3 <=> three
      /\ Announced(b1) = 4 <=> four
  BY <1>4, <1>5, SMT
<1> QED
  BY <1>1, <1>2, <1>6, SMT DEF two, three, four

LEMMA WellFormedIs ==
    ASSUME NEW s, NEW n \in 1..4, Len(s) = n, s[1] \in Byte
    PROVE  WellFormed(s) <=> Encodes(n, s[1], s[2], s[3], s[4])
<1> DEFINE Trail == \A k \in 3..Len(s) : s[k] \in Tails
<1>1. /\ n = 2 => Trail
      /\ n = 3 => (Trail <=> s[3] \in Tails)
      /\ n = 4 => (Trail <=> s[3] \in Tails /\ s[4] \in Tails)
  <2>1. /\ n = 2 => \A k \in 3..Len(s) : FALSE
        /\ n = 3 => 3 \in 3..Len(s) /\ \A k \in 3..Len(s) : k = 3
        /\ n = 4 => 3 \in 3..Len(s) /\ 4 \in 3..Len(s) /\ \A k \in 3..Len(s) : k = 3 \/ k = 4
    BY SMT
  <2>2. n = 2 => Trail
    BY <2>1, Zenon
  <2>3. n = 3 => (Trail <=> s[3] \in Tails)
    BY <2>1, Zenon
  <2>4. n = 4 => (Trail <=> s[3] \in Tails /\ s[4] \in Tails)
    BY <2>1, Zenon
  <2> QED
    BY <2>2, <2>3, <2>4, Zenon
<1>2. /\ Follows(s, 128, 191) <=> s[2] \in 128..191 /\ Trail
      /\ Follows(s, 160, 191) <=> s[2] \in 160..191 /\ Trail
      /\ Follows(s, 128, 159) <=> s[2] \in 128..159 /\ Trail
      /\ Follows(s, 144, 191) <=> s[2] \in 144..191 /\ Trail
      /\ Follows(s, 128, 143) <=> s[2] \in 128..143 /\ Trail
  BY SMT DEF Follows, Tails
<1> HIDE DEF Trail
<1> USE DEF Tails
<1>3. CASE n = 1
  BY <1>3, SMT DEF WellFormed, Encodes
<1>4. CASE n = 2
  BY <1>1, <1>2, <1>4, SMT DEF WellFormed, Encodes
<1>5. CASE n = 3
  BY <1>1, <1>2, <1>5, SMT DEF WellFormed, Encodes
<1>6. CASE n = 4
  BY <1>1, <1>2, <1>6, SMT DEF WellFormed, Encodes
<1> QED
  BY <1>3, <1>4, <1>5, <1>6, SMT

LEMMA WellFormedAt ==
    ASSUME NEW text \in Seq(Byte), NEW i \in 1..Len(text), NEW n \in 1..4, i + n - 1 <= Len(text)
    PROVE  WellFormed(SubSeq(SubSeq(text, i, Len(text)), 1, n)) <=> EncodesAt(text, i, n)
<1> DEFINE r == SubSeq(text, i, Len(text))
           s == SubSeq(r, 1, n)
<1>1. r \in Seq(Byte) /\ Len(r) = Len(text) - i + 1 /\ \A k \in 1..Len(r) : r[k] = text[i - 1 + k]
  <2>1. Len(text) \in Nat /\ Len(text) \in (i - 1)..Len(text)
    OBVIOUS
  <2> QED
    BY <2>1, Between, SMT
<1>2. Len(s) = n /\ \A k \in 1..n : s[k] = r[k]
  <2> HIDE DEF r
  <2>1. Len(text) \in Nat
    OBVIOUS
  <2>2. 1 \in 1..Len(r) /\ n \in (1 - 1)..Len(r)
    BY <1>1, <2>1
  <2>3. Len(s) = n - 1 + 1 /\ \A k \in 1..(n - 1 + 1) : s[k] = r[1 - 1 + k]
    BY <1>1, <2>2, Between
  <2> HIDE DEF s
  <2> QED
    BY <2>3
<1> HIDE DEF s, r
<1>3. \A k \in 1..n : s[k] = text[i + (k - 1)]
  <2>1. Len(text) \in Nat
    OBVIOUS
  <2>2. \A k \in 1..n : k \in 1..Len(r) /\ i - 1 + k = i + (k - 1)
    BY <1>1, <2>1
  <2> QED
    BY <1>1, <1>2, <2>2
<1>4. /\ s[1] = text[i] /\ (n >= 2 => s[2] = text[i + 1])
      /\ (n >= 3 => s[3] = text[i + 2]) /\ (n >= 4 => s[4] = text[i + 3])
  BY <1>3
<1>5. text[i] \in Byte
  BY Elements
<1>6. Encodes(n, s[1], s[2], s[3], s[4]) <=> EncodesAt(text, i, n)
  BY <1>4, EncodesOwnBytes, SMT DEF EncodesAt
<1>7. WellFormed(s) <=> EncodesAt(text, i, n)
  BY <1>2, <1>4, <1>5, <1>6, WellFormedIs, Zenon
<1> QED
  BY <1>7, Zenon DEF s, r

(* What the code takes for a character at i is what the table calls one.      *)
LEMMA ValidIsEncoded ==
    ASSUME NEW text \in Seq(Byte), NEW i \in 1..Len(text)
    PROVE  LET n == Announced(text[i])
           IN /\ n \in {0, 2, 3, 4}
              /\ ValidAt(text, i, n) => i + n - 1 <= Len(text)
              /\ \A k \in 1..4 :
                    i + k - 1 <= Len(text) /\ EncodesAt(text, i, k)
                    <=> \/ k = 1 /\ text[i] < 128
                        \/ k = n /\ ValidAt(text, i, n)
<1> DEFINE n == Announced(text[i])
           Fits(k) == i + k - 1 <= Len(text)
<1>1. Len(text) \in Nat /\ text[i] \in Byte /\ \A k \in 1..4 : Fits(k) => text[i + (k - 1)] \in Byte
  <2>1. \A j \in 1..Len(text) : text[j] \in Byte
    BY Elements
  <2>2. \A k \in 1..4 : Fits(k) => i + (k - 1) \in 1..Len(text)
    OBVIOUS
  <2> QED
    BY <2>1, <2>2
<1>2. /\ n \in {0, 2, 3, 4}
      /\ n = 2 <=> text[i] \div 32 = 6
      /\ n = 3 <=> text[i] \div 16 = 14
      /\ n = 4 <=> text[i] \div 8 = 30
  BY <1>1, FirstByte, Zenon
<1>3. /\ EncodesAt(text, i, 1) <=> text[i] < 128
      /\ EncodesAt(text, i, 2) => n = 2
      /\ EncodesAt(text, i, 3) => n = 3
      /\ EncodesAt(text, i, 4) => n = 4
  BY <1>1, <1>2, FirstByte, Zenon DEF EncodesAt
<1> HIDE DEF n
<1> DEFINE Bytes(k) == \A j \in 1..k : text[i + j] \div 64 = 2
           point == CodePoint(text, i, n)
<1>0. n # 0 => (ValidAt(text, i, n) <=> Fits(n) /\ Bytes(n - 1) /\ Allowed(point, n))
  <2> HIDE DEF Bytes, point
  <2>1. ValidAt(text, i, n) <=> n > 0 /\ Fits(n) /\ Bytes(n - 1) /\ Allowed(point, n)
    BY SMT DEF ValidAt, Allowed, Bytes, point
  <2> QED
    BY <1>2, <2>1
<1>4. ASSUME n = 2 PROVE ValidAt(text, i, n) <=> Fits(2) /\ EncodesAt(text, i, 2)
  <2>0. ValidAt(text, i, n) <=> Fits(2) /\ Bytes(n - 1) /\ Allowed(point, 2)
    <3> HIDE DEF Bytes, point
    <3> QED
      BY <1>0, <1>4
  <2>1. Bytes(n - 1) <=> text[i + 1] \div 64 = 2
    <3>1. n - 1 = 1 /\ \A j \in 1..1 : j \in {1}
      BY <1>4
    <3> QED
      BY <3>1
  <2>2. point =
          (text[i] % 32) * 64 + (text[i + 1] % 64)
    BY <1>4, CodePointIs, SMT DEF LeadBits
  <2>3. Fits(2) => text[i + 1] \in Byte
    BY <1>1
  <2> HIDE DEF point, Bytes, Fits
  <2>4. ASSUME Fits(2)
        PROVE  (text[i + 1] \div 64 = 2 /\ Allowed(point, 2))
               <=> EncodesAt(text, i, 2)
    BY <1>1, <1>2, <1>4, <2>2, <2>3, <2>4, TwoBytes, SMT DEF EncodesAt
  <2> QED
    BY <2>0, <2>1, <2>4, Zenon
<1>5. ASSUME n = 3 PROVE ValidAt(text, i, n) <=> Fits(3) /\ EncodesAt(text, i, 3)
  <2>0. ValidAt(text, i, n) <=> Fits(3) /\ Bytes(n - 1) /\ Allowed(point, 3)
    <3> HIDE DEF Bytes, point
    <3> QED
      BY <1>0, <1>5
  <2>1. Bytes(n - 1) <=> text[i + 1] \div 64 = 2 /\ text[i + 2] \div 64 = 2
    <3>1. n - 1 = 2 /\ \A j \in 1..2 : j \in {1, 2}
      BY <1>5
    <3> QED
      BY <3>1
  <2>2. point =
          ((text[i] % 16) * 64 + (text[i + 1] % 64)) * 64 + (text[i + 2] % 64)
    BY <1>5, CodePointIs, SMT DEF LeadBits
  <2>3. Fits(3) => text[i + 1] \in Byte /\ text[i + 2] \in Byte
    BY <1>1
  <2> HIDE DEF point, Bytes, Fits
  <2>4. ASSUME Fits(3)
        PROVE  (text[i + 1] \div 64 = 2 /\ text[i + 2] \div 64 = 2 /\ Allowed(point, 3))
               <=> EncodesAt(text, i, 3)
    BY <1>1, <1>2, <1>5, <2>2, <2>3, <2>4, ThreeBytes, SMT DEF EncodesAt
  <2> QED
    BY <2>0, <2>1, <2>4, Zenon
<1>6. ASSUME n = 4 PROVE ValidAt(text, i, n) <=> Fits(4) /\ EncodesAt(text, i, 4)
  <2>0. ValidAt(text, i, n) <=> Fits(4) /\ Bytes(n - 1) /\ Allowed(point, 4)
    <3> HIDE DEF Bytes, point
    <3> QED
      BY <1>0, <1>6
  <2>1. Bytes(n - 1) <=> text[i + 1] \div 64 = 2 /\ text[i + 2] \div 64 = 2 /\ text[i + 3] \div 64 = 2
    <3>1. n - 1 = 3 /\ \A j \in 1..3 : j \in {1, 2, 3}
      BY <1>6
    <3> QED
      BY <3>1
  <2>2. point =
          (((text[i] % 8) * 64 + (text[i + 1] % 64)) * 64 + (text[i + 2] % 64)) * 64 + (text[i + 3] % 64)
    BY <1>6, CodePointIs, SMT DEF LeadBits
  <2>3. Fits(4) => text[i + 1] \in Byte /\ text[i + 2] \in Byte /\ text[i + 3] \in Byte
    BY <1>1
  <2> HIDE DEF point, Bytes, Fits
  <2>4. ASSUME Fits(4)
        PROVE  (text[i + 1] \div 64 = 2 /\ text[i + 2] \div 64 = 2 /\ text[i + 3] \div 64 = 2 /\ Allowed(point, 4))
               <=> EncodesAt(text, i, 4)
    <3> DEFINE b2 == text[i + 1]
               b3 == text[i + 2]
               b4 == text[i + 3]
    <3>1. text[i] \in Byte /\ text[i] \div 8 = 30
      BY <1>1, <1>2, <1>6
    <3>2. /\ b2 \in Byte /\ b3 \in Byte /\ b4 \in Byte
          /\ point = (((text[i] % 8) * 64 + (b2 % 64)) * 64 + (b3 % 64)) * 64 + (b4 % 64)
      BY <2>2, <2>3, <2>4, Zenon
    <3> HIDE DEF b2, b3, b4
    <3>3. (b2 \div 64 = 2 /\ b3 \div 64 = 2 /\ b4 \div 64 = 2 /\ Allowed(point, 4))
          <=> Encodes(4, text[i], b2, b3, b4)
      BY <3>1, <3>2, FourBytes, SMT
    <3> QED
      BY <3>3, Zenon DEF EncodesAt, b2, b3, b4
  <2> QED
    BY <2>0, <2>1, <2>4, Zenon
<1>7. n = 0 => ~ValidAt(text, i, n)
  BY SMT DEF ValidAt
<1>8. ValidAt(text, i, n) => Fits(n)
  BY <1>2, <1>4, <1>5, <1>6, <1>7
<1>9. ASSUME NEW k \in 1..4
      PROVE  Fits(k) /\ EncodesAt(text, i, k)
             <=> \/ k = 1 /\ text[i] < 128
                 \/ k = n /\ ValidAt(text, i, n)
  <2>1. Fits(1)
    BY <1>1
  <2> HIDE DEF Fits
  <2>2. k = 1 \/ k = 2 \/ k = 3 \/ k = 4
    OBVIOUS
  <2> QED
    BY <1>2, <1>3, <1>4, <1>5, <1>6, <2>1, <2>2
<1> QED
  BY <1>2, <1>8, <1>9, Zenon DEF n, Fits

(* At every place the code and the table agree whether a character begins      *)
(* there, and how long it is.                                               *)
LEMMA CharactersAre ==
    ASSUME NEW text \in Seq(Byte), NEW i \in 1..Len(text)
    PROVE  LET n == Announced(text[i])
               found == Characters(SubSeq(text, i, Len(text)))
           IN /\ text[i] < 128 => ~ValidAt(text, i, n) /\ found = {1}
              /\ text[i] >= 128 /\ ValidAt(text, i, n) => found = {n}
              /\ text[i] >= 128 /\ ~ValidAt(text, i, n) => found = {}
<1> DEFINE n == Announced(text[i])
           r == SubSeq(text, i, Len(text))
           Fits(k) == i + k - 1 <= Len(text)
<1>1. Len(text) \in Nat /\ Len(r) = Len(text) - i + 1 /\ text[i] \in Nat
  <2>1. Len(text) \in Nat /\ Len(text) \in (i - 1)..Len(text)
    OBVIOUS
  <2>2. Len(r) = Len(text) - i + 1
    BY <2>1, Between
  <2>3. text[i] \in Byte
    BY Elements
  <2> QED
    BY <2>1, <2>2, <2>3, BytesAreNumbers, Zenon
<1>2. \A k \in 1..4 : k <= Len(r) <=> Fits(k)
  <2> HIDE DEF r
  <2> QED
    BY <1>1
<1>3. \A k \in 1..4 : Fits(k) => (WellFormed(SubSeq(r, 1, k)) <=> EncodesAt(text, i, k))
  BY WellFormedAt, Zenon
<1>4. n \in {0, 2, 3, 4} /\ \A k \in 1..4 : Fits(k) /\ EncodesAt(text, i, k)
                                  <=> (k = 1 /\ text[i] < 128) \/ (k = n /\ ValidAt(text, i, n))
  BY ValidIsEncoded, Zenon
<1> HIDE DEF Fits
<1>5. \A k \in 1..4 : k \in Characters(r)
                      <=> (k = 1 /\ text[i] < 128) \/ (k = n /\ ValidAt(text, i, n))
  BY <1>2, <1>3, <1>4, Zenon DEF Characters
<1>6. Characters(r) \subseteq 1..4
  BY DEF Characters
<1>7. text[i] < 128 => ~ValidAt(text, i, n)
  <2>1. text[i] \in Byte
    BY Elements
  <2>2. /\ n = 2 <=> text[i] \div 32 = 6
        /\ n = 3 <=> text[i] \div 16 = 14
        /\ n = 4 <=> text[i] \div 8 = 30
    BY <2>1, FirstByte, Zenon
  <2> HIDE DEF n
  <2>3. ~(n > 0) => ~ValidAt(text, i, n)
    BY ValidIsAnnounced, Zenon
  <2>4. \A b \in Nat : b < 128 => b \div 32 # 6 /\ b \div 16 # 14 /\ b \div 8 # 30
    BY SMT
  <2>5. text[i] < 128 => n = 0
    BY <1>1, <1>4, <2>2, <2>4
  <2> QED
    BY <2>3, <2>5, SMT
<1> HIDE DEF n, r
<1>8. /\ text[i] < 128 => Characters(r) = {1}
      /\ text[i] >= 128 /\ ValidAt(text, i, n) => Characters(r) = {n}
      /\ text[i] >= 128 /\ ~ValidAt(text, i, n) => Characters(r) = {}
  <2>1. ValidAt(text, i, n) => n > 0
    BY ValidIsAnnounced, Zenon
  <2>2. 1 \in 1..4 /\ (n > 0 => n \in 1..4) /\ (text[i] >= 128 <=> ~(text[i] < 128))
    BY <1>1, <1>4, SMT
  <2> QED
    BY <1>5, <1>6, <1>7, <2>1, <2>2, Zenon
<1> QED
  BY <1>7, <1>8, Zenon DEF n, r

(* SanitizeUtf8 does what the Unicode Standard's table says, for every text:   *)
(* every well-formed character is kept, every other byte replaced.           *)
THEOREM SanitizingRepairs == ASSUME NEW text \in Seq(Byte) PROVE SanitizeUtf8(text) = Repaired(text)
<1> DEFINE N == Len(text)
           rest(i) == SubSeq(text, i, N)
           Code(f, i) ==
              IF i > N THEN <<>>
              ELSE LET n == Announced(text[i])
                   IN CASE text[i] < 128       -> <<text[i]>> \o f[i + 1]
                        [] ValidAt(text, i, n) -> SubSeq(text, i, i + n - 1) \o f[i + n]
                        [] OTHER               -> Replacement \o f[i + 1]
           Table(f, i) ==
              IF i > N THEN <<>>
              ELSE IF Characters(rest(i)) = {} THEN Replacement \o f[i + 1]
              ELSE LET n == CHOOSE n \in Characters(rest(i)) : TRUE
                   IN SubSeq(text, i, i + n - 1) \o f[i + n]
<1>1. ASSUME NEW f, NEW i \in 1..(N + 1) PROVE Code(f, i) = Table(f, i)
  <2>1. CASE i > N
    BY <2>1
  <2>2. CASE ~(i > N)
    <3> DEFINE n == Announced(text[i])
    <3>1. i \in 1..Len(text) /\ text[i] \in Nat
      <4>1. i \in 1..Len(text)
        BY <2>2
      <4>2. text[i] \in Byte
        BY <4>1, Elements
      <4> QED
        BY <4>1, <4>2, BytesAreNumbers, Zenon
    <3>2. /\ text[i] < 128 => ~ValidAt(text, i, n) /\ Characters(rest(i)) = {1}
          /\ text[i] >= 128 /\ ValidAt(text, i, n) => Characters(rest(i)) = {n}
          /\ text[i] >= 128 /\ ~ValidAt(text, i, n) => Characters(rest(i)) = {}
      BY <3>1, CharactersAre, Zenon
    <3>3. \A x : (CHOOSE y \in {x} : TRUE) = x
      OBVIOUS
    <3>4. text[i] >= 128 <=> ~(text[i] < 128)
      BY <3>1
    <3>5. SubSeq(text, i, i + 1 - 1) = <<text[i]>>
      <4>1. /\ Len(text) \in Nat /\ i + 1 - 1 = i /\ i \in (i - 1)..Len(text) /\ i - i + 1 = 1
            /\ 1 \in 1..(i - i + 1) /\ i - 1 + 1 = i
        BY <3>1
      <4> DEFINE s == SubSeq(text, i, i)
      <4>2. s \in Seq(Byte) /\ Len(s) = i - i + 1 /\ \A k \in 1..(i - i + 1) : s[k] = text[i - 1 + k]
        BY <3>1, <4>1, Between, SMT
      <4> HIDE DEF s
      <4>3. s[1] = text[i] /\ Len(s) = 1
        BY <4>1, <4>2
      <4>4. s = <<text[i]>>
        BY <4>2, <4>3
      <4> QED
        BY <4>1, <4>4 DEF s
    <3> HIDE DEF n
    <3>6. CASE text[i] < 128
      <4>1. Code(f, i) = <<text[i]>> \o f[i + 1]
        BY <2>2, <3>2, <3>6, Zenon DEF n
      <4>2. Table(f, i) = SubSeq(text, i, i + 1 - 1) \o f[i + 1]
        BY <2>2, <3>2, <3>3, <3>6, Zenon
      <4> QED
        BY <3>5, <4>1, <4>2, Zenon
    <3>7. CASE ~(text[i] < 128) /\ ValidAt(text, i, n)
      <4>1. Code(f, i) = SubSeq(text, i, i + n - 1) \o f[i + n]
        BY <2>2, <3>7, Zenon DEF n
      <4>2. Table(f, i) = SubSeq(text, i, i + n - 1) \o f[i + n]
        BY <2>2, <3>2, <3>3, <3>4, <3>7, Zenon
      <4> QED
        BY <4>1, <4>2, Zenon
    <3>8. CASE ~(text[i] < 128) /\ ~ValidAt(text, i, n)
      <4>1. Code(f, i) = Replacement \o f[i + 1]
        BY <2>2, <3>8, Zenon DEF n
      <4>2. Table(f, i) = Replacement \o f[i + 1]
        BY <2>2, <3>2, <3>4, <3>8, Zenon
      <4> QED
        BY <4>1, <4>2, Zenon
    <3> QED
      BY <3>6, <3>7, <3>8, Zenon
  <2> QED
    BY <2>1, <2>2
<1>2. SanitizeUtf8(text) = (CHOOSE f : f = [i \in 1..(N + 1) |-> Code(f, i)])[1]
  BY Zenon DEF SanitizeUtf8
<1>3. Repaired(text) = (CHOOSE f : f = [i \in 1..(N + 1) |-> Table(f, i)])[1]
  BY Zenon DEF Repaired
<1> HIDE DEF Code, Table
<1>4. \A f : [i \in 1..(N + 1) |-> Code(f, i)] = [i \in 1..(N + 1) |-> Table(f, i)]
  BY <1>1, Zenon
<1>5. (CHOOSE f : f = [i \in 1..(N + 1) |-> Code(f, i)])
        = (CHOOSE f : f = [i \in 1..(N + 1) |-> Table(f, i)])
  BY <1>4, Zenon
<1> QED
  BY <1>2, <1>3, <1>5, Zenon

-----------------------------------------------------------------------------
(* The two parts of a sequence.                                               *)
LEMMA TwoParts ==
    ASSUME NEW S, NEW s \in Seq(S), NEW m \in 0..Len(s)
    PROVE  LET a == SubSeq(s, 1, m)
               t == SubSeq(s, m + 1, Len(s))
           IN /\ a \in Seq(S) /\ Len(a) = m /\ \A i \in 1..m : a[i] = s[i]
              /\ t \in Seq(S) /\ Len(t) = Len(s) - m /\ \A i \in 1..(Len(s) - m) : t[i] = s[m + i]
  OBVIOUS

(* What At takes are elements, and no more of them than there are.            *)
LEMMA AtTakesElements ==
    ASSUME NEW S, NEW s \in Seq(S), NEW K
    PROVE  At(s, K) \in Seq(S) /\ Len(At(s, K)) <= Len(s)
<1>1. Len(s) \in Nat /\ \A i \in 1..Len(s) : s[i] \in S
  BY Elements
<1>2. PICK f : /\ f[0] = <<>>
               /\ \A i \in 1..Len(s) : f[i] = IF i \in K THEN Append(f[i - 1], s[i]) ELSE f[i - 1]
               /\ At(s, K) = f[Len(s)]
  BY <1>1, AtUnfolds
<1> DEFINE Good(i) == f[i] \in Seq(S) /\ Len(f[i]) <= i
           Bad == {i \in 0..Len(s) : ~Good(i)}
<1>3. Bad = {}
  <2>1. SUFFICES ASSUME Bad # {} PROVE FALSE
    OBVIOUS
  <2>2. PICK i \in Bad : \A j \in Bad : i <= j
    <3>1. Bad \subseteq Nat
      BY <1>1
    <3> HIDE DEF Bad
    <3> QED
      BY <2>1, <3>1, LeastExists
  <2>3. i # 0
    <3>1. <<>> \in Seq(S) /\ Len(<<>>) <= 0
      OBVIOUS
    <3>2. Good(0)
      BY <1>2, <3>1, Zenon
    <3> QED
      BY <2>2, <3>2, Zenon
  <2>4. i \in 1..Len(s) /\ i - 1 \in 0..Len(s) /\ ~(i <= i - 1)
    BY <1>1, <2>2, <2>3
  <2>5. Good(i - 1)
    BY <2>2, <2>4, Zenon
  <2>6. f[i] = IF i \in K THEN Append(f[i - 1], s[i]) ELSE f[i - 1]
    BY <1>2, <2>4
  <2>7. s[i] \in S
    BY <1>1, <2>4
  <2>8. Good(i)
    BY <1>1, <2>4, <2>5, <2>6, <2>7
  <2> QED
    BY <2>2, <2>8
<1>4. Good(Len(s))
  BY <1>1, <1>3
<1> QED
  BY <1>2, <1>4

(* Only the places selected matter, and the elements there.                    *)
LEMMA AtAgrees ==
    ASSUME NEW s, NEW t, NEW K, NEW L, Len(s) \in Nat, Len(s) = Len(t),
           \A i \in 1..Len(s) : (i \in K <=> i \in L) /\ (i \in K => s[i] = t[i])
    PROVE  At(s, K) = At(t, L)
<1>1. PICK f : /\ f[0] = <<>>
               /\ \A i \in 1..Len(s) : f[i] = IF i \in K THEN Append(f[i - 1], s[i]) ELSE f[i - 1]
               /\ At(s, K) = f[Len(s)]
  BY AtUnfolds
<1>2. PICK g : /\ g[0] = <<>>
               /\ \A i \in 1..Len(t) : g[i] = IF i \in L THEN Append(g[i - 1], t[i]) ELSE g[i - 1]
               /\ At(t, L) = g[Len(t)]
  BY AtUnfolds
<1> DEFINE Bad == {i \in 0..Len(s) : f[i] # g[i]}
<1>3. Bad = {}
  <2>1. SUFFICES ASSUME Bad # {} PROVE FALSE
    OBVIOUS
  <2>2. PICK i \in Bad : \A j \in Bad : i <= j
    <3>1. Bad \subseteq Nat
      OBVIOUS
    <3> HIDE DEF Bad
    <3> QED
      BY <2>1, <3>1, LeastExists
  <2>3. i # 0
    BY <1>1, <1>2, <2>2
  <2>4. i \in 1..Len(s) /\ i - 1 \in 0..Len(s) /\ ~(i <= i - 1)
    BY <2>2, <2>3
  <2>5. f[i - 1] = g[i - 1]
    BY <2>2, <2>4, Zenon
  <2>6. f[i] = g[i]
    BY <1>1, <1>2, <2>4, <2>5, Zenon
  <2> QED
    BY <2>2, <2>6
<1>4. f[Len(s)] = g[Len(s)]
  BY <1>3
<1> QED
  BY <1>1, <1>2, <1>4

AppendsRight(s, t, x) == Append(s \o t, x) = s \o Append(t, x)

LEMMA AppendsToTheRight ==
    ASSUME NEW S, NEW s \in Seq(S), NEW t \in Seq(S), NEW x \in S
    PROVE  AppendsRight(s, t, x)
  BY DEF AppendsRight

(* What is selected from two texts together is what is selected from each.     *)
SplitsInto(s, K, a, L, t, M) == At(s, K) = At(a, L) \o At(t, M)

LEMMA AtSplits ==
    ASSUME NEW S, NEW s \in Seq(S), NEW a \in Seq(S), NEW t \in Seq(S), NEW K, NEW L, NEW M,
           Len(s) = Len(a) + Len(t),
           \A i \in 1..Len(a) : (i \in K <=> i \in L) /\ s[i] = a[i],
           \A i \in 1..Len(t) : (Len(a) + i \in K <=> i \in M) /\ s[Len(a) + i] = t[i]
    PROVE  SplitsInto(s, K, a, L, t, M)
<1> DEFINE q == Len(a)
<1>0. Len(s) \in Nat /\ q \in Nat /\ Len(t) \in Nat
  OBVIOUS
<1>1. PICK f : /\ f[0] = <<>>
               /\ \A i \in 1..Len(s) : f[i] = IF i \in K THEN Append(f[i - 1], s[i]) ELSE f[i - 1]
               /\ At(s, K) = f[Len(s)]
  BY <1>0, AtUnfolds
<1>2. PICK g : /\ g[0] = <<>>
               /\ \A i \in 1..Len(a) : g[i] = IF i \in L THEN Append(g[i - 1], a[i]) ELSE g[i - 1]
               /\ At(a, L) = g[Len(a)]
  BY <1>0, AtUnfolds
<1>3. PICK h : /\ h[0] = <<>>
               /\ \A i \in 1..Len(t) : h[i] = IF i \in M THEN Append(h[i - 1], t[i]) ELSE h[i - 1]
               /\ At(t, M) = h[Len(t)]
  BY <1>0, AtUnfolds
<1> DEFINE Before == {i \in 0..q : f[i] # g[i]}
           Good(i) == h[i] \in Seq(S) /\ f[q + i] = g[q] \o h[i]
           Behind == {i \in 0..Len(t) : ~Good(i)}
<1>4. Before = {}
  <2>1. SUFFICES ASSUME Before # {} PROVE FALSE
    OBVIOUS
  <2>2. PICK i \in Before : \A j \in Before : i <= j
    <3>1. Before \subseteq Nat
      BY <1>0
    <3> HIDE DEF Before
    <3> QED
      BY <2>1, <3>1, LeastExists
  <2>3. i # 0
    BY <1>1, <1>2, <2>2
  <2>4. i \in 1..Len(a) /\ i \in 1..Len(s) /\ i - 1 \in 0..q /\ ~(i <= i - 1)
    BY <1>0, <2>2, <2>3
  <2>5. f[i - 1] = g[i - 1]
    BY <2>2, <2>4, Zenon
  <2>6. f[i] = IF i \in K THEN Append(f[i - 1], s[i]) ELSE f[i - 1]
    BY <1>1, <2>4, Zenon
  <2>7. g[i] = IF i \in L THEN Append(g[i - 1], a[i]) ELSE g[i - 1]
    BY <1>2, <2>4, Zenon
  <2>8. (i \in K <=> i \in L) /\ s[i] = a[i]
    BY <2>4, Zenon
  <2>9. f[i] = g[i]
    BY <2>5, <2>6, <2>7, <2>8, Zenon
  <2> QED
    BY <2>2, <2>9
<1>5. f[q] = g[q] /\ g[q] \in Seq(S)
  <2>1. At(a, L) \in Seq(S)
    BY AtTakesElements
  <2> QED
    BY <1>0, <1>2, <1>4, <2>1
<1> HIDE DEF q
<1>6. Behind = {}
  <2>1. SUFFICES ASSUME Behind # {} PROVE FALSE
    OBVIOUS
  <2>2. PICK i \in Behind : \A j \in Behind : i <= j
    <3>1. \A j \in 0..Len(t) : j \in Nat
      BY <1>0
    <3>2. Behind \subseteq Nat
      BY <3>1, Zenon
    <3> HIDE DEF Behind
    <3> QED
      BY <2>1, <3>2, LeastExists
  <2>3. Good(0)
    <3>1. q + 0 = q /\ g[q] \o <<>> = g[q] /\ <<>> \in Seq(S)
      BY <1>0, <1>5
    <3> QED
      BY <1>3, <1>5, <3>1, Zenon
  <2>4. i \in 0..Len(t) /\ ~Good(i)
    BY <2>2, Zenon
  <2>5. i # 0
    BY <2>3, <2>4, Zenon
  <2>6. Len(s) = q + Len(t)
    BY Zenon DEF q
  <2> HIDE DEF Good
  <2>7. i \in 1..Len(t) /\ q + i \in 1..Len(s) /\ i - 1 \in 0..Len(t) /\ ~(i <= i - 1)
        /\ (q + i) - 1 = q + (i - 1)
    BY <1>0, <2>4, <2>5, <2>6
  <2>8. h[i - 1] \in Seq(S) /\ f[q + (i - 1)] = g[q] \o h[i - 1]
    BY <2>2, <2>7, Zenon DEF Good
  <2>9. h[i] = IF i \in M THEN Append(h[i - 1], t[i]) ELSE h[i - 1]
    BY <1>3, <2>7, Zenon
  <2>10. f[q + i] = IF q + i \in K THEN Append(f[q + (i - 1)], s[q + i]) ELSE f[q + (i - 1)]
    BY <1>1, <2>7, Zenon
  <2>11. (q + i \in K <=> i \in M) /\ s[q + i] = t[i]
    BY <2>7, Zenon DEF q
  <2>12. t[i] \in S
    BY <2>7, Elements, Zenon
  <2>13. Append(g[q] \o h[i - 1], t[i]) = g[q] \o Append(h[i - 1], t[i])
    <3> DEFINE y == h[i - 1]
               x == t[i]
               w == g[q]
    <3>1. w \in Seq(S) /\ y \in Seq(S) /\ x \in S
      BY <1>5, <2>8, <2>12, Zenon
    <3> HIDE DEF w, x, y
    <3>2. AppendsRight(w, y, x)
      BY <3>1, AppendsToTheRight, Zenon
    <3> QED
      BY <3>2, Zenon DEF AppendsRight, w, x, y
  <2>14. Append(h[i - 1], t[i]) \in Seq(S)
    <3> DEFINE y == h[i - 1]
               x == t[i]
    <3>1. y \in Seq(S) /\ x \in S
      BY <2>8, <2>12, Zenon
    <3> HIDE DEF x, y
    <3>2. Append(y, x) \in Seq(S)
      BY <3>1
    <3> QED
      BY <3>2, Zenon DEF x, y
  <2>15. Good(i)
    BY <2>8, <2>9, <2>10, <2>11, <2>13, <2>14, Zenon DEF Good
  <2> QED
    BY <2>4, <2>15, Zenon
<1>7. f[q + Len(t)] = g[q] \o h[Len(t)]
  <2>1. Len(t) \in 0..Len(t)
    BY <1>0
  <2> QED
    BY <1>6, <2>1, Zenon
<1>8. Len(s) = q + Len(t)
  BY Zenon DEF q
<1> QED
  BY <1>1, <1>2, <1>3, <1>5, <1>7, <1>8, Zenon DEF q, SplitsInto

LEMMA AtTakesNothing ==
    ASSUME NEW s, NEW K, Len(s) \in Nat, \A i \in 1..Len(s) : i \notin K
    PROVE  At(s, K) = <<>>
<1>1. PICK f : /\ f[0] = <<>>
               /\ \A i \in 1..Len(s) : f[i] = IF i \in K THEN Append(f[i - 1], s[i]) ELSE f[i - 1]
               /\ At(s, K) = f[Len(s)]
  BY AtUnfolds
<1> DEFINE Bad == {i \in 0..Len(s) : f[i] # <<>>}
<1>2. Bad = {}
  <2>1. SUFFICES ASSUME Bad # {} PROVE FALSE
    OBVIOUS
  <2>2. PICK i \in Bad : \A j \in Bad : i <= j
    <3>1. Bad \subseteq Nat
      OBVIOUS
    <3> HIDE DEF Bad
    <3> QED
      BY <2>1, <3>1, LeastExists
  <2>3. i # 0
    BY <1>1, <2>2
  <2>4. i \in 1..Len(s) /\ i - 1 \in 0..Len(s) /\ ~(i <= i - 1)
    BY <2>2, <2>3
  <2>5. f[i - 1] = <<>>
    BY <2>2, <2>4, Zenon
  <2>6. f[i] = <<>>
    BY <1>1, <2>4, <2>5, Zenon
  <2> QED
    BY <2>2, <2>6
<1>3. Len(s) \in 0..Len(s)
  OBVIOUS
<1> QED
  BY <1>1, <1>2, <1>3, Zenon

LEMMA AppendsOne ==
    ASSUME NEW S, NEW y \in Seq(S), NEW T, NEW z \in Seq(T), NEW x \in S, NEW u \in T,
           Len(y) <= Len(z)
    PROVE  /\ Append(y, x) \in Seq(S) /\ Append(z, u) \in Seq(T)
           /\ Len(Append(y, x)) <= Len(Append(z, u)) /\ Len(y) <= Len(Append(z, u))
  OBVIOUS

(* Who selects more places has at least as many elements.                      *)
LEMMA AtGrows ==
    ASSUME NEW S, NEW s \in Seq(S), NEW T, NEW t \in Seq(T), NEW K, NEW L, Len(s) <= Len(t),
           \A i \in 1..Len(s) : i \in K => i \in L
    PROVE  Len(At(s, K)) <= Len(At(t, L))
<1> DEFINE m == Len(s)
           n == Len(t)
<1>0. m \in Nat /\ n \in Nat /\ m <= n
  OBVIOUS
<1>1. PICK f : /\ f[0] = <<>>
               /\ \A i \in 1..m : f[i] = IF i \in K THEN Append(f[i - 1], s[i]) ELSE f[i - 1]
               /\ At(s, K) = f[m]
  BY <1>0, AtUnfolds, SMT
<1>2. PICK g : /\ g[0] = <<>>
               /\ \A i \in 1..n : g[i] = IF i \in L THEN Append(g[i - 1], t[i]) ELSE g[i - 1]
               /\ At(t, L) = g[n]
  BY <1>0, AtUnfolds, Zenon
<1>3. (\A i \in 1..m : s[i] \in S) /\ \A i \in 1..n : t[i] \in T
  BY Elements
<1>4. \A i \in 1..m : i \in K => i \in L
  OBVIOUS
<1> HIDE DEF m, n
<1> DEFINE F(i) == f[IF i <= m THEN i ELSE m]
           Good(i) == F(i) \in Seq(S) /\ g[i] \in Seq(T) /\ Len(F(i)) <= Len(g[i])
           Bad == {i \in 0..n : ~Good(i)}
<1>5. Bad = {}
  <2>1. SUFFICES ASSUME Bad # {} PROVE FALSE
    OBVIOUS
  <2>2. PICK i \in Bad : \A j \in Bad : i <= j
    <3>1. \A j \in 0..n : j \in Nat
      BY <1>0
    <3>2. Bad \subseteq Nat
      BY <3>1, Zenon
    <3> HIDE DEF Bad
    <3> QED
      BY <2>1, <3>2, LeastExists
  <2>3. i \in 0..n /\ ~Good(i)
    BY <2>2, Zenon
  <2>4. i # 0
    <3>1. 0 <= m /\ <<>> \in Seq(S) /\ <<>> \in Seq(T) /\ Len(<<>>) <= Len(<<>>)
      BY <1>0
    <3>2. F(0) = <<>>
      BY <1>1, <3>1, Zenon
    <3>3. Good(0)
      BY <1>2, <3>1, <3>2, Zenon
    <3> QED
      BY <2>3, <3>3, Zenon
  <2>5. i \in 1..n /\ i - 1 \in 0..n /\ ~(i <= i - 1)
    BY <1>0, <2>3, <2>4
  <2>6. Good(i - 1)
    BY <2>2, <2>5, Zenon
  <2>7. g[i] = IF i \in L THEN Append(g[i - 1], t[i]) ELSE g[i - 1]
    BY <1>2, <2>5, Zenon
  <2>8. t[i] \in T
    BY <1>3, <2>5, Zenon
  <2>9. CASE i <= m
    <3>1. i \in 1..m /\ i - 1 <= m
      BY <1>0, <2>5, <2>9
    <3>2. F(i) = f[i] /\ F(i - 1) = f[i - 1]
      BY <2>9, <3>1, Zenon
    <3>3. f[i] = IF i \in K THEN Append(f[i - 1], s[i]) ELSE f[i - 1]
      BY <1>1, <3>1, Zenon
    <3>4. s[i] \in S /\ (i \in K => i \in L)
      BY <1>3, <1>4, <3>1, Zenon
    <3> DEFINE y == f[i - 1]
               z == g[i - 1]
               x == s[i]
               u == t[i]
    <3>5. y \in Seq(S) /\ z \in Seq(T) /\ Len(y) <= Len(z) /\ x \in S /\ u \in T
      BY <2>6, <2>8, <3>2, <3>4, Zenon
    <3> HIDE DEF y, z, x, u
    <3>6. /\ Append(y, x) \in Seq(S) /\ Append(z, u) \in Seq(T)
          /\ Len(Append(y, x)) <= Len(Append(z, u)) /\ Len(y) <= Len(Append(z, u))
      BY <3>5, AppendsOne
    <3>7. /\ f[i] = IF i \in K THEN Append(y, x) ELSE y
          /\ g[i] = IF i \in L THEN Append(z, u) ELSE z
      BY <2>7, <3>3, Zenon DEF y, z, x, u
    <3>8. f[i] \in Seq(S) /\ g[i] \in Seq(T) /\ Len(f[i]) <= Len(g[i])
      BY <3>4, <3>5, <3>6, <3>7, Zenon
    <3> QED
      BY <2>3, <3>2, <3>8, Zenon
  <2>10. CASE ~(i <= m)
    <3>1. i - 1 <= m => i - 1 = m
      BY <1>0, <2>5, <2>10
    <3>2. F(i) = f[m] /\ F(i - 1) = f[m]
      BY <2>10, <3>1, Zenon
    <3> DEFINE y == f[m]
               z == g[i - 1]
               u == t[i]
    <3>3. y \in Seq(S) /\ z \in Seq(T) /\ Len(y) <= Len(z) /\ u \in T
      BY <2>6, <2>8, <3>2, Zenon
    <3>4. g[i] = IF i \in L THEN Append(z, u) ELSE z
      BY <2>7, Zenon
    <3> HIDE DEF y, z, u
    <3>5. Append(z, u) \in Seq(T) /\ Len(y) <= Len(Append(z, u))
      BY <3>3
    <3>6. g[i] \in Seq(T) /\ Len(y) <= Len(g[i])
      BY <3>3, <3>4, <3>5, Zenon
    <3> QED
      BY <2>3, <3>2, <3>3, <3>6, Zenon DEF y
  <2> QED
    BY <2>9, <2>10
<1>6. Good(n)
  <2>1. n \in 0..n
    BY <1>0
  <2> QED
    BY <1>5, <2>1, Zenon
<1>7. F(n) = f[m]
  <2>1. n <= m => n = m
    BY <1>0
  <2> QED
    BY <2>1, Zenon
<1> QED
  BY <1>1, <1>2, <1>6, <1>7, Zenon

(* Selecting no place but the last gives one element at most.                  *)
LEMMA AtTakesTheLast ==
    ASSUME NEW S, NEW s \in Seq(S), NEW K, \A i \in 1..(Len(s) - 1) : i \notin K
    PROVE  Len(At(s, K)) <= 1
<1>1. CASE Len(s) = 0
  <2>1. Len(At(s, K)) <= Len(s)
    BY AtTakesElements
  <2>2. At(s, K) \in Seq(S)
    BY AtTakesElements
  <2>3. Len(At(s, K)) \in Nat
    BY <2>2
  <2> QED
    BY <1>1, <2>1, <2>3
<1>2. CASE Len(s) # 0
  <2> DEFINE n == Len(s)
             a == SubSeq(s, 1, n - 1)
             t == SubSeq(s, n - 1 + 1, n)
             M == {i \in {1} : n \in K}
  <2>1. n \in Nat /\ n >= 1 /\ n - 1 \in 0..n
    BY <1>2
  <2>2. /\ a \in Seq(S) /\ Len(a) = n - 1 /\ \A i \in 1..(n - 1) : a[i] = s[i]
        /\ t \in Seq(S) /\ Len(t) = n - (n - 1) /\ \A i \in 1..(n - (n - 1)) : t[i] = s[n - 1 + i]
    BY <2>1, TwoParts, Zenon
  <2> HIDE DEF a, t
  <2>3. Len(s) = Len(a) + Len(t)
    BY <2>1, <2>2
  <2>4. \A i \in 1..Len(a) : (i \in K <=> i \in K) /\ s[i] = a[i]
    BY <2>2
  <2>5. \A i \in 1..Len(t) : (Len(a) + i \in K <=> i \in M) /\ s[Len(a) + i] = t[i]
    <3>1. \A i \in 1..Len(t) : i = 1 /\ Len(a) + i = n
      BY <2>1, <2>2
    <3>2. s[n] = t[1]
      BY <2>1, <2>2
    <3> HIDE DEF n
    <3> QED
      BY <3>1, <3>2
  <2> HIDE DEF M
  <2>6. At(s, K) = At(a, K) \o At(t, M)
    <3>1. SplitsInto(s, K, a, K, t, M)
      BY <2>2, <2>3, <2>4, <2>5, AtSplits, Zenon
    <3> QED
      BY <3>1, Zenon DEF SplitsInto
  <2>7. At(a, K) = <<>>
    BY <2>1, <2>2, AtTakesNothing
  <2>8. At(t, M) \in Seq(S) /\ Len(At(t, M)) <= Len(t)
    BY <2>2, AtTakesElements, Zenon
  <2>9. Len(t) = 1
    BY <2>1, <2>2
  <2> DEFINE y == At(t, M)
  <2> HIDE DEF y
  <2>10. y \in Seq(S) => Len(<<>> \o y) = Len(y)
    OBVIOUS
  <2> QED
    BY <2>6, <2>7, <2>8, <2>9, <2>10, Zenon DEF y
<1> QED
  BY <1>1, <1>2

-----------------------------------------------------------------------------
(* Newlines and lines.                                                        *)
NewlinesOf(text) == {i \in 1..Len(text) : text[i] = Newline}

LEMMA NewlinesAre == ASSUME NEW text PROVE Newlines(text) = Len(At(text, NewlinesOf(text)))
  BY Zenon DEF Newlines, NewlinesOf

(* The newlines of two texts are counted one after the other.                 *)
LEMMA NewlinesAdd ==
    ASSUME NEW a \in Seq(Byte), NEW t \in Seq(Byte)
    PROVE  Newlines(a \o t) = Newlines(a) + Newlines(t) /\ Newlines(a) \in 0..Len(a)
<1> DEFINE s == a \o t
           K == NewlinesOf(s)
           L == NewlinesOf(a)
           M == NewlinesOf(t)
<1>1. /\ s \in Seq(Byte) /\ Len(s) = Len(a) + Len(t)
      /\ \A i \in 1..Len(a) : s[i] = a[i]
      /\ \A i \in 1..Len(t) : s[Len(a) + i] = t[i]
      /\ Len(a) \in Nat /\ Len(t) \in Nat
  BY Joined, Zenon
<1>2. /\ \A i : i \in K <=> i \in 1..Len(s) /\ s[i] = Newline
      /\ \A i : i \in L <=> i \in 1..Len(a) /\ a[i] = Newline
      /\ \A i : i \in M <=> i \in 1..Len(t) /\ t[i] = Newline
  BY Zenon DEF NewlinesOf
<1> HIDE DEF s, K, L, M
<1>3. (\A i \in 1..Len(a) : i \in 1..Len(s)) /\ \A i \in 1..Len(t) : Len(a) + i \in 1..Len(s)
  BY <1>1
<1>4. /\ \A i \in 1..Len(a) : (i \in K <=> i \in L) /\ s[i] = a[i]
      /\ \A i \in 1..Len(t) : (Len(a) + i \in K <=> i \in M) /\ s[Len(a) + i] = t[i]
  BY <1>1, <1>2, <1>3, Zenon
<1>5. SplitsInto(s, K, a, L, t, M)
  BY <1>1, <1>4, AtSplits, Zenon
<1>6. /\ At(a, L) \in Seq(Byte) /\ Len(At(a, L)) <= Len(a)
      /\ At(t, M) \in Seq(Byte) /\ Len(At(t, M)) <= Len(t)
  BY AtTakesElements, Zenon
<1> DEFINE x == At(a, L)
           y == At(t, M)
<1> HIDE DEF x, y
<1>7. x \in Seq(Byte) /\ y \in Seq(Byte) => Len(x \o y) = Len(x) + Len(y) /\ Len(x) \in Nat
  OBVIOUS
<1>8. Newlines(s) = Len(x \o y) /\ Newlines(a) = Len(x) /\ Newlines(t) = Len(y)
  BY <1>5, NewlinesAre, Zenon DEF SplitsInto, x, y, K, L, M
<1>9. x \in Seq(Byte) /\ y \in Seq(Byte) /\ Len(x) <= Len(a)
  BY <1>6, Zenon DEF x, y
<1>10. Newlines(s) = Newlines(a) + Newlines(t) /\ Newlines(a) \in 0..Len(a)
  BY <1>1, <1>7, <1>8, <1>9
<1> QED
  BY <1>10, Zenon DEF s

(* A line begins after the last newline before its end.                        *)
IsBegin(text, end, i) ==
    /\ i = 1 \/ text[i - 1] = Newline
    /\ \A j \in i..(end - 1) : text[j] # Newline

LEMMA BeginsOnce ==
    ASSUME NEW text, NEW end \in Nat, NEW i \in 1..end, NEW j \in 1..end,
           IsBegin(text, end, i), IsBegin(text, end, j)
    PROVE  i = j
<1>1. ASSUME NEW k \in 1..end, NEW l \in 1..end, IsBegin(text, end, k), IsBegin(text, end, l), k < l
      PROVE  FALSE
  <2>1. l - 1 \in k..(end - 1) /\ l # 1
    BY <1>1
  <2>2. text[l - 1] = Newline
    BY <1>1, <2>1, Zenon DEF IsBegin
  <2>3. text[l - 1] # Newline
    BY <1>1, <2>1, Zenon DEF IsBegin
  <2> QED
    BY <2>2, <2>3
<1>2. i < j \/ j < i \/ i = j
  OBVIOUS
<1> QED
  BY <1>1, <1>2, Zenon

LEMMA Begins ==
    ASSUME NEW text, NEW end \in Nat \ {0}
    PROVE  Begin(text, end) \in 1..end /\ IsBegin(text, end, Begin(text, end))
<1>1. \E i \in 1..end : IsBegin(text, end, i)
  <2> DEFINE D == {d \in 1..(end - 1) : text[end - d] = Newline}
  <2>1. CASE D = {}
    <3>1. \A j \in 1..(end - 1) : end - j \in 1..(end - 1) /\ end - (end - j) = j
      OBVIOUS
    <3>2. \A j \in 1..(end - 1) : text[j] # Newline
      BY <2>1, <3>1, Zenon
    <3>3. 1 \in 1..end
      OBVIOUS
    <3> QED
      BY <3>2, <3>3, Zenon DEF IsBegin
  <2>2. CASE D # {}
    <3>1. \A d \in 1..(end - 1) : d \in Nat
      OBVIOUS
    <3>2. D \subseteq Nat
      BY <3>1, Zenon
    <3>3. PICK d \in D : \A e \in D : d <= e
      <4> HIDE DEF D
      <4> QED
        BY <2>2, <3>2, LeastExists
    <3>4. d \in 1..(end - 1) /\ text[end - d] = Newline
      BY <3>3, Zenon
    <3> DEFINE i == end - d + 1
    <3>5. i \in 1..end /\ i - 1 = end - d
      BY <3>4
    <3>6. \A j \in i..(end - 1) : text[j] # Newline
      <4>1. SUFFICES ASSUME NEW j \in i..(end - 1) PROVE text[j] # Newline
        BY Zenon
      <4>2. end - j \in 1..(end - 1) /\ end - (end - j) = j /\ ~(d <= end - j)
        BY <3>4
      <4> QED
        BY <3>3, <4>2, Zenon
    <3>7. IsBegin(text, end, i)
      BY <3>4, <3>5, <3>6, Zenon DEF IsBegin
    <3> QED
      BY <3>5, <3>7, Zenon
  <2> QED
    BY <2>1, <2>2
<1>2. Begin(text, end) = CHOOSE i \in 1..end : IsBegin(text, end, i)
  BY Zenon DEF Begin, IsBegin
<1> QED
  BY <1>1, <1>2, Zenon

LEMMA LineIsText ==
    ASSUME NEW text \in Seq(Byte), NEW end \in 1..(Len(text) + 1)
    PROVE  LineAt(text, end) \in Seq(Byte) /\ WithoutReturn(LineAt(text, end)) \in Seq(Byte)
<1> DEFINE b == Begin(text, end)
           l == LineAt(text, end)
<1>1. b \in 1..end
  <2>1. end \in Nat \ {0}
    OBVIOUS
  <2> QED
    BY <2>1, Begins, Zenon
<1>2. l = SubSeq(text, b, end - 1)
  BY Zenon DEF LineAt
<1> HIDE DEF b, l
<1>3. l \in Seq(Byte)
  <2>1. CASE b = end
    <3>1. \A k \in 1..(Len(text) + 1) : SubSeq(text, k, k - 1) = <<>> /\ <<>> \in Seq(Byte)
      OBVIOUS
    <3> QED
      BY <1>2, <2>1, <3>1, Zenon
  <2>2. CASE b # end
    <3>1. b \in 1..Len(text) /\ end - 1 \in (b - 1)..Len(text)
      BY <1>1, <2>2
    <3> QED
      BY <1>2, <3>1, Between, SMT
  <2> QED
    BY <2>1, <2>2
<1>4. WithoutReturn(l) \in Seq(Byte)
  <2>1. CASE l # <<>> /\ l[Len(l)] = CarriageReturn
    <3>1. Len(l) - 1 \in 0..Len(l)
      BY <1>3, <2>1
    <3>2. SubSeq(l, 1, Len(l) - 1) \in Seq(Byte)
      BY <1>3, <3>1, TwoParts, Zenon
    <3> QED
      BY <2>1, <3>2, Zenon DEF WithoutReturn
  <2>2. CASE ~(l # <<>> /\ l[Len(l)] = CarriageReturn)
    BY <1>3, <2>2, Zenon DEF WithoutReturn
  <2> QED
    BY <2>1, <2>2, Zenon
<1> QED
  BY <1>3, <1>4, Zenon DEF l

LinesOf(text) == [end \in 1..(Len(text) + 1) |-> WithoutReturn(LineAt(text, end))]
Wanted(text)  == {end \in Ends(text) : keyword = <<>> \/ Contained(keyword, LinesOf(text)[end])}

LEMMA MatchingIs ==
    ASSUME NEW text \in Seq(Byte)
    PROVE  /\ Matching(text) = At(LinesOf(text), Wanted(text))
           /\ LinesOf(text) \in Seq(Seq(Byte)) /\ Len(LinesOf(text)) = Len(text) + 1
           /\ \A end \in 1..(Len(text) + 1) : LinesOf(text)[end] = WithoutReturn(LineAt(text, end))
           /\ Matching(text) \in Seq(Seq(Byte))
<1>1. Matching(text) = At(LinesOf(text), Wanted(text))
  BY Zenon DEF Matching, LinesOf, Wanted
<1>2. Len(text) + 1 \in Nat
  OBVIOUS
<1>3. \A end \in 1..(Len(text) + 1) : LinesOf(text)[end] = WithoutReturn(LineAt(text, end))
  BY Zenon DEF LinesOf
<1>4. LinesOf(text) \in [1..(Len(text) + 1) -> Seq(Byte)]
  BY LineIsText, Zenon DEF LinesOf
<1>5. LinesOf(text) \in Seq(Seq(Byte)) /\ Len(LinesOf(text)) = Len(text) + 1
  BY <1>2, <1>4, FunctionIsSeq, Zenon
<1>6. At(LinesOf(text), Wanted(text)) \in Seq(Seq(Byte))
  BY <1>5, AtTakesElements, Zenon
<1> QED
  BY <1>1, <1>3, <1>5, <1>6, Zenon

LEMMA EndsAre ==
    ASSUME NEW text \in Seq(Byte), NEW i
    PROVE  i \in Ends(text) <=>
              \/ i \in 1..Len(text) /\ text[i] = Newline
              \/ i = Len(text) + 1 /\ Len(text) # 0 /\ text[Len(text)] # Newline
<1>1. text # <<>> <=> Len(text) # 0
  OBVIOUS
<1> QED
  BY <1>1, Zenon DEF Ends

LEMMA FirstEnd ==
    ASSUME NEW text \in Seq(Byte)
    PROVE  \E f \in 1..(Len(text) + 1) : /\ f <= Len(text) => text[f] = Newline
                                         /\ \A i \in 1..(f - 1) : text[i] # Newline
<1> DEFINE n == Len(text)
           D == {i \in 1..(n + 1) : i <= n => text[i] = Newline}
<1>1. n \in Nat
  OBVIOUS
<1> HIDE DEF n
<1>2. D \subseteq Nat
  <2>1. \A i \in 1..(n + 1) : i \in Nat
    BY <1>1
  <2> QED
    BY <2>1, Zenon
<1>3. D # {}
  <2>1. n + 1 \in 1..(n + 1) /\ ~(n + 1 <= n)
    BY <1>1
  <2> QED
    BY <2>1, Zenon
<1>4. PICK f \in D : \A i \in D : f <= i
  <2> HIDE DEF D
  <2> QED
    BY <1>2, <1>3, LeastExists
<1>5. f \in 1..(n + 1) /\ (f <= n => text[f] = Newline)
  BY <1>4, Zenon
<1>6. \A i \in 1..(f - 1) : text[i] # Newline
  <2>1. \A i \in 1..(f - 1) : i \in 1..(n + 1) /\ ~(f <= i)
    BY <1>1, <1>5
  <2> QED
    BY <1>4, <2>1, Zenon
<1> QED
  BY <1>5, <1>6, Zenon DEF n

(* Two texts that share an end share the lines that end after a newline of it. *)
LEMMA LinesAreShared ==
    ASSUME NEW o \in Seq(Byte), NEW c \in Seq(Byte), NEW p \in Nat, Len(o) = p + Len(c),
           \A i \in 1..Len(c) : o[p + i] = c[i],
           NEW f \in 1..Len(c), c[f] = Newline, NEW e \in (f + 1)..(Len(c) + 1)
    PROVE  LineAt(o, p + e) = LineAt(c, e) /\ (p + e \in Ends(o) <=> e \in Ends(c))
<1> DEFINE n == Len(c)
           m == Len(o)
           E == p + e
<1>1. /\ n \in Nat /\ m = p + n /\ E = p + e /\ e \in Nat /\ f \in Nat
      /\ 1 <= f /\ f <= n /\ f < e /\ e <= n + 1
  OBVIOUS
<1> HIDE DEF n, m, E
<1> DEFINE b == Begin(c, e)
           B == p + b
<1>2. b \in 1..e /\ IsBegin(c, e, b)
  <2>1. e \in Nat \ {0}
    BY <1>1
  <2> QED
    BY <2>1, Begins, Zenon
<1>3. b \in Nat /\ 1 <= b /\ b <= e /\ b > f
  <2>1. ~(f \in b..(e - 1))
    BY <1>2, Zenon DEF IsBegin
  <2> HIDE DEF b
  <2> QED
    BY <1>1, <1>2, <2>1
<1> HIDE DEF b
<1>4. B \in 1..E /\ B = p + b
  BY <1>1, <1>3
<1> HIDE DEF B
<1>5. IsBegin(o, E, B)
  <2>1. b - 1 \in 1..n /\ B - 1 = p + (b - 1) /\ b # 1
    BY <1>1, <1>3, <1>4
  <2>2. o[B - 1] = c[b - 1]
    BY <2>1, Zenon DEF n
  <2>3. o[B - 1] = Newline
    BY <1>2, <2>1, <2>2, Zenon DEF IsBegin
  <2>4. \A j \in B..(E - 1) : o[j] # Newline
    <3>1. SUFFICES ASSUME NEW j \in B..(E - 1) PROVE o[j] # Newline
      BY Zenon
    <3> DEFINE k == j - p
    <3>2. k \in b..(e - 1) /\ k \in 1..n /\ p + k = j
      BY <1>1, <1>3, <1>4
    <3> HIDE DEF k
    <3>3. o[j] = c[k]
      BY <3>2, Zenon DEF n
    <3> QED
      BY <1>2, <3>2, <3>3, Zenon DEF IsBegin
  <2> QED
    BY <2>3, <2>4, Zenon DEF IsBegin
<1>6. Begin(o, E) = B
  <2>1. E \in Nat \ {0} /\ E \in Nat
    BY <1>1
  <2> QED
    BY <1>4, <1>5, <2>1, Begins, BeginsOnce, Zenon
<1>7. LineAt(o, E) = LineAt(c, e)
  <2> DEFINE x == SubSeq(o, B, E - 1)
             y == SubSeq(c, b, e - 1)
  <2>1. LineAt(o, E) = x /\ LineAt(c, e) = y
    BY <1>6, Zenon DEF LineAt, b
  <2>2. CASE b = e
    <3>1. B = E
      BY <1>1, <1>4, <2>2
    <3>2. \A k \in Nat : SubSeq(o, k, k - 1) = <<>> /\ SubSeq(c, k, k - 1) = <<>>
      OBVIOUS
    <3>3. B \in Nat
      BY <1>1, <1>3, <1>4
    <3>4. x = <<>> /\ y = <<>>
      BY <1>1, <2>2, <3>1, <3>2, <3>3, Zenon
    <3> QED
      BY <2>1, <3>4, Zenon
  <2>3. CASE b # e
    <3>1. /\ b \in 1..n /\ e - 1 \in (b - 1)..n
          /\ B \in 1..m /\ E - 1 \in (B - 1)..m
      BY <1>1, <1>3, <1>4, <2>3
    <3> DEFINE l == E - 1
               r == e - 1
    <3> HIDE DEF l, r
    <3>9. B \in 1..Len(o) /\ l \in (B - 1)..Len(o) /\ b \in 1..Len(c) /\ r \in (b - 1)..Len(c)
      BY <3>1, Zenon DEF m, n, l, r
    <3>10. /\ SubSeq(o, B, l) \in Seq(Byte) /\ Len(SubSeq(o, B, l)) = l - B + 1
           /\ \A i \in 1..(l - B + 1) : SubSeq(o, B, l)[i] = o[B - 1 + i]
      BY <3>9, Between, SMT
    <3>11. /\ SubSeq(c, b, r) \in Seq(Byte) /\ Len(SubSeq(c, b, r)) = r - b + 1
           /\ \A i \in 1..(r - b + 1) : SubSeq(c, b, r)[i] = c[b - 1 + i]
      BY <3>9, Between, SMT
    <3>2. /\ x \in Seq(Byte) /\ Len(x) = E - 1 - B + 1
          /\ \A i \in 1..(E - 1 - B + 1) : x[i] = o[B - 1 + i]
      BY <3>10, Zenon DEF l
    <3>3. /\ y \in Seq(Byte) /\ Len(y) = e - 1 - b + 1
          /\ \A i \in 1..(e - 1 - b + 1) : y[i] = c[b - 1 + i]
      BY <3>11, Zenon DEF r
    <3> HIDE DEF x, y
    <3>4. E - 1 - B + 1 = e - 1 - b + 1
      BY <1>1, <1>3, <1>4
    <3>5. \A i \in 1..(e - 1 - b + 1) : b - 1 + i \in 1..n /\ B - 1 + i = p + (b - 1 + i)
      BY <1>1, <1>3, <1>4
    <3>6. \A i \in 1..(e - 1 - b + 1) : o[B - 1 + i] = c[b - 1 + i]
      BY <3>5, Zenon DEF n
    <3>7. Len(x) = Len(y) /\ \A i \in 1..Len(x) : x[i] = y[i]
      <4>1. Len(x) = Len(y) /\ Len(x) = e - 1 - b + 1
        BY <3>2, <3>3, <3>4, Zenon
      <4>2. ASSUME NEW i \in 1..(e - 1 - b + 1) PROVE x[i] = y[i]
        <5>1. x[i] = o[B - 1 + i]
          BY <3>2, <3>4, Zenon
        <5>2. y[i] = c[b - 1 + i]
          BY <3>3, Zenon
        <5> QED
          BY <3>6, <5>1, <5>2, Zenon
      <4> QED
        BY <4>1, <4>2, Zenon
    <3>8. x = y
      BY <3>2, <3>3, <3>7, SameElements, Zenon
    <3> QED
      BY <2>1, <3>8, Zenon
  <2> QED
    BY <2>2, <2>3
<1>8. E \in Ends(o) <=> e \in Ends(c)
  <2>1. /\ E \in Ends(o) <=> \/ E \in 1..m /\ o[E] = Newline
                             \/ E = m + 1 /\ m # 0 /\ o[m] # Newline
        /\ e \in Ends(c) <=> \/ e \in 1..n /\ c[e] = Newline
                             \/ e = n + 1 /\ n # 0 /\ c[n] # Newline
    BY EndsAre, Zenon DEF m, n
  <2>2. /\ (E \in 1..m) <=> (e \in 1..n)
        /\ (E = m + 1) <=> (e = n + 1)
        /\ m # 0 /\ n # 0 /\ n \in 1..n
    BY <1>1
  <2>3. (e \in 1..n => o[E] = c[e]) /\ o[m] = c[n]
    BY <1>1, <2>2, Zenon DEF n
  <2> QED
    BY <2>1, <2>2, <2>3, Zenon
<1> QED
  BY <1>7, <1>8, Zenon DEF E

(* The lines of the end of a text are those of the text, but for the first.    *)
Shares(o, c) ==
    \E X, Y, Z \in Seq(Seq(Byte)) :
       /\ Matching(c) = X \o Y /\ Matching(o) = Z \o Y
       /\ Len(X) <= 1 /\ (keyword = <<>> => Len(Y) + 1 >= Newlines(c))

LEMMA LinesOfTheEnd ==
    ASSUME NEW o \in Seq(Byte), NEW c \in Seq(Byte), NEW p \in Nat, Len(o) = p + Len(c),
           \A i \in 1..Len(c) : o[p + i] = c[i]
    PROVE  Shares(o, c)
<1> DEFINE n == Len(c)
           m == Len(o)
           lc == LinesOf(c)
           lo == LinesOf(o)
           wc == Wanted(c)
           wo == Wanted(o)
<1>1. n \in Nat /\ m = p + n
  OBVIOUS
<1>2. PICK f \in 1..(n + 1) : (f <= n => c[f] = Newline) /\ \A i \in 1..(f - 1) : c[i] # Newline
  BY FirstEnd, Zenon
<1>3. /\ Matching(c) = At(lc, wc) /\ lc \in Seq(Seq(Byte)) /\ Len(lc) = n + 1
      /\ Matching(o) = At(lo, wo) /\ lo \in Seq(Seq(Byte)) /\ Len(lo) = m + 1
      /\ \A end \in 1..(n + 1) : lc[end] = WithoutReturn(LineAt(c, end))
      /\ \A end \in 1..(m + 1) : lo[end] = WithoutReturn(LineAt(o, end))
  BY MatchingIs, Zenon
<1>4. \A e \in (f + 1)..(n + 1) : lo[p + e] = lc[e] /\ (p + e \in wo <=> e \in wc)
  <2>1. SUFFICES ASSUME NEW e \in (f + 1)..(n + 1)
                 PROVE  lo[p + e] = lc[e] /\ (p + e \in wo <=> e \in wc)
    BY Zenon
  <2> HIDE DEF n, m
  <2>2. f \in 1..n /\ f <= n /\ e \in 1..(n + 1) /\ p + e \in 1..(m + 1)
    BY <1>1, <1>2
  <2>3. LineAt(o, p + e) = LineAt(c, e) /\ (p + e \in Ends(o) <=> e \in Ends(c))
    BY <1>2, <2>2, LinesAreShared, Zenon DEF n
  <2> HIDE DEF lc, lo
  <2>4. lo[p + e] = lc[e]
    BY <1>3, <2>2, <2>3, Zenon
  <2>5. p + e \in wo <=> e \in wc
    BY <2>3, <2>4, Zenon DEF Wanted, lo, lc
  <2> QED
    BY <2>4, <2>5
<1> HIDE DEF n, m, lc, lo
<1> DEFINE a == SubSeq(lc, 1, f)
           z == SubSeq(lo, 1, p + f)
           t == SubSeq(lc, f + 1, Len(lc))
           M == {i \in 1..(n + 1 - f) : f + i \in wc}
<1>5. /\ a \in Seq(Seq(Byte)) /\ Len(a) = f /\ \A i \in 1..f : a[i] = lc[i]
      /\ t \in Seq(Seq(Byte)) /\ Len(t) = n + 1 - f /\ \A i \in 1..(n + 1 - f) : t[i] = lc[f + i]
  <2>1. f \in 0..(n + 1)
    BY <1>1, <1>2
  <2>2. f \in 0..Len(lc)
    BY <1>3, <2>1, Zenon
  <2>3. /\ a \in Seq(Seq(Byte)) /\ Len(a) = f /\ \A i \in 1..f : a[i] = lc[i]
        /\ t \in Seq(Seq(Byte)) /\ Len(t) = Len(lc) - f /\ \A i \in 1..(Len(lc) - f) : t[i] = lc[f + i]
    BY <1>3, <2>2, TwoParts, Zenon
  <2>4. Len(lc) = n + 1
    BY <1>3, Zenon
  <2> HIDE DEF a, t
  <2> DEFINE k == Len(lc) - f
  <2>5. k = n + 1 - f
    BY <1>1, <2>4
  <2>6. Len(t) = k /\ \A i \in 1..k : t[i] = lc[f + i]
    BY <2>3, Zenon
  <2> HIDE DEF k
  <2>7. Len(t) = n + 1 - f /\ \A i \in 1..(n + 1 - f) : t[i] = lc[f + i]
    BY <2>5, <2>6, Zenon
  <2> QED
    BY <2>3, <2>7, Zenon
<1>6. z \in Seq(Seq(Byte)) /\ Len(z) = p + f /\ \A i \in 1..(p + f) : z[i] = lo[i]
  <2> DEFINE k == p + f
  <2>1. k \in 0..(m + 1)
    BY <1>1, <1>2
  <2> HIDE DEF k
  <2>2. k \in 0..Len(lo)
    BY <1>3, <2>1, Zenon
  <2>3. SubSeq(lo, 1, k) \in Seq(Seq(Byte)) /\ Len(SubSeq(lo, 1, k)) = k
        /\ \A i \in 1..k : SubSeq(lo, 1, k)[i] = lo[i]
    BY <1>3, <2>2, TwoParts, SMT
  <2> QED
    BY <2>3, Zenon DEF k
<1> HIDE DEF a, z, t, wc, wo
<1>7. \A i \in 1..(n + 1 - f) : f + i \in (f + 1)..(n + 1) /\ p + f + i = p + (f + i)
  BY <1>1, <1>2
<1>8. SplitsInto(lc, wc, a, wc, t, M)
  <2>1. Len(lc) = Len(a) + Len(t)
    BY <1>1, <1>2, <1>3, <1>5
  <2>2. \A i \in 1..Len(a) : (i \in wc <=> i \in wc) /\ lc[i] = a[i]
    BY <1>5, Zenon
  <2>3. \A i \in 1..Len(t) : (Len(a) + i \in wc <=> i \in M) /\ lc[Len(a) + i] = t[i]
    BY <1>5, Zenon
  <2> QED
    BY <1>3, <1>5, <2>1, <2>2, <2>3, AtSplits, Zenon
<1>9. SplitsInto(lo, wo, z, wo, t, M)
  <2>1. Len(lo) = Len(z) + Len(t)
    BY <1>1, <1>2, <1>3, <1>5, <1>6
  <2>2. \A i \in 1..Len(z) : (i \in wo <=> i \in wo) /\ lo[i] = z[i]
    BY <1>6, Zenon
  <2>3. \A i \in 1..Len(t) : (Len(z) + i \in wo <=> i \in M) /\ lo[Len(z) + i] = t[i]
    <3>1. SUFFICES ASSUME NEW i \in 1..(n + 1 - f)
                   PROVE  (p + f + i \in wo <=> i \in M) /\ lo[p + f + i] = t[i]
      BY <1>5, <1>6, Zenon
    <3> DEFINE e == f + i
               E == p + f + i
    <3>2. e \in (f + 1)..(n + 1) /\ E = p + e
      BY <1>7, Zenon
    <3>3. (i \in M <=> e \in wc) /\ t[i] = lc[e]
      BY <1>5, Zenon
    <3> HIDE DEF e, E, M
    <3>4. (E \in wo <=> i \in M) /\ lo[E] = t[i]
      BY <1>4, <3>2, <3>3, Zenon
    <3> QED
      BY <3>4, Zenon DEF E
  <2> QED
    BY <1>3, <1>5, <1>6, <2>1, <2>2, <2>3, AtSplits, Zenon
<1> DEFINE X == At(a, wc)
           Y == At(t, M)
           Z == At(z, wo)
<1>10. X \in Seq(Seq(Byte)) /\ Y \in Seq(Seq(Byte)) /\ Z \in Seq(Seq(Byte))
  BY <1>5, <1>6, AtTakesElements, Zenon
<1>11. Matching(c) = X \o Y /\ Matching(o) = Z \o Y
  BY <1>3, <1>8, <1>9, Zenon DEF SplitsInto
<1>12. Len(X) <= 1
  <2>1. \A i \in 1..(Len(a) - 1) : i \notin wc
    <3>1. SUFFICES ASSUME NEW i \in 1..(f - 1) PROVE i \notin Ends(c)
      BY <1>5, Zenon DEF wc, Wanted
    <3>2. c[i] # Newline /\ i # n + 1
      BY <1>1, <1>2
    <3> QED
      BY <3>2, EndsAre, Zenon DEF n
  <2> QED
    BY <1>5, <2>1, AtTakesTheLast, Zenon
<1>13. keyword = <<>> => Len(Y) + 1 >= Newlines(c)
  <2>1. SUFFICES ASSUME keyword = <<>> PROVE Len(Y) + 1 >= Newlines(c)
    BY Zenon
  <2> DEFINE K == NewlinesOf(c)
  <2>2. \A i \in 1..n : i \in K <=> c[i] = Newline
    BY Zenon DEF NewlinesOf, n
  <2>3. Newlines(c) = Len(At(c, K))
    BY NewlinesAre, Zenon
  <2> HIDE DEF K
  <2>4. Len(Y) \in Nat
    <3> HIDE DEF Y
    <3> QED
      BY <1>10
  <2>5. CASE f = n + 1
    <3>1. \A i \in 1..Len(c) : i \notin K
      <4>1. f - 1 = n
        BY <1>1, <2>5
      <4> QED
        BY <1>2, <2>2, <4>1, Zenon DEF n
    <3>2. At(c, K) = <<>>
      BY <1>1, <3>1, AtTakesNothing, Zenon DEF n
    <3>3. Len(<<>>) = 0
      OBVIOUS
    <3>4. Newlines(c) = 0
      BY <2>3, <3>2, <3>3, Zenon
    <3> HIDE DEF Y
    <3> QED
      BY <2>4, <3>4
  <2>6. CASE f # n + 1
    <3> DEFINE h == SubSeq(c, 1, f)
               r == SubSeq(c, f + 1, n)
               N == {i \in 1..(n - f) : f + i \in K}
    <3>1. f \in 0..n /\ f \in 1..n
      BY <1>1, <1>2, <2>6
    <3>2. /\ h \in Seq(Byte) /\ Len(h) = f /\ \A i \in 1..f : h[i] = c[i]
          /\ r \in Seq(Byte) /\ Len(r) = n - f /\ \A i \in 1..(n - f) : r[i] = c[f + i]
      BY <3>1, TwoParts, Zenon DEF n
    <3> HIDE DEF h, r
    <3>3. SplitsInto(c, K, h, K, r, N)
      <4>1. Len(c) = Len(h) + Len(r)
        <5>1. n = Len(h) + Len(r)
          BY <1>1, <3>1, <3>2
        <5> QED
          BY <5>1, Zenon DEF n
      <4>2. \A i \in 1..Len(h) : (i \in K <=> i \in K) /\ c[i] = h[i]
        BY <3>2, Zenon
      <4>3. \A i \in 1..Len(r) : (Len(h) + i \in K <=> i \in N) /\ c[Len(h) + i] = r[i]
        BY <3>2, Zenon
      <4> QED
        BY <3>2, <4>1, <4>2, <4>3, AtSplits, Zenon
    <3>4. Len(At(h, K)) <= 1
      <4>1. \A i \in 1..(f - 1) : i \in 1..n
        BY <1>1, <3>1
      <4>2. \A i \in 1..(Len(h) - 1) : i \notin K
        BY <1>2, <2>2, <3>2, <4>1, Zenon
      <4> QED
        BY <3>2, <4>2, AtTakesTheLast, Zenon
    <3>5. Len(At(r, N)) <= Len(Y)
      <4>1. Len(r) <= Len(t)
        BY <1>1, <1>5, <3>1, <3>2
      <4>2. \A i \in 1..Len(r) : i \in N => i \in M
        <5>1. SUFFICES ASSUME NEW i \in 1..(n - f), i \in N PROVE i \in M
          BY <3>2, Zenon
        <5>2. i \in 1..(n + 1 - f) /\ f + i \in 1..n
          BY <1>1, <3>1
        <5>3. c[f + i] = Newline
          BY <2>2, <5>1, <5>2, Zenon
        <5>4. f + i \in Ends(c)
          BY <5>2, <5>3, EndsAre, Zenon DEF n
        <5>5. f + i \in wc
          BY <2>1, <5>4, Zenon DEF Wanted, wc
        <5> QED
          BY <5>2, <5>5, Zenon
      <4> QED
        BY <1>5, <3>2, <4>1, <4>2, AtGrows, Zenon
    <3> DEFINE v == At(h, K)
               w == At(r, N)
    <3>6. v \in Seq(Byte) /\ w \in Seq(Byte) /\ At(c, K) = v \o w
      <4>1. v \in Seq(Byte) /\ w \in Seq(Byte)
        BY <3>2, AtTakesElements, Zenon
      <4> QED
        BY <3>3, <4>1, Zenon DEF SplitsInto
    <3>7. Len(v) <= 1 /\ Len(w) <= Len(Y)
      BY <3>4, <3>5, Zenon
    <3> HIDE DEF v, w, Y
    <3>8. Len(v \o w) = Len(v) + Len(w) /\ Len(v) \in Nat /\ Len(w) \in Nat
      BY <3>6, Joined, Zenon
    <3>9. Newlines(c) = Len(v) + Len(w)
      BY <2>3, <3>6, <3>8, Zenon
    <3> QED
      BY <2>4, <3>7, <3>8, <3>9
  <2> QED
    BY <2>5, <2>6
<1> HIDE DEF X, Y, Z
<1> QED
  BY <1>10, <1>11, <1>12, <1>13, Zenon DEF Shares

(* The last n elements.                                                       *)
LEMMA LastOfIs ==
    ASSUME NEW S, NEW s \in Seq(S), NEW n \in Nat
    PROVE  /\ LastOf(n, s) \in Seq(S) /\ Len(LastOf(n, s)) = IF Len(s) > n THEN n ELSE Len(s)
           /\ \A k \in 1..Len(LastOf(n, s)) : LastOf(n, s)[k] = s[Len(s) - Len(LastOf(n, s)) + k]
<1>0. Len(s) \in Nat
  OBVIOUS
<1>1. CASE Len(s) > n
  <2> DEFINE m == Len(s) - n
             r == SubSeq(s, m + 1, Len(s))
  <2>1. m \in 0..Len(s) /\ Len(s) - m = n /\ Len(s) - n + 1 = m + 1
    BY <1>0, <1>1
  <2>2. LastOf(n, s) = r
    BY <1>1, <2>1, Zenon DEF LastOf
  <2> HIDE DEF m
  <2>3. r \in Seq(S) /\ Len(r) = Len(s) - m /\ \A i \in 1..(Len(s) - m) : r[i] = s[m + i]
    BY <2>1, TwoParts, Zenon
  <2> HIDE DEF r
  <2>4. Len(r) = n /\ Len(s) - Len(r) = m
    BY <1>0, <2>1, <2>3 DEF m
  <2>5. \A i \in 1..Len(r) : r[i] = s[Len(s) - Len(r) + i]
    BY <2>3, <2>4
  <2> QED
    BY <1>1, <2>2, <2>3, <2>4, <2>5, Zenon
<1>2. CASE ~(Len(s) > n)
  <2>1. LastOf(n, s) = s
    BY <1>2, Zenon DEF LastOf
  <2>2. \A k \in 1..Len(s) : Len(s) - Len(s) + k = k
    BY <1>0
  <2>3. \A k \in 1..Len(s) : s[k] = s[Len(s) - Len(s) + k]
    BY <2>2, Zenon
  <2> QED
    BY <1>2, <2>1, <2>3, Zenon
<1> QED
  BY <1>1, <1>2, Zenon

(* Two sequences that end alike have the same last elements, as far as they do. *)
LEMMA EndsAlike ==
    ASSUME NEW S, NEW a \in Seq(S), NEW b \in Seq(S), NEW x \in Nat, NEW y \in Nat, NEW z \in Nat,
           Len(a) = x + y, Len(b) = z + y, \A k \in 1..y : a[x + k] = b[z + k], NEW n \in Nat
    PROVE  /\ y >= n => LastOf(n, a) = LastOf(n, b)
           /\ x <= 1 /\ LastOf(n, a) # <<>> => EndsWith(LastOf(n, b), Tail(LastOf(n, a)))
<1> DEFINE A == LastOf(n, a)
           B == LastOf(n, b)
           la == Len(A)
           lb == Len(B)
<1>1. /\ A \in Seq(S) /\ la = IF Len(a) > n THEN n ELSE Len(a)
      /\ \A k \in 1..la : A[k] = a[Len(a) - la + k]
      /\ B \in Seq(S) /\ lb = IF Len(b) > n THEN n ELSE Len(b)
      /\ \A k \in 1..lb : B[k] = b[Len(b) - lb + k]
  BY LastOfIs, Zenon
<1> HIDE DEF A, B
<1>2. la \in Nat /\ lb \in Nat /\ Len(A) = la /\ Len(B) = lb
  BY <1>1
<1> HIDE DEF la, lb
<1>3. /\ la <= n /\ la <= x + y /\ lb <= n /\ lb <= z + y
      /\ (y >= n => la = n /\ lb = n) /\ (la <= y + 1 => la <= lb + 1)
  <2>1. la = IF x + y > n THEN n ELSE x + y
    BY <1>1, Zenon
  <2>2. lb = IF z + y > n THEN n ELSE z + y
    BY <1>1, Zenon
  <2> QED
    BY <1>2, <2>1, <2>2
<1>4. (\A k \in 1..la : A[k] = a[x + y - la + k]) /\ \A k \in 1..lb : B[k] = b[z + y - lb + k]
  <2>1. /\ \A k \in 1..la : Len(a) - la + k = x + y - la + k
        /\ \A k \in 1..lb : Len(b) - lb + k = z + y - lb + k
    BY <1>2
  <2>2. \A k \in 1..la : A[k] = a[x + y - la + k]
    BY <1>1, <2>1, Zenon
  <2>3. \A k \in 1..lb : B[k] = b[z + y - lb + k]
    BY <1>1, <2>1, Zenon
  <2> QED
    BY <2>2, <2>3
<1>5. \A k \in 1..y : a[x + k] = b[z + k]
  OBVIOUS
<1>6. ASSUME y >= n PROVE A = B
  <2>1. ASSUME NEW k \in 1..n PROVE A[k] = B[k]
    <3> DEFINE j == y - n + k
    <3>1. /\ j \in 1..y /\ x + y - la + k = x + j /\ z + y - lb + k = z + j
          /\ k \in 1..la /\ k \in 1..lb
      BY <1>2, <1>3, <1>6
    <3> HIDE DEF j
    <3> QED
      BY <1>4, <1>5, <3>1, Zenon
  <2>2. Len(A) = Len(B) /\ Len(A) = n
    BY <1>2, <1>3, <1>6
  <2> QED
    BY <1>1, <2>1, <2>2, SameElements, Zenon
<1>7. ASSUME x <= 1, A # <<>> PROVE EndsWith(B, Tail(A))
  <2> DEFINE t == la - 1
             q == lb - t
             s == SubSeq(B, q + 1, Len(B))
  <2>1. la # 0
    BY <1>1, <1>2, <1>7
  <2>2. /\ t \in Nat /\ t <= y /\ t <= lb /\ q \in 0..lb /\ Len(B) - q = t /\ la = t + 1
    BY <1>2, <1>3, <1>7, <2>1
  <2>3. Tail(A) \in Seq(S) /\ Len(Tail(A)) = t /\ \A k \in 1..t : Tail(A)[k] = A[k + 1]
    BY <1>1, <1>2, <1>7
  <2> HIDE DEF q
  <2>4. s \in Seq(S) /\ Len(s) = Len(B) - q /\ \A i \in 1..(Len(B) - q) : s[i] = B[q + i]
    <3>1. q \in 0..Len(B)
      BY <1>2, <2>2, Zenon
    <3> QED
      BY <1>1, <3>1, TwoParts, Zenon
  <2> HIDE DEF s
  <2>5. Len(s) = t /\ \A i \in 1..t : s[i] = B[q + i]
    BY <2>2, <2>4
  <2> HIDE DEF t
  <2>6. ASSUME NEW k \in 1..t PROVE Tail(A)[k] = s[k]
    <3> DEFINE j == y - t + k
    <3>1. /\ j \in 1..y /\ x + y - la + (k + 1) = x + j
          /\ k + 1 \in 1..la /\ q + k \in 1..lb
      BY <1>2, <2>2
    <3>2. z + y - lb + (q + k) = z + j
      BY <1>2, <2>2 DEF q
    <3> HIDE DEF j
    <3>3. Tail(A)[k] = a[x + j]
      <4>1. Tail(A)[k] = A[k + 1]
        BY <2>3, Zenon
      <4>2. A[k + 1] = a[x + y - la + (k + 1)]
        BY <1>4, <3>1, Zenon
      <4> QED
        BY <3>1, <4>1, <4>2, Zenon
    <3>4. s[k] = b[z + j]
      <4>1. s[k] = B[q + k]
        BY <2>5, Zenon
      <4>2. B[q + k] = b[z + y - lb + (q + k)]
        BY <1>4, <3>1, Zenon
      <4> QED
        BY <3>2, <4>1, <4>2, Zenon
    <3> QED
      BY <1>5, <3>1, <3>3, <3>4, Zenon
  <2>7. Tail(A) = s
    BY <2>3, <2>4, <2>5, <2>6, SameElements, Zenon
  <2> QED
    BY <1>2, <2>2, <2>7, Zenon DEF EndsWith, s
<1> QED
  BY <1>6, <1>7, Zenon DEF A, B

(* The lines as they are shown.                                               *)
Shown(all)  == [k \in 1..Len(all) |-> Repaired(Clip(all[k]))]
ShownLines  == {Repaired(Clip(l)) : l \in Seq(Byte)}

LEMMA ShownAre ==
    ASSUME NEW all \in Seq(Seq(Byte))
    PROVE  /\ Shown(all) \in Seq(ShownLines) /\ Len(Shown(all)) = Len(all)
           /\ \A k \in 1..Len(all) : Shown(all)[k] = Repaired(Clip(all[k]))
<1>1. \A k \in 1..Len(all) : all[k] \in Seq(Byte)
  BY Elements, Zenon
<1>2. Shown(all) \in [1..Len(all) -> ShownLines]
  BY <1>1, Zenon DEF Shown, ShownLines
<1>3. Len(all) \in Nat
  OBVIOUS
<1>4. \A k \in 1..Len(all) : Shown(all)[k] = Repaired(Clip(all[k]))
  BY Zenon DEF Shown
<1> QED
  BY <1>2, <1>3, <1>4, FunctionIsSeq, Zenon

LEMMA ShownEndsAlike ==
    ASSUME NEW X \in Seq(Seq(Byte)), NEW Y \in Seq(Seq(Byte)), NEW Z \in Seq(Seq(Byte)), NEW n \in Nat
    PROVE  LET a == LastOf(n, Shown(X \o Y))
               b == LastOf(n, Shown(Z \o Y))
           IN /\ Len(Y) >= n => a = b
              /\ Len(X) <= 1 /\ a # <<>> => EndsWith(b, Tail(a))
<1> DEFINE x == Len(X)
           y == Len(Y)
           z == Len(Z)
           p == X \o Y
           q == Z \o Y
           a == Shown(p)
           b == Shown(q)
<1>1. /\ p \in Seq(Seq(Byte)) /\ Len(p) = x + y /\ \A k \in 1..y : p[x + k] = Y[k]
      /\ q \in Seq(Seq(Byte)) /\ Len(q) = z + y /\ \A k \in 1..y : q[z + k] = Y[k]
      /\ x \in Nat /\ y \in Nat /\ z \in Nat
  <2>1. /\ p \in Seq(Seq(Byte)) /\ Len(p) = x + y /\ \A k \in 1..y : p[x + k] = Y[k]
        /\ x \in Nat /\ y \in Nat
    BY Joined
  <2>2. /\ q \in Seq(Seq(Byte)) /\ Len(q) = z + y /\ \A k \in 1..y : q[z + k] = Y[k]
        /\ z \in Nat
    BY Joined
  <2> HIDE DEF x, y, z, p, q
  <2> QED
    BY <2>1, <2>2, Zenon
<1> HIDE DEF x, y, z, p, q
<1>2. /\ a \in Seq(ShownLines) /\ Len(a) = Len(p)
      /\ \A k \in 1..Len(p) : a[k] = Repaired(Clip(p[k]))
      /\ b \in Seq(ShownLines) /\ Len(b) = Len(q)
      /\ \A k \in 1..Len(q) : b[k] = Repaired(Clip(q[k]))
  <2> HIDE DEF p, q
  <2>1. a \in Seq(ShownLines) /\ Len(a) = Len(p) /\ \A k \in 1..Len(p) : a[k] = Repaired(Clip(p[k]))
    BY <1>1, ShownAre, Zenon
  <2>2. b \in Seq(ShownLines) /\ Len(b) = Len(q) /\ \A k \in 1..Len(q) : b[k] = Repaired(Clip(q[k]))
    BY <1>1, ShownAre, Zenon
  <2> QED
    BY <2>1, <2>2, Zenon
<1> HIDE DEF a, b
<1>3. \A k \in 1..y : x + k \in 1..Len(p) /\ z + k \in 1..Len(q)
  BY <1>1
<1>4. ASSUME NEW k \in 1..y PROVE a[x + k] = b[z + k]
  <2>1. a[x + k] = Repaired(Clip(p[x + k])) /\ p[x + k] = Y[k]
    BY <1>1, <1>2, <1>3, Zenon
  <2>2. b[z + k] = Repaired(Clip(q[z + k])) /\ q[z + k] = Y[k]
    BY <1>1, <1>2, <1>3, Zenon
  <2> QED
    BY <2>1, <2>2, Zenon
<1>5. Len(a) = x + y /\ Len(b) = z + y
  BY <1>1, <1>2, Zenon
<1>6. /\ y >= n => LastOf(n, a) = LastOf(n, b)
      /\ x <= 1 /\ LastOf(n, a) # <<>> => EndsWith(LastOf(n, b), Tail(LastOf(n, a)))
  BY <1>1, <1>2, <1>4, <1>5, EndsAlike, Zenon
<1> QED
  BY <1>6, Zenon DEF x, y, z, p, q, a, b

-----------------------------------------------------------------------------
(* The inductive invariant.  What has been read is the end of the file as it    *)
(* was opened; as long as the scan goes on, that file is still there, but for  *)
(* what was appended, or it is cut; an answer is made of what was read.       *)
LeftToRead ==
    /\ file \in Seq(Byte) /\ contents = SubSeq(opened, position + 1, Len(opened))
    /\ newlines = Newlines(contents)

Underway ==
    /\ phase = "request" => ~cut /\ opened = <<>> /\ scanned = 0
    /\ phase # "done" => error = "none" /\ lines = <<>>
    /\ phase # "request" /\ error = "none" => max \in 1..MaximumLines
    /\ phase = "scan" /\ cut => file = <<>>
    /\ phase = "scan" /\ ~cut =>
          Len(opened) <= Len(file) /\ \A i \in 1..Len(opened) : file[i] = opened[i]

Chosen == LET all == Matching(contents) IN [k \in 1..Len(all) |-> SanitizeUtf8(Clip(all[k]))]

Selected ==
    phase = "done" /\ error = "none" =>
       ~Scanning /\ lines = LastOf(max, Chosen) /\ truncated = Truncated(Matching(contents))

ReadInv == ReadTypeOK /\ LeftToRead /\ Underway /\ Selected

LEMMA JoinIs ==
    ASSUME NEW S, NEW s \in Seq(S), NEW t \in Seq(S), NEW r, r = s \o t
    PROVE  /\ r \in Seq(S) /\ Len(r) = Len(s) + Len(t)
           /\ \A i \in 1..Len(s) : r[i] = s[i]
           /\ \A i \in 1..Len(t) : r[Len(s) + i] = t[i]
  OBVIOUS

(* A text that begins as another, a block that ends at p and what is behind p.  *)
StartsWith(t, o) == Len(o) <= Len(t) /\ \A i \in 1..Len(o) : t[i] = o[i]

Block(t, p, size) == SubSeq(t, p - size + 1, p)
Rest(o, p) == SubSeq(o, p + 1, Len(o))

LEMMA BlockIs ==
    ASSUME NEW o \in Seq(Byte), NEW t \in Seq(Byte), StartsWith(t, o), NEW p \in 1..Len(o),
           NEW size \in 1..p
    PROVE  /\ Block(t, p, size) \in Seq(Byte) /\ Len(Block(t, p, size)) = size
           /\ Rest(o, p) \in Seq(Byte) /\ Len(Rest(o, p)) = Len(o) - p
           /\ Rest(o, p - size) = Block(t, p, size) \o Rest(o, p)
<1> DEFINE b == p - size + 1
           chunk == SubSeq(t, b, p)
           c == SubSeq(o, p + 1, Len(o))
           s == SubSeq(o, b, Len(o))
           j == chunk \o c
           n == Len(o)
<1>1. /\ n \in Nat /\ b \in 1..Len(t) /\ p \in (b - 1)..Len(t) /\ b \in 1..n /\ n \in (b - 1)..n
      /\ p \in 0..n /\ p - b + 1 = size /\ b - 1 = p - size
  BY DEF StartsWith
<1> HIDE DEF b
<1>2. chunk \in Seq(Byte) /\ Len(chunk) = p - b + 1 /\ \A i \in 1..(p - b + 1) : chunk[i] = t[b - 1 + i]
  BY <1>1, Between, SMT
<1>3. c \in Seq(Byte) /\ Len(c) = n - p /\ \A i \in 1..(n - p) : c[i] = o[p + i]
  BY <1>1, TwoParts, Zenon
<1>4. s \in Seq(Byte) /\ Len(s) = n - b + 1 /\ \A i \in 1..(n - b + 1) : s[i] = o[b - 1 + i]
  BY <1>1, Between, SMT
<1>5. \A i \in 1..n : t[i] = o[i]
  BY Zenon DEF StartsWith
<1> HIDE DEF chunk, c, s, n
<1>6. /\ j \in Seq(Byte) /\ Len(j) = Len(chunk) + Len(c)
      /\ \A i \in 1..Len(chunk) : j[i] = chunk[i]
      /\ \A i \in 1..Len(c) : j[Len(chunk) + i] = c[i]
  <2>1. j = chunk \o c
    BY Zenon
  <2>2. chunk \in Seq(Byte) /\ c \in Seq(Byte)
    BY <1>2, <1>3, Zenon
  <2> HIDE DEF j
  <2> QED
    BY <2>1, <2>2, JoinIs
<1> HIDE DEF j
<1>7. Len(chunk) = size /\ Len(j) = n - b + 1 /\ Len(s) = Len(j)
  <2>1. Len(chunk) = p - b + 1 /\ Len(c) = n - p /\ Len(s) = n - b + 1 /\ Len(j) = Len(chunk) + Len(c)
    BY <1>2, <1>3, <1>4, <1>6, Zenon
  <2> DEFINE l == Len(chunk)
             m == Len(c)
  <2> HIDE DEF l, m
  <2>2. l = p - b + 1 /\ m = n - p /\ Len(j) = l + m
    BY <2>1, Zenon DEF l, m
  <2>3. l = size /\ Len(j) = n - b + 1
    BY <1>1, <2>2, SMT
  <2> QED
    BY <2>1, <2>3, Zenon DEF l
<1>8. ASSUME NEW i \in 1..(n - b + 1) PROVE s[i] = j[i]
  <2>1. s[i] = o[b - 1 + i]
    BY <1>4, Zenon
  <2>2. CASE i <= size
    <3> DEFINE k == b - 1 + i
    <3>1. i \in 1..size /\ k \in 1..n
      BY <1>1, <2>2
    <3>2. j[i] = chunk[i] /\ chunk[i] = t[k]
      BY <1>1, <1>2, <1>6, <1>7, <3>1
    <3> HIDE DEF k
    <3>3. t[k] = o[k]
      BY <1>5, <3>1, Zenon
    <3> QED
      BY <2>1, <3>2, <3>3, Zenon DEF k
  <2>3. CASE ~(i <= size)
    <3> DEFINE k == i - size
    <3>1. k \in 1..(n - p) /\ size + k = i /\ p + k = b - 1 + i
      BY <1>1, <2>3
    <3> HIDE DEF k
    <3>2. j[i] = c[k] /\ c[k] = o[p + k]
      BY <1>3, <1>6, <1>7, <3>1, Zenon
    <3> QED
      BY <2>1, <3>1, <3>2, Zenon
  <2> QED
    BY <2>2, <2>3
<1>9. s = j
  BY <1>4, <1>6, <1>7, <1>8, SameElements, Zenon
<1> QED
  <2>1. /\ chunk \in Seq(Byte) /\ Len(chunk) = size /\ c \in Seq(Byte) /\ Len(c) = n - p
        /\ s = chunk \o c
    BY <1>2, <1>3, <1>7, <1>9, Zenon DEF j
  <2>2. p - size + 1 = b
    BY Zenon DEF b
  <2>3. chunk = Block(t, p, size) /\ c = Rest(o, p)
    BY <2>2, Zenon DEF Block, Rest, chunk, c
  <2>4. Rest(o, p - size) = s
    BY <2>2, Zenon DEF Rest, s
  <2>5. Len(o) = n
    BY Zenon DEF n
  <2> QED
    BY <2>1, <2>3, <2>4, <2>5, Zenon

LEMMA SizesAre ==
    /\ MaximumLines \in Nat /\ MaximumLines > 0 /\ LineCap \in Nat /\ LineCap > 0
    /\ BlockSize \in Nat /\ BlockSize > 0 /\ ScanCap \in Nat /\ ScanCap > 0
    /\ Files \subseteq Seq(Byte) /\ Appended \in Byte
  BY LogReadAssumption

LEMMA ClipIsText == ASSUME NEW l \in Seq(Byte) PROVE Clip(l) \in Seq(Byte)
<1> DEFINE n == IF Len(l) > LineCap THEN LineCap ELSE Len(l)
<1>1. n \in 0..Len(l)
  BY SizesAre
<1> HIDE DEF n
<1>2. SubSeq(l, 1, n) \in Seq(Byte)
  BY <1>1, TwoParts, Zenon
<1> QED
  BY <1>2, Zenon DEF Clip, n

LEMMA ReadInitKeeps == ReadInit => ReadInv
<1> SUFFICES ASSUME ReadInit PROVE ReadInv
  OBVIOUS
<1> USE DEF ReadInit
<1>1. Len(<<>>) = 0 /\ <<>> \in Seq(Byte) /\ SubSeq(<<>>, 0 + 1, 0) = <<>>
  OBVIOUS
<1>2. Newlines(<<>>) \in 0..0
  BY <1>1, NewlinesAdd, Zenon
<1>3. Newlines(<<>>) = 0
  BY <1>2
<1>4. ReadTypeOK
  <2>1. /\ phase = "request" /\ cut = FALSE /\ max \in 0..(MaximumLines + 1) /\ keyword \in Keywords
        /\ opened = <<>> /\ position = 0 /\ scanned = 0 /\ newlines = 0 /\ contents = <<>>
        /\ lines = <<>> /\ truncated = FALSE /\ error = "none"
    BY Zenon
  <2>2. 0 \in 0..0 /\ 0 + 0 = 0 /\ 0 < ScanCap + BlockSize /\ 0 <= MaximumLines
    BY SizesAre
  <2> QED
    BY <1>1, <2>1, <2>2, Zenon DEF ReadTypeOK
<1>5. LeftToRead
  BY <1>1, <1>3, SizesAre, Zenon DEF LeftToRead
<1>6. Underway /\ Selected
  BY DEF Underway, Selected
<1> QED
  BY <1>4, <1>5, <1>6 DEF ReadInv

LEMMA RefuseKeeps == ASSUME ReadInv, Refuse \/ OpenFails PROVE ReadInv'
<1> USE DEF ReadInv, Refuse, OpenFails, Fail, request, scan, result
<1>1. ReadTypeOK'
  BY DEF ReadTypeOK
<1>2. LeftToRead'
  BY DEF LeftToRead
<1>3. Underway' /\ Selected'
  BY DEF Underway, Selected
<1> QED
  BY <1>1, <1>2, <1>3

LEMMA OpenLogKeeps == ASSUME ReadInv, OpenLog PROVE ReadInv'
<1> USE DEF ReadInv, OpenLog, request, result
<1>1. file \in Seq(Byte) /\ file' = file /\ opened' = file /\ position' = Len(file) /\ phase' = "scan"
  BY DEF LeftToRead
<1>2. scanned = 0 /\ contents = <<>> /\ newlines = 0 /\ error = "none" /\ ~cut /\ lines = <<>>
  <2>1. opened = <<>> /\ scanned = 0 /\ error = "none" /\ ~cut /\ lines = <<>>
    BY Zenon DEF Underway
  <2>2. newlines = 0 /\ Len(contents) = 0 /\ position = 0
    BY <2>1 DEF ReadTypeOK
  <2>3. contents = SubSeq(<<>>, 0 + 1, Len(<<>>))
    BY <2>1, <2>2, Zenon DEF LeftToRead
  <2>4. SubSeq(<<>>, 0 + 1, Len(<<>>)) = <<>>
    OBVIOUS
  <2> QED
    BY <2>1, <2>2, <2>3, <2>4
<1>3. Len(file) \in Nat /\ SubSeq(file, Len(file) + 1, Len(file)) = <<>>
  BY <1>1
<1>4. ReadTypeOK'
  BY <1>1, <1>2, <1>3, SizesAre DEF ReadTypeOK
<1>5. newlines = Newlines(contents)
  BY Zenon DEF LeftToRead
<1>6. LeftToRead'
  BY <1>1, <1>2, <1>3, <1>5, Zenon DEF LeftToRead
<1>7. Underway'
  BY <1>1, <1>2, <1>3 DEF Underway
<1>8. Selected'
  BY <1>1 DEF Selected
<1> QED
  BY <1>4, <1>6, <1>7, <1>8

LEMMA ReadBlockKeeps == ASSUME ReadInv, ReadBlock PROVE ReadInv'
<1> DEFINE size  == IF position < BlockSize THEN position ELSE BlockSize
           chunk == SubSeq(file, position - size + 1, position)
<1>1. /\ phase = "scan" /\ Scanning
      /\ file' = file /\ opened' = opened /\ cut' = cut /\ max' = max /\ keyword' = keyword
      /\ lines' = lines /\ truncated' = truncated
      /\ \/ /\ position <= Len(file) /\ position' = position - size /\ scanned' = scanned + size
            /\ newlines' = newlines + Newlines(chunk) /\ contents' = chunk \o contents
            /\ phase' = phase /\ error' = error
         \/ /\ ~(position <= Len(file)) /\ phase' = "done" /\ error' = "INTERNAL"
            /\ position' = position /\ scanned' = scanned /\ newlines' = newlines /\ contents' = contents
  BY Zenon DEF ReadBlock, Fail, request, result, scan
<1>2. /\ position \in 0..Len(opened) /\ position + scanned = Len(opened) /\ opened \in Seq(Byte)
      /\ scanned < ScanCap + BlockSize /\ newlines \in 0..scanned /\ Len(contents) = scanned
      /\ position > 0 /\ scanned < ScanCap
  BY <1>1, Zenon DEF ReadInv, ReadTypeOK, Scanning
<1>3. Len(opened) \in Nat /\ scanned \in Nat
  BY <1>2
<1>4. /\ file \in Seq(Byte) /\ contents = SubSeq(opened, position + 1, Len(opened))
      /\ newlines = Newlines(contents)
  BY Zenon DEF ReadInv, LeftToRead
<1>5. CASE ~(position <= Len(file))
  <2>1. /\ phase' = "done" /\ error' = "INTERNAL"
        /\ position' = position /\ scanned' = scanned /\ newlines' = newlines /\ contents' = contents
    BY <1>1, <1>5, Zenon
  <2>2. ReadTypeOK'
    BY <1>1, <2>1 DEF ReadInv, ReadTypeOK
  <2>3. LeftToRead'
    BY <1>1, <2>1, Zenon DEF ReadInv, LeftToRead
  <2>4. Underway' /\ Selected'
    BY <1>1, <2>1 DEF Underway, Selected
  <2> QED
    BY <2>2, <2>3, <2>4 DEF ReadInv
<1>6. CASE position <= Len(file)
  <2>1. /\ position' = position - size /\ scanned' = scanned + size
        /\ newlines' = newlines + Newlines(chunk) /\ contents' = chunk \o contents
        /\ phase' = phase /\ error' = error
    BY <1>1, <1>6, Zenon
  <2>2. ~cut /\ Len(opened) <= Len(file) /\ \A i \in 1..Len(opened) : file[i] = opened[i]
    <3>1. ~cut
      <4>1. Len(<<>>) = 0
        OBVIOUS
      <4>2. cut => file = <<>>
        BY <1>1, Zenon DEF ReadInv, Underway
      <4> QED
        BY <1>2, <1>6, <4>1, <4>2
    <3> QED
      BY <1>1, <3>1, Zenon DEF ReadInv, Underway
  <2>3. position \in 1..Len(opened) /\ size \in 1..position /\ size <= BlockSize
    BY <1>2, <1>3, SizesAre
  <2> HIDE DEF size
  <2>4. /\ chunk \in Seq(Byte) /\ Len(chunk) = size /\ contents \in Seq(Byte)
        /\ contents' = SubSeq(opened, position - size + 1, Len(opened))
    <3>1. chunk = Block(file, position, size)
      BY Zenon DEF Block
    <3> HIDE DEF chunk
    <3>2. opened \in Seq(Byte) /\ contents' = chunk \o contents /\ contents = Rest(opened, position)
      BY <1>2, <1>4, <2>1, Zenon DEF Rest
    <3>3. /\ opened \in Seq(Byte) /\ file \in Seq(Byte) /\ StartsWith(file, opened)
          /\ position \in 1..Len(opened) /\ size \in 1..position
      BY <1>4, <2>2, <2>3, <3>2, Zenon DEF StartsWith
    <3>4. /\ Block(file, position, size) \in Seq(Byte) /\ Len(Block(file, position, size)) = size
          /\ Rest(opened, position) \in Seq(Byte)
          /\ Rest(opened, position - size) = Block(file, position, size) \o Rest(opened, position)
      BY <3>3, BlockIs, SMT
    <3>5. Rest(opened, position - size) = SubSeq(opened, position - size + 1, Len(opened))
      BY Zenon DEF Rest
    <3>6. chunk \in Seq(Byte) /\ Len(chunk) = size
      BY <3>1, <3>4, Zenon
    <3>7. contents \in Seq(Byte) /\ Rest(opened, position - size) = chunk \o contents
      BY <3>1, <3>2, <3>4, Zenon
    <3> QED
      BY <3>2, <3>5, <3>6, <3>7, Zenon
  <2> HIDE DEF chunk
  <2>5. /\ Newlines(chunk \o contents) = Newlines(chunk) + Newlines(contents)
        /\ Newlines(chunk) \in 0..size
    BY <2>4, NewlinesAdd, Zenon
  <2>6. /\ Len(contents') = scanned' /\ contents' \in Seq(Byte)
    <3> DEFINE x == chunk \o contents
    <3>1. x \in Seq(Byte) /\ Len(x) = Len(chunk) + Len(contents)
      BY <2>4, Joined
    <3> HIDE DEF x
    <3>2. Len(x) = scanned + size
      BY <1>2, <1>3, <2>3, <2>4, <3>1
    <3> QED
      BY <2>1, <3>1, <3>2, Zenon DEF x
  <2>7. newlines' = Newlines(contents') /\ newlines' \in 0..scanned'
    <3> DEFINE x == Newlines(chunk)
    <3>1. x \in 0..size
      BY <2>5, Zenon
    <3>2. newlines' = newlines + x
      BY <2>1, Zenon
    <3>3. Newlines(contents') = x + newlines
      BY <1>4, <2>1, <2>5, Zenon
    <3> HIDE DEF x
    <3>4. newlines + x = x + newlines /\ newlines + x \in 0..(scanned + size)
      BY <1>2, <1>3, <2>3, <3>1
    <3> QED
      BY <2>1, <3>2, <3>3, <3>4, Zenon
  <2>8. /\ position' \in 0..Len(opened) /\ position' + scanned' = Len(opened)
        /\ scanned' < ScanCap + BlockSize
    BY <1>2, <1>3, <2>1, <2>3, SizesAre
  <2>9. ReadTypeOK'
    <3>1. ReadTypeOK
      BY DEF ReadInv
    <3> QED
      BY <1>1, <2>1, <2>6, <2>7, <2>8, <3>1, Zenon DEF ReadTypeOK
  <2>10. LeftToRead'
    BY <1>1, <1>4, <2>1, <2>4, <2>7, Zenon DEF LeftToRead
  <2>11. Underway' /\ Selected'
    <3>1. Underway
      BY DEF ReadInv
    <3>2. Underway'
      BY <1>1, <2>1, <3>1 DEF Underway
    <3>3. Selected'
      BY <1>1, <2>1 DEF Selected
    <3> QED
      BY <3>2, <3>3
  <2> QED
    BY <2>9, <2>10, <2>11 DEF ReadInv
<1> QED
  BY <1>5, <1>6

LEMMA SelectKeeps == ASSUME ReadInv, Select PROVE ReadInv'
<1>1. /\ phase = "scan" /\ ~Scanning /\ phase' = "done" /\ truncated' = Truncated(Matching(contents))
      /\ lines' = LastOf(max, Chosen)
      /\ file' = file /\ opened' = opened /\ cut' = cut /\ max' = max /\ keyword' = keyword
      /\ position' = position /\ scanned' = scanned /\ newlines' = newlines /\ contents' = contents
      /\ error' = error
  BY Zenon DEF Select, Chosen, request, scan
<1>2. /\ Matching(contents)' = Matching(contents) /\ (Scanning' <=> Scanning)
      /\ Chosen' = Chosen /\ Truncated(Matching(contents))' = Truncated(Matching(contents))
  <2>1. Matching(contents)' = Matching(contents)
    BY <1>1, Zenon DEF Matching
  <2>2. Scanning' <=> Scanning
    BY <1>1, Zenon DEF Scanning, EnoughLines
  <2>3. Chosen' = Chosen
    BY <2>1, Zenon DEF Chosen
  <2>4. Truncated(Matching(contents))' = Truncated(Matching(contents))
    BY <1>1, <2>1, Zenon DEF Truncated
  <2> QED
    BY <2>1, <2>2, <2>3, <2>4
<1>3. Selected'
  BY <1>1, <1>2, Zenon DEF Selected
<1>4. LeftToRead'
  BY <1>1, Zenon DEF ReadInv, LeftToRead
<1>5. error = "none" /\ max \in 1..MaximumLines
  <2>1. phase # "done" /\ phase # "request"
    BY <1>1
  <2> QED
    BY <2>1, Zenon DEF ReadInv, Underway
<1>6. Underway'
  BY <1>1, <1>5 DEF Underway
<1>7. opened \in Seq(Byte) /\ position \in 0..Len(opened) /\ contents = SubSeq(opened, position + 1, Len(opened))
  BY Zenon DEF ReadInv, ReadTypeOK, LeftToRead
<1>8. contents \in Seq(Byte)
  BY <1>7, TwoParts, Zenon
<1>9. Len(lines') <= MaximumLines /\ truncated' \in BOOLEAN
  <2> DEFINE all == Matching(contents)
  <2>1. all \in Seq(Seq(Byte))
    BY <1>8, MatchingIs, Zenon
  <2>2. Len(all) \in Nat
    <3> HIDE DEF all
    <3> QED
      BY <2>1
  <2> DEFINE T == {SanitizeUtf8(Clip(all[k])) : k \in 1..Len(all)}
  <2>3. Chosen \in [1..Len(all) -> T]
    BY Zenon DEF Chosen
  <2>4. Chosen \in Seq(T)
    <3> HIDE DEF all, T
    <3> QED
      BY <2>2, <2>3, FunctionIsSeq, Zenon
  <2> HIDE DEF all, T
  <2>5. max \in Nat /\ max <= MaximumLines
    BY <1>5, SizesAre
  <2>6. Len(lines') = IF Len(Chosen) > max THEN max ELSE Len(Chosen)
    BY <1>1, <2>4, <2>5, LastOfIs, Zenon
  <2>7. Len(Chosen) \in Nat
    BY <2>4
  <2>8. Len(lines') <= MaximumLines
    BY <2>5, <2>6, <2>7, SizesAre
  <2>9. Truncated(all) \in BOOLEAN
    BY DEF Truncated
  <2> QED
    BY <1>1, <2>8, <2>9, Zenon DEF all
<1>10. ReadTypeOK'
  BY <1>1, <1>9 DEF ReadInv, ReadTypeOK
<1> QED
  BY <1>3, <1>4, <1>6, <1>10 DEF ReadInv

LEMMA WriterKeeps == ASSUME ReadInv, Grow \/ Cut PROVE ReadInv'
<1>1. /\ phase = "scan" /\ ~cut /\ opened' = opened /\ phase' = phase /\ max' = max /\ keyword' = keyword
      /\ position' = position /\ scanned' = scanned /\ newlines' = newlines /\ contents' = contents
      /\ lines' = lines /\ truncated' = truncated /\ error' = error
      /\ \/ file' = Append(file, Appended) /\ cut' = cut
         \/ file' = <<>> /\ cut' = TRUE
  BY Zenon DEF Grow, Cut, request, scan, result
<1>2. file \in Seq(Byte) /\ opened \in Seq(Byte)
  BY Zenon DEF ReadInv, LeftToRead, ReadTypeOK
<1>3. Len(opened) <= Len(file) /\ \A i \in 1..Len(opened) : file[i] = opened[i]
  BY <1>1, Zenon DEF ReadInv, Underway
<1>4. /\ Append(file, Appended) \in Seq(Byte) /\ <<>> \in Seq(Byte)
      /\ Len(Append(file, Appended)) = Len(file) + 1
      /\ \A i \in 1..Len(file) : Append(file, Appended)[i] = file[i]
      /\ Len(file) \in Nat /\ Len(opened) \in Nat
  BY <1>2, SizesAre
<1>5. file' \in Seq(Byte)
  BY <1>1, <1>4, Zenon
<1>6. ~cut' => Len(opened) <= Len(file') /\ \A i \in 1..Len(opened) : file'[i] = opened[i]
  <2>1. Len(opened) <= Len(file) + 1 /\ \A i \in 1..Len(opened) : i \in 1..Len(file)
    BY <1>3, <1>4
  <2> QED
    BY <1>1, <1>3, <1>4, <2>1, Zenon
<1>7. ReadTypeOK'
  BY <1>1 DEF ReadInv, ReadTypeOK
<1>8. LeftToRead'
  BY <1>1, <1>5, Zenon DEF ReadInv, LeftToRead
<1>9. Underway'
  BY <1>1, <1>6 DEF ReadInv, Underway
<1>10. Selected'
  BY <1>1 DEF Selected
<1> QED
  BY <1>7, <1>8, <1>9, <1>10 DEF ReadInv

LEMMA ReadStutterKeeps == ASSUME ReadInv, UNCHANGED readVars PROVE ReadInv'
<1>1. /\ file' = file /\ opened' = opened /\ cut' = cut /\ phase' = phase /\ max' = max /\ keyword' = keyword
      /\ position' = position /\ scanned' = scanned /\ newlines' = newlines /\ contents' = contents
      /\ lines' = lines /\ truncated' = truncated /\ error' = error
  BY Zenon DEF readVars
<1>2. Matching(contents)' = Matching(contents)
  BY <1>1, Zenon DEF Matching
<1>3. /\ Scanning' <=> Scanning
      /\ Truncated(Matching(contents))' <=> Truncated(Matching(contents))
  BY <1>1, <1>2, Zenon DEF Scanning, EnoughLines, Truncated
<1>4. Truncated(Matching(contents))' = Truncated(Matching(contents))
  BY <1>1, <1>2, Zenon DEF Truncated
<1>5. Chosen' = Chosen
  BY <1>2, Zenon DEF Chosen
<1>6. Selected'
  BY <1>1, <1>3, <1>4, <1>5, Zenon DEF ReadInv, Selected
<1>7. ReadTypeOK' /\ LeftToRead'
  BY <1>1, Zenon DEF ReadInv, ReadTypeOK, LeftToRead
<1>8. Underway'
  BY <1>1 DEF ReadInv, Underway
<1> QED
  BY <1>6, <1>7, <1>8 DEF ReadInv

LEMMA ReadInductive == ReadInv /\ [ReadNext]_readVars => ReadInv'
<1> SUFFICES ASSUME ReadInv, [ReadNext]_readVars PROVE ReadInv'
  OBVIOUS
<1>1. CASE Refuse \/ OpenFails
  BY <1>1, RefuseKeeps
<1>2. CASE OpenLog
  BY <1>2, OpenLogKeeps
<1>3. CASE ReadBlock
  BY <1>3, ReadBlockKeeps
<1>4. CASE Select
  BY <1>4, SelectKeeps
<1>5. CASE Grow \/ Cut
  BY <1>5, WriterKeeps
<1>6. CASE Done \/ UNCHANGED readVars
  BY <1>6, ReadStutterKeeps DEF Done
<1> QED
  BY <1>1, <1>2, <1>3, <1>4, <1>5, <1>6 DEF ReadNext

(* The invariant holds of every scan, whatever the writer does meanwhile.     *)
THEOREM ReadInvariance == ReadSpec => []ReadInv
  BY ReadInitKeeps, ReadInductive, PTL DEF ReadSpec

(* ReadLog stays within its bounds: what has been read and what is left make  *)
(* up the file as it was opened, the scan passes its cap by less than a block, *)
(* and no more lines are returned than may be asked for.                     *)
THEOREM ReadTypesHold == ReadSpec => []ReadTypeOK
<1>1. ReadInv => ReadTypeOK
  BY DEF ReadInv
<1> QED
  BY <1>1, ReadInvariance, PTL

(* What an answer is made of.                                                *)
LEMMA AnswerIs ==
    ASSUME ReadInv, phase = "done", error = "none"
    PROVE  /\ opened \in Seq(Byte) /\ contents \in Seq(Byte) /\ position \in 0..Len(opened)
           /\ contents = SubSeq(opened, position + 1, Len(opened))
           /\ Matching(contents) \in Seq(Seq(Byte)) /\ max \in Nat
           /\ lines = LastOf(max, Shown(Matching(contents)))
           /\ truncated = Truncated(Matching(contents))
           /\ newlines = Newlines(contents) /\ newlines \in Nat
<1>1. /\ opened \in Seq(Byte) /\ position \in 0..Len(opened)
      /\ contents = SubSeq(opened, position + 1, Len(opened))
      /\ newlines = Newlines(contents) /\ max \in 1..MaximumLines
      /\ lines = LastOf(max, Chosen) /\ truncated = Truncated(Matching(contents))
  <2>1. phase # "request"
    OBVIOUS
  <2> QED
    BY <2>1, Zenon DEF ReadInv, ReadTypeOK, LeftToRead, Underway, Selected
<1>2. contents \in Seq(Byte)
  BY <1>1, TwoParts, Zenon
<1>3. Matching(contents) \in Seq(Seq(Byte))
  BY <1>2, MatchingIs, Zenon
<1>4. Chosen = Shown(Matching(contents))
  <2> DEFINE all == Matching(contents)
  <2>1. \A k \in 1..Len(all) : all[k] \in Seq(Byte)
    BY <1>3, Elements, Zenon
  <2>2. \A k \in 1..Len(all) : SanitizeUtf8(Clip(all[k])) = Repaired(Clip(all[k]))
    BY <2>1, ClipIsText, SanitizingRepairs, Zenon
  <2> QED
    BY <2>2, Zenon DEF Chosen, Shown
<1>5. max \in Nat
  BY <1>1, SizesAre
<1>6. newlines \in Nat
  <2>1. newlines \in 0..scanned /\ scanned = Len(contents)
    BY Zenon DEF ReadInv, ReadTypeOK
  <2> QED
    BY <2>1
<1> QED
  BY <1>1, <1>2, <1>3, <1>4, <1>5, <1>6, Zenon

LEMMA ReferenceIs == Reference = LastOf(max, Shown(Matching(opened)))
  BY Zenon DEF Reference, Whole, Shown

LEMMA TailIsAnswered == ReadInv => AnswerIsTheTail
<1> SUFFICES ASSUME ReadInv, Answered
             PROVE  /\ ~Capped => lines = Reference
                    /\ Capped  => truncated /\ (lines # <<>> => EndsWith(Reference, Tail(lines)))
  BY Zenon DEF AnswerIsTheTail
<1>1. /\ opened \in Seq(Byte) /\ contents \in Seq(Byte) /\ position \in 0..Len(opened)
      /\ contents = SubSeq(opened, position + 1, Len(opened)) /\ max \in Nat
      /\ lines = LastOf(max, Shown(Matching(contents)))
      /\ truncated = Truncated(Matching(contents))
      /\ newlines = Newlines(contents) /\ newlines \in Nat
  BY AnswerIs, Zenon DEF Answered
<1>2. position \in Nat /\ Len(opened) \in Nat
  BY <1>1
<1>3. /\ Len(contents) = Len(opened) - position
      /\ \A i \in 1..(Len(opened) - position) : contents[i] = opened[position + i]
  BY <1>1, TwoParts, Zenon
<1>4. Len(opened) = position + Len(contents) /\ \A i \in 1..Len(contents) : opened[position + i] = contents[i]
  <2>1. Len(opened) = position + Len(contents)
    BY <1>2, <1>3
  <2> QED
    BY <1>3, <2>1, Zenon
<1>5. PICK X, Y, Z \in Seq(Seq(Byte)) :
         /\ Matching(contents) = X \o Y /\ Matching(opened) = Z \o Y
         /\ Len(X) <= 1 /\ (keyword = <<>> => Len(Y) + 1 >= Newlines(contents))
  <2>1. Shares(opened, contents)
    BY <1>1, <1>2, <1>4, LinesOfTheEnd, Zenon
  <2> QED
    BY <2>1, Zenon DEF Shares
<1>6. /\ Len(Y) >= max => lines = Reference
      /\ Len(X) <= 1 /\ lines # <<>> => EndsWith(Reference, Tail(lines))
  <2>1. max \in Nat
    BY <1>1, Zenon
  <2>2. /\ Len(Y) >= max => LastOf(max, Shown(X \o Y)) = LastOf(max, Shown(Z \o Y))
        /\ Len(X) <= 1 /\ LastOf(max, Shown(X \o Y)) # <<>>
              => EndsWith(LastOf(max, Shown(Z \o Y)), Tail(LastOf(max, Shown(X \o Y))))
    BY <2>1, ShownEndsAlike, Zenon
  <2>3. lines = LastOf(max, Shown(X \o Y)) /\ Reference = LastOf(max, Shown(Z \o Y))
    BY <1>1, <1>5, ReferenceIs, Zenon
  <2> QED
    BY <2>2, <2>3, Zenon
<1>7. ASSUME ~Capped PROVE lines = Reference
  <2>1. CASE position = 0
    <3>1. SubSeq(opened, 0 + 1, Len(opened)) = opened
      BY <1>1
    <3>2. contents = opened
      BY <1>1, <2>1, <3>1, Zenon
    <3> QED
      BY <1>1, <3>2, ReferenceIs, Zenon
  <2>2. CASE position # 0
    <3>1. position > 0
      BY <1>2, <2>2
    <3>2. keyword = <<>> /\ newlines > max
      BY <1>7, <3>1, Zenon DEF Capped, EnoughLines
    <3>3. Len(Y) + 1 >= newlines
      BY <1>1, <1>5, <3>2, Zenon
    <3>4. Len(Y) \in Nat
      BY <1>5
    <3>5. Len(Y) >= max
      BY <1>1, <3>2, <3>3, <3>4
    <3> QED
      BY <1>6, <3>5, Zenon
  <2> QED
    BY <2>1, <2>2
<1>8. ASSUME Capped PROVE truncated /\ (lines # <<>> => EndsWith(Reference, Tail(lines)))
  BY <1>1, <1>5, <1>6, <1>8, Zenon DEF Capped, Truncated
<1> QED
  BY <1>7, <1>8

(* What ReadLog returns are the last lines, sanitised, of the log as it was   *)
(* when it was opened, wherever the blocks are cut and whatever is appended;  *)
(* a scan that gave up at its cap may lose some and begin with a piece of one, *)
(* and says so.                                                            *)
THEOREM AnswersAreTheTail == ReadSpec => []AnswerIsTheTail
  BY ReadInvariance, TailIsAnswered, PTL

LEMMA UnmarkedIsAll == ReadInv => UnmarkedIsComplete
<1> SUFFICES ASSUME ReadInv, Answered, ~truncated
             PROVE  lines = [k \in 1..Len(Whole) |-> Repaired(Whole[k])]
  BY Zenon DEF UnmarkedIsComplete
<1> DEFINE all == Matching(contents)
<1>1. /\ opened \in Seq(Byte) /\ position \in 0..Len(opened)
      /\ contents = SubSeq(opened, position + 1, Len(opened)) /\ max \in Nat
      /\ all \in Seq(Seq(Byte)) /\ lines = LastOf(max, Shown(all)) /\ truncated = Truncated(all)
  BY AnswerIs, Zenon DEF Answered
<1>2. /\ ~(Len(all) > max) /\ ~(position > 0)
      /\ \A k \in 1..Len(all) : ~(Len(all[k]) > LineCap)
  BY <1>1, Zenon DEF Truncated
<1>3. position = 0
  BY <1>1, <1>2
<1>4. contents = opened
  <2>1. SubSeq(opened, 0 + 1, Len(opened)) = opened
    BY <1>1
  <2> QED
    BY <1>1, <1>3, <2>1, Zenon
<1>5. all = Whole
  BY <1>4, Zenon DEF Whole
<1> HIDE DEF all
<1>6. lines = Shown(all)
  <2>1. Len(Shown(all)) = Len(all)
    BY <1>1, ShownAre, Zenon
  <2> QED
    BY <1>1, <1>2, <2>1, Zenon DEF LastOf
<1>7. \A k \in 1..Len(all) : Clip(all[k]) = all[k]
  <2>1. SUFFICES ASSUME NEW k \in 1..Len(all) PROVE Clip(all[k]) = all[k]
    BY Zenon
  <2>2. all[k] \in Seq(Byte)
    BY <1>1, Elements, Zenon
  <2>3. \A l \in Seq(Byte) : SubSeq(l, 1, Len(l)) = l
    OBVIOUS
  <2> QED
    BY <1>2, <2>2, <2>3, Zenon DEF Clip
<1> QED
  BY <1>5, <1>6, <1>7, Zenon DEF Shown

(* ReadLog leaves `truncated' unset only when it returns every line of the   *)
(* log that it was asked for, and none of them cut.                          *)
THEOREM UnmarkedAnswersAreComplete == ReadSpec => []UnmarkedIsComplete
  BY ReadInvariance, UnmarkedIsAll, PTL

=============================================================================
