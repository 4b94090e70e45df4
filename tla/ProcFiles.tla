------------------------------ MODULE ProcFiles ------------------------------
(***************************************************************************)
(* What ProcessCollector and NetworkCollector make of the texts the kernel    *)
(* prints: /proc/<pid>/stat, status and io, the lines of /proc/net/tcp and    *)
(* tcp6, the list of getifaddrs.                                           *)
(*                                                                         *)
(* A line of stat is a sequence of tokens: the characters of the name one by  *)
(* one, for any of them may be a blank or a parenthesis, and the numbers as   *)
(* wholes.  In a line of tcp a pair of hexadecimal digits is a byte.         *)
(*                                                                         *)
(* An operator X_Y beside X is X with the defect Y: it is not part of the    *)
(* specification, and shows that a property is sensitive to it.             *)
(***************************************************************************)
EXTENDS Integers, Sequences, Selection

CONSTANTS Word,             \* 2^64
          Int32Max, Uint32Max,
          Tokens,           \* what a process may have in its name
          PrintedProcesses, \* what the kernel prints: processes,
          PrintedSockets,   \* TCP connections,
          AddressLists      \* and what getifaddrs lists

Char(c)   == <<c>>
Number(n) == <<"number", n>>
IsNumber(token) == Len(token) = 2
IsChar(token)   == Len(token) = 1
IsSpace(token)  == token = Char(" ")

MaximumPort == 65535
MaximumKb   == (Word - 1) \div 1024

(* What the kernel prints fits its own types; of the fields of stat that are  *)
(* not read nothing is assumed, and of a name nothing at all.               *)
IsProcess(p) ==
    /\ p.pid \in 1..Int32Max /\ p.name \in Seq(Tokens)
    /\ IsChar(p.state) /\ p.state \notin {Char(" "), Char(")")}
    /\ DOMAIN p.fields = 1..19 /\ p.fields[1] \in 0..Int32Max
    /\ p.fields[11] \in Nat /\ p.fields[12] \in Nat /\ p.fields[11] + p.fields[12] < Word
    /\ p.fields[17] \in 0..Uint32Max /\ p.fields[19] \in Nat
    /\ p.kernel \in BOOLEAN /\ p.rss \in 0..MaximumKb /\ p.size \in 0..MaximumKb
    /\ p.uptime \in Nat

IsEndpoint(e, size) == e \in [address : [1..size -> 0..255], port : 0..MaximumPort]
IsConnection(c) ==
    /\ \E size \in {4, 16} : IsEndpoint(c.local, size) /\ IsEndpoint(c.remote, size)
    /\ c.inode \in 0..(Word - 1)

ASSUME PrintedAssumption ==
    /\ Word \in Nat \ {0} /\ Int32Max \in Nat /\ Uint32Max \in Nat
    /\ \A p \in PrintedProcesses : IsProcess(p)
    /\ \A c \in PrintedSockets : IsConnection(c)
    /\ \A list \in AddressLists : Len(list) \in Nat /\ DOMAIN list = 1..Len(list)

-----------------------------------------------------------------------------
(* ParseStatLine.  The name is what stands between the first "(" and the last *)
(* ")"; the words after it are numbered from 1, so field k of proc(5) is word *)
(* k - 2.                                                                  *)
Places(line, c) == {i \in 1..Len(line) : line[i] = Char(c)}

Opens(line) == CHOOSE i \in Places(line, "(") : \A j \in Places(line, "(") : i <= j

Closes_First(line) == CHOOSE i \in Places(line, ")") : \A j \in Places(line, ")") : i <= j

Closes(line) == CHOOSE i \in Places(line, ")") : \A j \in Places(line, ")") : j <= i

HasName(line) ==
    /\ Places(line, "(") # {} /\ Places(line, ")") # {}
    /\ Opens(line) < Closes(line) /\ Closes(line) + 1 <= Len(line)

Name(line) == SubSeq(line, Opens(line) + 1, Closes(line) - 1)

Words(line) ==
    LET rest == SubSeq(line, Closes(line) + 1, Len(line))
    IN At(rest, {i \in 1..Len(rest) : ~IsSpace(rest[i])})

Field(line, k) == Words(line)[k - 2]
Value(line, k) == Field(line, k)[2]

StatParses(line) ==
    /\ HasName(line)
    /\ Opens(line) > 1 /\ IsNumber(line[1]) /\ line[1][2] > 0 /\ line[1][2] <= Int32Max
    /\ Len(Words(line)) >= 20
    /\ IsChar(Field(line, 3)) /\ \A k \in 4..22 : IsNumber(Field(line, k))
    /\ Value(line, 4) >= 0 /\ Value(line, 4) <= Int32Max
    /\ Value(line, 14) <= Word - 1 - Value(line, 15)
    /\ Value(line, 20) <= Uint32Max

ParseStatLine(line) ==
    [pid |-> line[1][2], name |-> Name(line), state |-> Field(line, 3), ppid |-> Value(line, 4),
     cpu_ticks |-> Value(line, 14) + Value(line, 15), thread_count |-> Value(line, 20),
     start_time_ticks |-> Value(line, 22)]

(* ParseStatus: records are [key, value, unit].  A kernel thread has no record *)
(* of its memory; of two records of a key the last decides.                  *)
Holding(records, key) == {i \in DOMAIN records : records[i].key = key}

KilobytesParse(line) == line.unit = "kB" /\ line.value <= MaximumKb

StatusParses(records) ==
    \A i \in DOMAIN records :
        /\ records[i].key \in {"VmRSS", "VmSize"} => KilobytesParse(records[i])
        /\ records[i].key = "Threads" => records[i].value <= Uint32Max

Last(records, key, default) ==
    IF Holding(records, key) = {} THEN default
    ELSE records[CHOOSE i \in Holding(records, key) : \A j \in Holding(records, key) : j <= i].value

ParseStatus(records, threads) ==
    [resident_memory |-> 1024 * Last(records, "VmRSS", 0),
     virtual_memory  |-> 1024 * Last(records, "VmSize", 0),
     thread_count    |-> Last(records, "Threads", threads)]

ParseIo(records) ==
    [read_bytes |-> Last(records, "read_bytes", 0), write_bytes |-> Last(records, "write_bytes", 0)]

\* The share of the time since the start, in ticks; /proc/uptime is read last,
\* and an uptime that is no later than the start makes it 0.
CalculateCpuUsage(cpu_ticks, start_ticks, uptime_ticks) ==
    IF uptime_ticks > start_ticks /\ uptime_ticks > 0
    THEN [busy |-> cpu_ticks, total |-> uptime_ticks - start_ticks]
    ELSE [busy |-> 0, total |-> 1]

-----------------------------------------------------------------------------
(* ParseTcpLine.  The kernel prints every four bytes of an address as one     *)
(* number of the machine's, lowest byte first in memory and last in print.    *)
Size(ipv6) == IF ipv6 THEN 16 ELSE 4

EndpointParses(text, ipv6) == Len(text.hex) = Size(ipv6) /\ text.port <= MaximumPort

Unswapped(hex) ==
    [i \in 1..Len(hex) |-> LET word == (i - 1) \div 4
                               byte == (i - 1) % 4
                           IN hex[word * 4 + (3 - byte) + 1]]

ParseEndpoint(text) == [address |-> Unswapped(text.hex), port |-> text.port]

TcpStateNames ==
    <<"ESTABLISHED", "SYN_SENT", "SYN_RECV", "FIN_WAIT1", "FIN_WAIT2", "TIME_WAIT", "CLOSE",
      "CLOSE_WAIT", "LAST_ACK", "LISTEN", "CLOSING", "NEW_SYN_RECV">>
TcpStateName(code) == IF code \in DOMAIN TcpStateNames THEN TcpStateNames[code] ELSE "UNKNOWN"

TcpParses(fields, ipv6) ==
    /\ Len(fields) >= 10
    /\ EndpointParses(fields[2], ipv6) /\ EndpointParses(fields[3], ipv6)
    /\ fields[10] < Word

ParseTcpLine(fields, ipv6) ==
    [local |-> ParseEndpoint(fields[2]), remote |-> ParseEndpoint(fields[3]),
     inode |-> fields[10], state |-> TcpStateName(fields[4]),
     protocol |-> IF ipv6 THEN "tcp6" ELSE "tcp4"]

(* GetInterfaces: list has an entry [name, family, address] for every address *)
(* and for interfaces without one.                                          *)
Addresses(list, name, family) ==
    At(list, {i \in DOMAIN list : list[i].name = name /\ list[i].family = family})
GetInterfaces(list) ==
    {[name |-> name, ipv4_addresses |-> Addresses(list, name, "ipv4"),
      ipv6_addresses |-> Addresses(list, name, "ipv6")] : name \in {list[i].name : i \in DOMAIN list}}

-----------------------------------------------------------------------------
(* How the kernel prints: proc(5) for stat and status, tcp4_seq_show's %08X.   *)
StatLine(p) ==
    <<Number(p.pid), Char(" "), Char("(")>> \o p.name \o <<Char(")"), Char(" "), p.state, Char(" ")>>
    \o [k \in 1..19 |-> Number(p.fields[k])]

StatusLines(p) ==
    LET size    == [key |-> "VmSize", value |-> p.size, unit |-> "kB"]
        rss     == [key |-> "VmRSS", value |-> p.rss, unit |-> "kB"]
        threads == [key |-> "Threads", value |-> p.fields[17], unit |-> ""]
    IN IF p.kernel THEN <<threads>> ELSE <<size, rss, threads>>

IoLines(p) ==
    <<[key |-> "rchar", value |-> 0], [key |-> "read_bytes", value |-> p.read],
      [key |-> "write_bytes", value |-> p.written], [key |-> "cancelled_write_bytes", value |-> 1]>>

Printed32(bytes) ==
    LET value == bytes[1] + 256 * bytes[2] + 65536 * bytes[3] + 16777216 * bytes[4]
    IN <<value \div 16777216, (value \div 65536) % 256, (value \div 256) % 256, value % 256>>
PrintedAddress(address) ==
    [i \in 1..Len(address) |->
        LET word == (i - 1) \div 4
        IN Printed32(SubSeq(address, word * 4 + 1, word * 4 + 4))[((i - 1) % 4) + 1]]
PrintedEndpoint(e) == [hex |-> PrintedAddress(e.address), port |-> e.port]
TcpLine(c) ==
    <<0, PrintedEndpoint(c.local), PrintedEndpoint(c.remote), c.code, 0, 0, 0, 0, 0, c.inode>>

(* What the kernel prints of a process is read back, whatever its name is: a  *)
(* name may hold parentheses and blanks, "x) R 1" among them, and the numbers *)
(* after the last ")" are taken from their places.                          *)
StatReadsBack(p) ==
    /\ StatParses(StatLine(p))
    /\ ParseStatLine(StatLine(p)) =
          [pid |-> p.pid, name |-> p.name, state |-> p.state, ppid |-> p.fields[1],
           cpu_ticks |-> p.fields[11] + p.fields[12], thread_count |-> p.fields[17],
           start_time_ticks |-> p.fields[19]]

StatusReadsBack(p) ==
    /\ StatusParses(StatusLines(p))
    /\ ParseStatus(StatusLines(p), p.fields[17]) =
          [resident_memory |-> IF p.kernel THEN 0 ELSE 1024 * p.rss,
           virtual_memory  |-> IF p.kernel THEN 0 ELSE 1024 * p.size,
           thread_count    |-> p.fields[17]]
    /\ ParseIo(IoLines(p)) = [read_bytes |-> p.read, write_bytes |-> p.written]

(* The usage is measured from a start that is never later than its end, though *)
(* the uptime is read after the ticks and in other units.                   *)
UsageIsDefined(p) ==
    LET read == ParseStatLine(StatLine(p))
    IN CalculateCpuUsage(read.cpu_ticks, read.start_time_ticks, p.uptime).total > 0

(* Addresses, ports, state and inode of a connection are read back.          *)
SocketReadsBack(c) ==
    LET ipv6 == Len(c.local.address) = 16
        read == ParseTcpLine(TcpLine(c), ipv6)
    IN /\ TcpParses(TcpLine(c), ipv6)
       /\ read.local = c.local /\ read.remote = c.remote /\ read.inode = c.inode
       /\ read.state = TcpStateName(c.code)

ProcessTextsReadBack ==
    \A p \in PrintedProcesses : StatReadsBack(p) /\ StatusReadsBack(p) /\ UsageIsDefined(p)

NetworkTextsReadBack ==
    /\ \A c \in PrintedSockets : SocketReadsBack(c)
    /\ \A list \in AddressLists : \A i \in DOMAIN list : \E n \in GetInterfaces(list) :
          /\ n.name = list[i].name
          /\ list[i].family = "ipv4" => \E k \in DOMAIN n.ipv4_addresses : n.ipv4_addresses[k] = list[i]
          /\ list[i].family = "ipv6" => \E k \in DOMAIN n.ipv6_addresses : n.ipv6_addresses[k] = list[i]

=============================================================================
