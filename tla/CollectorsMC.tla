---------------------------- MODULE CollectorsMC ----------------------------
(***************************************************************************)
(* Model-checking instance of ProcessTable, of the texts it reads, and of     *)
(* LogRead.  ProcessCollector, NetworkCollector, ProcessController and         *)
(* LogCollector share no state, in memory or on disk, so each behaviour of     *)
(* the instance is one of the processes' or one of the log's: what one of      *)
(* them does while the other is at rest is all that it can do.                *)
(***************************************************************************)
EXTENDS ProcessTexts, LogRead

SeqsExt == INSTANCE SequencesExt

ProcessesAtRest == hidden = {} /\ Init
LogAtRest       == file = <<>> /\ max = 0 /\ keyword = <<>> /\ phase = "request"

CollectorsInit == Init /\ ReadInit /\ (ProcessesAtRest \/ LogAtRest)
CollectorsNext ==
    \/ LogAtRest /\ Next /\ UNCHANGED readVars
    \/ ProcessesAtRest /\ ReadNext /\ UNCHANGED vars
CollectorsSpec == CollectorsInit /\ [][CollectorsNext]_<<vars, readVars>>
-----------------------------------------------------------------------------
(* Every kind of number a client may send: a group, everything, init, the     *)
(* Agent, and two ordinary processes.                                       *)
MCRequested == {-1, 0, 1, 2, 3, 4}

(* Names of up to three characters that may end one, or look like a field.   *)
NameChars == {Char("("), Char(")"), Char(" "), Char("x"), Number(1)}
Names == UNION {[1..n -> NameChars] : n \in 0..3}
Described(name, fields, kernel) ==
    [pid |-> 3, name |-> name, state |-> Char("R"), fields |-> fields, kernel |-> kernel,
     rss |-> 2, size |-> 3, read |-> 5, written |-> 6, uptime |-> Len(name) + 18]
(* Fields that are all different, and ticks that just fit.                   *)
MCProcesses ==
    {Described(name, [k \in 1..19 |-> k], kernel) : name \in Names, kernel \in BOOLEAN}
    \cup {Described(<<>>, [[k \in 1..19 |-> 0] EXCEPT ![11] = Word - 2, ![12] = 1, ![8] = Word - 1],
                    FALSE)}

At4(a, b, c, d) == [address |-> <<a, b, c, d>>, port |-> 65535]
Any6 == [address |-> [i \in 1..16 |-> i], port |-> 0]
MCSockets ==
    {[local |-> At4(a, b, c, d), remote |-> At4(d, 2, 3, a), inode |-> 100, code |-> 10] :
        a, b, c, d \in {0, 1, 127}}
    \cup {[local |-> Any6, remote |-> Any6, inode |-> 7, code |-> n] : n \in 0..13}

Listed == [name : {"lo", "eth0"}, family : {"ipv4", "ipv6", "none"}, address : {1, 2}]
MCAddressLists == UNION {[1..n -> Listed] : n \in 0..3}

-----------------------------------------------------------------------------
(* Short logs of newline, carriage return, "k" and "a"; longer ones that the   *)
(* scan does not reach the start of; and one line of bytes from every class    *)
(* UTF-8 distinguishes, with lines of five bytes that are cut at LineCap.      *)
Texts      == SeqsExt!BoundedSeq({10, 13, 107, 97}, 5) \cup [1..7 -> {10, 107, 97}]
Bytes      == {65, 128, 144, 160, 194, 224, 237, 240, 244, 245}
OneLine    == SeqsExt!BoundedSeq(Bytes, 3)
FourBytes  == {<<l, a, 128, 160>> : l \in {240, 241, 244, 245}, a \in {128, 144, 160}}
Overlong   == {<<65>> \o s : s \in FourBytes} \cup {s \o <<65>> : s \in FourBytes}
MCFiles    == Texts \cup OneLine \cup FourBytes \cup Overlong
MCKeywords == {<<>>, <<107, 97>>}
=============================================================================
