--------------------------- MODULE SystemCollector ---------------------------
(***************************************************************************)
(* SystemCollector: the metrics MetricsSampler samples, computed from /proc.  *)
(* Of a file the model keeps the numbers and whether they parse.  Sums and    *)
(* products of std::uint64_t are taken modulo Word; a percentage is the pair  *)
(* of the busy and the total time it is the quotient of.                    *)
(*                                                                         *)
(* An operator X_Y beside X is X with the defect Y: it is not part of the    *)
(* specification, and shows that a property is sensitive to it.             *)
(***************************************************************************)
EXTENDS Integers, Sequences

CONSTANTS Word,      \* 2^64
          Missing,   \* what a line that is not there or does not parse is read as
          Readings   \* sequences of states of /proc: the constructor's, then one a Collect

BusyFields == {"user", "nice", "system", "irq", "softirq", "steal"}
IdleFields == {"idle", "iowait"}
CpuTimes   == [BusyFields \cup IdleFields -> 0..(Word - 1)]

\* loadavg is "ok" when it has three finite numbers that are not negative.
IsProc(proc) ==
    /\ proc.stat \in CpuTimes \/ proc.stat = Missing
    /\ proc.total \in {Missing} \cup 0..(Word - 1)
    /\ proc.available \in {Missing} \cup 0..(Word - 1)
    /\ proc.loadavg \in {"ok", "bad"} /\ proc.uptime \in Nat \cup {Missing}

ASSUME ReadingsAssumption ==
    /\ Word \in Nat /\ Word > 1024 /\ Missing \notin CpuTimes \cup Nat
    /\ \A readings \in Readings :
          /\ Len(readings) \in Nat \ {0} /\ DOMAIN readings = 1..Len(readings)
          /\ \A i \in DOMAIN readings : IsProc(readings[i])

-----------------------------------------------------------------------------
Total(t) == (t.user + t.nice + t.system + t.idle + t.iowait + t.irq + t.softirq + t.steal) % Word
Idle(t)  == (t.idle + t.iowait) % Word

NoUsage == [busy |-> 0, total |-> 1]

Usage_TrustingIdle(previous, current) ==
    LET total == Total(current) - Total(previous)
        idle  == Idle(current) - Idle(previous)
    IN IF idle >= 0 /\ total > 0
       THEN [busy |-> total - idle, total |-> total] ELSE NoUsage

\* A counter that went back, as iowait may, makes the usage 0.
Usage(previous, current) ==
    LET total == Total(current) - Total(previous)
        idle  == Idle(current) - Idle(previous)
    IN IF idle >= 0 /\ total > 0 /\ idle <= total
       THEN [busy |-> total - idle, total |-> total] ELSE NoUsage

(* collector is previous_cpu_times_, Missing when there is none yet.        *)
CollectCpuUsage(collector, stat) ==
    IF collector = Missing THEN NoUsage ELSE Usage(collector, stat)

\* The constructor and every Collect that reads the times keep them, whatever
\* the other files of that Collect are like.
ReadCpuTimes(collector, stat) == IF stat = Missing THEN collector ELSE stat

MaximumKb == (Word - 1) \div 1024
MemoryReads(proc) ==
    /\ proc.total # Missing /\ proc.available # Missing
    /\ proc.total <= MaximumKb /\ proc.available <= proc.total

Succeeds(proc) ==
    proc.stat # Missing /\ MemoryReads(proc) /\ proc.loadavg = "ok" /\ proc.uptime # Missing

CollectMetrics(collector, proc) ==
    LET total     == (proc.total * 1024) % Word
        available == (proc.available * 1024) % Word
    IN [cpu_usage        |-> CollectCpuUsage(collector, proc.stat),
        memory_total     |-> total,
        memory_available |-> available,
        memory_used      |-> (total - available) % Word,
        uptime_seconds   |-> proc.uptime % Word]

\* The collector after the first n states of /proc.
CollectorAfter(readings) ==
    LET collector[n \in 0..Len(readings)] ==
            IF n = 0 THEN Missing ELSE ReadCpuTimes(collector[n - 1], readings[n].stat)
    IN collector

-----------------------------------------------------------------------------
IsShare(usage) == usage.busy >= 0 /\ usage.total > 0 /\ usage.busy <= usage.total

\* The times are those of one run of the kernel, and their sum has not wrapped.
Advances(p, c) ==
    /\ \A f \in BusyFields \cup IdleFields : p[f] <= c[f]
    /\ Total(c) = c.user + c.nice + c.system + c.idle + c.iowait + c.irq + c.softirq + c.steal

Gained(p, c, field) == c[field] - p[field]
BusyTime(p, c) ==
    Gained(p, c, "user") + Gained(p, c, "nice") + Gained(p, c, "system")
    + Gained(p, c, "irq") + Gained(p, c, "softirq") + Gained(p, c, "steal")
IdleTime(p, c) == Gained(p, c, "idle") + Gained(p, c, "iowait")

IsTrueUsage(p, c, usage) ==
    BusyTime(p, c) + IdleTime(p, c) > 0 =>
        usage = [busy |-> BusyTime(p, c), total |-> BusyTime(p, c) + IdleTime(p, c)]

(* The last state of /proc before the n-th whose times could be read.       *)
LastRead(readings, n) ==
    {m \in 1..(n - 1) : /\ readings[m].stat # Missing
                        /\ \A k \in (m + 1)..(n - 1) : readings[k].stat = Missing}

(* The metrics of the n-th Collect, which the model's readings let succeed.   *)
CoherentMetrics(readings, n) ==
    LET metrics == CollectMetrics(CollectorAfter(readings)[n], readings[n + 1])
    IN /\ IsShare(metrics.cpu_usage)
       /\ \A m \in LastRead(readings, n + 1) :
             Advances(readings[m].stat, readings[n + 1].stat)
               => IsTrueUsage(readings[m].stat, readings[n + 1].stat, metrics.cpu_usage)
       /\ LastRead(readings, n + 1) = {} => metrics.cpu_usage = NoUsage
       /\ metrics.memory_used + metrics.memory_available = metrics.memory_total

=============================================================================
