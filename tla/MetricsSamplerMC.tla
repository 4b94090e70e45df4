-------------------------- MODULE MetricsSamplerMC --------------------------
(* Model-checking instance of SampledMetrics. *)
EXTENDS SampledMetrics

CONSTANTS s1, s2
TwoStreams == {s1, s2}
(* 0 takes the default, 999 and 60001 are refused, 2500 needs three samples. *)
AllIntervals == {0, 999, 2500, 60001}

(* Times that advance and go back in every direction, and one whose sum      *)
(* wraps around.                                                           *)
Times(user, irq, idle, iowait) ==
    [user |-> user, nice |-> 0, system |-> 0, idle |-> idle, iowait |-> iowait,
     irq |-> irq, softirq |-> 0, steal |-> 0]
SomeTimes == {Times(user, 0, idle, iowait) : user, idle \in 0..2, iowait \in {0, 2}}
             \cup {Times(0, 1, 1, 1), Times(Word - 1, 0, 2, 0)}
Proc(stat) == [stat |-> stat, total |-> 3, available |-> 1, loadavg |-> "ok", uptime |-> 7]
(* 4 kB is the first total that does not fit.                              *)
SomeProcs ==
    {Proc(stat) : stat \in SomeTimes \cup {Missing}}
    \cup {[Proc(Times(1, 0, 1, 0)) EXCEPT !.total = t, !.available = a] :
             t \in {Missing, 0, 2, 3, 4}, a \in {Missing, 0, 3, 4}}
    \cup {[Proc(Times(1, 1, 1, 0)) EXCEPT !.loadavg = "bad"],
          [Proc(Times(1, 1, 1, 0)) EXCEPT !.uptime = Missing]}
ThreeReadings == {<<p, q, r>> : p, q, r \in SomeProcs}

=============================================================================
