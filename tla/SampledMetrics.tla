---------------------------- MODULE SampledMetrics ----------------------------
(***************************************************************************)
(* MetricsSampler with the SystemCollector its thread samples with: the n-th *)
(* sample is the n-th Collect after the constructor's reading.              *)
(***************************************************************************)
EXTENDS MetricsSampler, SystemCollector

(* The samples of the sampler's bounded run that some readings reach, and    *)
(* those whose metrics are coherent whatever the readings were.             *)
Collects == {n \in 1..MaxGeneration : \E readings \in Readings : n < Len(readings)}
CoherentCollects ==
    {n \in Collects : \A readings \in Readings :
        n < Len(readings) /\ Succeeds(readings[n + 1]) => CoherentMetrics(readings, n)}

(* The metrics clients get are coherent.  The sample latest_metrics_ came from *)
(* is that Collect of the sampler's collector: its usage is a share of the    *)
(* time, and of exactly the time since the times were last read, also when    *)
(* the Collects in between failed after reading them or failed to read them;  *)
(* used and available memory add up to the total.  Counters that went back    *)
(* never yield a share below 0 or above 1 (SystemCollector.cpp 112-139).     *)
MetricsAreCoherent == latest \in Collects => latest \in CoherentCollects

=============================================================================
