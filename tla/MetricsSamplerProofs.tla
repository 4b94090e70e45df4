------------------------ MODULE MetricsSamplerProofs ------------------------
(***************************************************************************)
(* Theorems about MetricsSampler, for any number of streams, any sample    *)
(* and request intervals and any bound on the generation.                  *)
(***************************************************************************)
EXTENDS SampledMetrics, WellFoundedInduction, TLAPS

(* The latest snapshot is current whenever the handlers may use it.         *)
LatestIsCurrent == SnapshotAvailable => latest = generation

(* Every copy of a snapshot a handler holds is a matching pair.             *)
CopiesMatch ==
    \A s \in Streams :
        /\ local[s].metrics = local[s].generation
        /\ sent[s].metrics = sent[s].generation

(* stopping_ tells where the main thread is.                                *)
OwnerOK ==
    /\ stopping <=> owner \in {"notify", "join", "gone"}
    /\ stopping => \A s \in Streams : pc[s] = "idle"
    /\ owner = "gone" => sampler = "done"

(* A handler about to send has seen enough samples since its last response, *)
(* if there was one.                                                        *)
PacedWrite ==
    \A s \in Streams :
        /\ pc[s] \in {"idle", "latest"} => sent[s] = Nothing
        /\ pc[s] = "write" /\ sent[s] # Nothing =>
               local[s].generation - sent[s].generation
                   >= SamplesPerResponse(interval[s])

IInv ==
    /\ TypeOK
    /\ NoLostWakeup
    /\ LatestIsCurrent
    /\ CopiesMatch
    /\ OwnerOK
    /\ PacedWrite

-----------------------------------------------------------------------------
(* The sample interval is a positive number of milliseconds.                *)
LEMMA PositiveInterval == SampleInterval \in Nat /\ SampleInterval > 0
  BY SampleIntervalAssumption

(* Integer division, and the order of products with a common factor.        *)
LEMMA Division ==
    ASSUME NEW a \in Int, NEW d \in Nat, d > 0
    PROVE  /\ a \div d \in Int
           /\ a % d \in 0..(d - 1)
           /\ a = d * (a \div d) + (a % d)
  <1>1. a \div d \in Int /\ a % d \in 0..(d - 1)
    OBVIOUS
  <1>2. a = d * (a \div d) + (a % d)
    OBVIOUS
  <1> QED
    BY <1>1, <1>2

LEMMA ProductOrder ==
    ASSUME NEW a \in Int, NEW b \in Int, NEW d \in Nat, a >= b
    PROVE  a * d >= b * d
  OBVIOUS

(* Rounding up never falls short of the requested interval.                 *)
LEMMA RoundingUp ==
    ASSUME NEW ms \in Nat
    PROVE  /\ SamplesPerResponse(ms) \in Int
           /\ SamplesPerResponse(ms) * SampleInterval >= ms
  <1> DEFINE q == (ms + SampleInterval - 1) \div SampleInterval
             r == (ms + SampleInterval - 1) % SampleInterval
  <1>2. /\ q \in Int
        /\ r \in 0..(SampleInterval - 1)
        /\ ms + SampleInterval - 1 = SampleInterval * q + r
    <2>1. ms + SampleInterval - 1 \in Int
      BY PositiveInterval
    <2> QED
      BY PositiveInterval, <2>1, Division
  <1> QED
    BY PositiveInterval, <1>2 DEF SamplesPerResponse

LEMMA InitIInv == Init => IInv
  <1> SUFFICES ASSUME Init
               PROVE  IInv
    OBVIOUS
  <1>1. /\ latestError \in BOOLEAN
        /\ hasSnapshot \in BOOLEAN
        /\ hasSnapshot /\ ~latestError => latest = 1
    BY DEF Init
  <1>2. TypeOK
    <2>1. /\ local \in [Streams -> Snapshot]
          /\ sent \in [Streams -> Snapshot]
      BY DEF Init, Snapshot, Nothing
    <2>2. latest \in 0..generation
      BY DEF Init
    <2> QED
      BY <1>1, <2>1, <2>2 DEF Init, TypeOK
  <1> QED
    BY <1>1, <1>2
    DEF Init, IInv, NoLostWakeup, LatestIsCurrent, CopiesMatch, OwnerOK,
        PacedWrite, SnapshotAvailable, Nothing

(* The worker's actions.  Only Publish moves generation_, and it leaves the *)
(* worker on its way to notify_all.                                         *)
LEMMA SamplerStepIInv == IInv /\ SamplerStep => IInv'
  <1> SUFFICES ASSUME IInv, SamplerStep
               PROVE  IInv'
    OBVIOUS
  <1> USE DEF IInv, TypeOK, NoLostWakeup, LatestIsCurrent, CopiesMatch, OwnerOK,
              PacedWrite, SnapshotAvailable, Ready, RunPredicate, callVars
  <1>1. CASE EnterTimedWait
    BY <1>1, SamplerAssumption DEF EnterTimedWait
  <1>2. CASE IntervalElapsed
    BY <1>2, SamplerAssumption DEF IntervalElapsed
  <1>3. CASE \E success \in BOOLEAN : Collect(success)
    BY <1>3 DEF Collect
  <1>4. CASE Publish
    <2>1. /\ latestError' \in BOOLEAN
          /\ hasSnapshot' \in BOOLEAN
          /\ hasSnapshot' /\ ~latestError' => latest' = generation + 1
      BY <1>4 DEF Publish
    <2>2. TypeOK'
      BY <1>4, <2>1 DEF Publish
    <2> QED
      BY <1>4, <2>1, <2>2 DEF Publish
  <1>5. CASE NotifySample
    BY <1>5 DEF NotifySample
  <1> QED
    BY <1>1, <1>2, <1>3, <1>4, <1>5 DEF SamplerStep

(* A handler that is not asleep may return at any time.                     *)
LEMMA ReturnIInv ==
    ASSUME IInv, NEW s \in Streams, s \notin condition, Return(s),
           UNCHANGED <<samplerVars, condition, owner>>
    PROVE  IInv'
  <1>1. TypeOK'
    BY DEF IInv, TypeOK, samplerVars, Return, Snapshot, Nothing
  <1>2. NoLostWakeup' /\ LatestIsCurrent'
    BY DEF IInv, TypeOK, NoLostWakeup, LatestIsCurrent, SnapshotAvailable, Ready,
           samplerVars, Return
  <1>3. CopiesMatch' /\ PacedWrite'
    BY DEF IInv, TypeOK, CopiesMatch, PacedWrite, samplerVars, Return, Nothing
  <1>4. OwnerOK'
    BY DEF IInv, TypeOK, OwnerOK, samplerVars, Return
  <1> QED
    BY <1>1, <1>2, <1>3, <1>4 DEF IInv

(* A handler that is not asleep may be given the current snapshot, and goes *)
(* on to send it only when enough samples have passed.                      *)
LEMMA GivenSnapshotIInv ==
    ASSUME IInv, SnapshotAvailable, ~stopping,
           NEW s \in Streams, s \notin condition,
           NEW where \in {"loop", "write"},
           where = "write" /\ sent[s] # Nothing =>
               ~(generation - sent[s].generation
                     < SamplesPerResponse(interval[s])),
           local' = [local EXCEPT ![s] =
                        [generation |-> generation, metrics |-> latest]],
           pc' = [pc EXCEPT ![s] = where],
           UNCHANGED <<samplerVars, condition, owner, cancelled, interval, sent>>
    PROVE  IInv'
  <1>1. TypeOK'
    BY DEF IInv, TypeOK, samplerVars, Snapshot
  <1>2. NoLostWakeup' /\ LatestIsCurrent'
    BY DEF IInv, TypeOK, NoLostWakeup, LatestIsCurrent, SnapshotAvailable, Ready,
           samplerVars
  <1>3. CopiesMatch'
    BY DEF IInv, TypeOK, CopiesMatch, LatestIsCurrent, samplerVars
  <1>4. PacedWrite'
    <2>1. \A z \in Streams :
             /\ sent[z].generation \in Nat
             /\ SamplesPerResponse(interval[z]) \in Int
      BY RoundingUp DEF IInv, TypeOK, Snapshot
    <2>2. \A z \in Streams : SamplesPerResponse(interval[z])'
                                 = SamplesPerResponse(interval[z])
      BY DEF SamplesPerResponse
    <2> QED
      BY <2>1, <2>2 DEF IInv, TypeOK, PacedWrite, samplerVars, Nothing
  <1>5. OwnerOK'
    BY DEF IInv, TypeOK, OwnerOK, samplerVars
  <1> QED
    BY <1>1, <1>2, <1>3, <1>4, <1>5 DEF IInv

LEMMA StreamStepIInv ==
    ASSUME IInv, NEW s \in Streams, StreamStep(s) \/ Cancel(s)
    PROVE  IInv'
  <1>1. pc[s] # "wait" => s \notin condition
    BY SamplerAssumption DEF IInv, TypeOK
  <1>2. CASE GetLatest(s)
    <2>1. CASE SnapshotAvailable
      <3>1. s \notin condition /\ ~stopping
        BY <1>1, <1>2 DEF GetLatest, IInv, OwnerOK
      <3>2. sent[s] = Nothing
        BY <1>2 DEF GetLatest, IInv, PacedWrite
      <3> QED
        BY <1>2, <2>1, <3>1, <3>2, GivenSnapshotIInv DEF GetLatest
    <2>2. CASE ~SnapshotAvailable
      BY <1>1, <1>2, <2>2, ReturnIInv DEF GetLatest
    <2> QED
      BY <2>1, <2>2
  <1>3. CASE \E delivered \in BOOLEAN : WriteResponse(s, delivered)
    <2>1. CASE WriteResponse(s, TRUE)
      <3>1. /\ pc[s] = "write"
            /\ sent' = [sent EXCEPT ![s] = local[s]] /\ pc' = [pc EXCEPT ![s] = "loop"]
            /\ UNCHANGED <<samplerVars, condition, owner, cancelled, interval, local>>
        BY <2>1 DEF WriteResponse
      <3>2. TypeOK'
        BY <3>1 DEF IInv, TypeOK, samplerVars
      <3>3. NoLostWakeup' /\ LatestIsCurrent'
        BY <3>1 DEF IInv, TypeOK, NoLostWakeup, LatestIsCurrent, SnapshotAvailable, Ready,
               samplerVars
      <3>4. CopiesMatch' /\ PacedWrite'
        BY <3>1 DEF IInv, TypeOK, CopiesMatch, PacedWrite, SamplesPerResponse
      <3>5. OwnerOK'
        BY <3>1 DEF IInv, TypeOK, OwnerOK, samplerVars
      <3> QED
        BY <3>2, <3>3, <3>4, <3>5 DEF IInv
    <2>2. CASE WriteResponse(s, FALSE)
      BY <1>1, <2>2, ReturnIInv DEF WriteResponse
    <2> QED
      BY <1>3, <2>1, <2>2
  <1>4. CASE CheckCancelled(s)
    <2>1. CASE ~cancelled[s]
      BY <1>4, <2>1
      DEF CheckCancelled, IInv, TypeOK, NoLostWakeup, LatestIsCurrent,
          CopiesMatch, OwnerOK, PacedWrite, SnapshotAvailable, Ready,
          samplerVars, Snapshot, Nothing
    <2>2. CASE cancelled[s]
      BY <1>1, <1>4, <2>2, ReturnIInv DEF CheckCancelled
    <2> QED
      BY <2>1, <2>2
  <1>5. CASE Sleep(s)
    BY <1>5
    DEF Sleep, IInv, TypeOK, NoLostWakeup, LatestIsCurrent, CopiesMatch,
        OwnerOK, PacedWrite, SnapshotAvailable, Ready, samplerVars, callVars
  <1>6. CASE WaitForNext(s)
    <2>1. CASE ~stopping /\ SnapshotAvailable
      <3>1. CASE generation - sent[s].generation
                     < SamplesPerResponse(interval[s])
        BY <1>6, <2>1, <3>1, GivenSnapshotIInv DEF WaitForNext
      <3>2. CASE ~(generation - sent[s].generation
                     < SamplesPerResponse(interval[s]))
        BY <1>6, <2>1, <3>2, GivenSnapshotIInv DEF WaitForNext
      <3> QED
        BY <3>1, <3>2
    <2>2. CASE ~(~stopping /\ SnapshotAvailable)
      BY <1>6, <2>2, ReturnIInv DEF WaitForNext
    <2> QED
      BY <2>1, <2>2
  <1>7. CASE Cancel(s)
    BY <1>7
    DEF Cancel, IInv, TypeOK, NoLostWakeup, LatestIsCurrent, CopiesMatch,
        OwnerOK, PacedWrite, SnapshotAvailable, Ready, samplerVars
  <1> QED
    BY <1>2, <1>3, <1>4, <1>5, <1>6, <1>7 DEF StreamStep

LEMMA StartStreamIInv ==
    ASSUME IInv, NEW s \in Streams, NEW ms \in Intervals, StartStream(s, ms)
    PROVE  IInv'
  BY IntervalsAssumption
  DEF IInv, TypeOK, NoLostWakeup, LatestIsCurrent, CopiesMatch, OwnerOK,
      PacedWrite, SnapshotAvailable, Ready, samplerVars, StartStream,
      EffectiveInterval, DefaultStreamInterval, Snapshot

LEMMA OwnerStepIInv == IInv /\ OwnerStep => IInv'
  <1> SUFFICES ASSUME IInv, OwnerStep
               PROVE  IInv'
    OBVIOUS
  <1> USE DEF IInv, TypeOK, NoLostWakeup, LatestIsCurrent, CopiesMatch, OwnerOK,
              PacedWrite, SnapshotAvailable, Ready, samplerVars, callVars
  <1>1. CASE ShutdownServer
    BY <1>1 DEF ShutdownServer
  <1>2. CASE SetStopping
    BY <1>2 DEF SetStopping
  <1>3. CASE NotifyStopping
    BY <1>3 DEF NotifyStopping
  <1>4. CASE Join
    BY <1>4 DEF Join
  <1> QED
    BY <1>1, <1>2, <1>3, <1>4 DEF OwnerStep

LEMMA NextIInv == IInv /\ [Next]_vars => IInv'
  <1> SUFFICES ASSUME IInv, [Next]_vars
               PROVE  IInv'
    OBVIOUS
  <1>1. CASE SamplerStep
    BY <1>1, SamplerStepIInv
  <1>2. CASE \E t \in Streams \cup {Sampler} : SpuriousWakeup(t)
    BY <1>2
    DEF SpuriousWakeup, IInv, TypeOK, NoLostWakeup, LatestIsCurrent, CopiesMatch,
        OwnerOK, PacedWrite, SnapshotAvailable, Ready, samplerVars, callVars
  <1>3. CASE \E s \in Streams : StreamStep(s) \/ Cancel(s)
    BY <1>3, StreamStepIInv
  <1>4. CASE \E s \in Streams, ms \in Intervals : StartStream(s, ms)
    BY <1>4, StartStreamIInv
  <1>5. CASE OwnerStep
    BY <1>5, OwnerStepIInv
  <1>6. CASE UNCHANGED vars
    BY <1>6
    DEF vars, IInv, TypeOK, NoLostWakeup, LatestIsCurrent, CopiesMatch,
        OwnerOK, PacedWrite, SnapshotAvailable, Ready, samplerVars, callVars
  <1> QED
    BY <1>1, <1>2, <1>3, <1>4, <1>5, <1>6 DEF Next

(* The strengthened invariant holds in every reachable state.               *)
THEOREM Invariance == Spec => []IInv
  BY InitIInv, NextIInv, PTL DEF Spec

(* The state of the sampler and of its handlers is well formed.             *)
THEOREM TypeCorrectness == Spec => []TypeOK
  <1>1. IInv => TypeOK
    BY DEF IInv
  <1> QED
    BY <1>1, Invariance, PTL

(* No handler sleeps through a sample: WaitForNext tests its predicate and  *)
(* goes to sleep under the mutex that Sample holds to advance generation_.  *)
THEOREM WakeupsAreNotLost == Spec => []NoLostWakeup
  <1>1. IInv => NoLostWakeup
    BY DEF IInv
  <1> QED
    BY <1>1, Invariance, PTL

(* No handler sends a snapshot under another sample's generation.           *)
THEOREM SnapshotsMatch == Spec => []SnapshotMatchesGeneration
  <1>1. IInv => SnapshotMatchesGeneration
    BY DEF IInv, CopiesMatch, SnapshotMatchesGeneration
  <1> QED
    BY <1>1, Invariance, PTL

(* The sampler's mutex and condition variable are destroyed only after      *)
(* every handler has left them.                                             *)
THEOREM TeardownIsQuiet == Spec => []QuietTeardown
  <1>1. IInv => QuietTeardown
    BY SamplerAssumption DEF IInv, TypeOK, OwnerOK, QuietTeardown
  <1> QED
    BY <1>1, Invariance, PTL

(* Responses of one stream are at least the requested interval apart, for   *)
(* every sample interval and every requested interval.                      *)
THEOREM ResponsesArePaced == Spec => PacedResponses
  <1>1. IInv /\ [Next]_vars => [\A s \in Streams : PacedStep(s)]_vars
    <2> SUFFICES ASSUME IInv, Next, NEW s \in Streams
                 PROVE  PacedStep(s)
      OBVIOUS
    <2>1. CASE UNCHANGED sent
      BY <2>1 DEF PacedStep
    <2>2. CASE \E z \in Streams, delivered \in BOOLEAN :
                   WriteResponse(z, delivered)
      <3> PICK z \in Streams, delivered \in BOOLEAN : WriteResponse(z, delivered)
        BY <2>2
      <3>1. CASE z = s /\ delivered
        <4> SUFFICES ASSUME sent[s] # Nothing
                     PROVE  (sent'[s].generation - sent[s].generation)
                                * SampleInterval >= interval[s]
          BY DEF PacedStep
        <4> DEFINE gap == sent'[s].generation - sent[s].generation
                   least == SamplesPerResponse(interval[s])
        <4>1. gap \in Int /\ gap >= least
          BY <3>1 DEF WriteResponse, IInv, TypeOK, PacedWrite, Snapshot
        <4>2. /\ interval[s] \in Nat
              /\ least \in Int
              /\ least * SampleInterval >= interval[s]
          BY RoundingUp DEF IInv, TypeOK
        <4>3. SampleInterval \in Nat
          BY PositiveInterval
        <4> HIDE DEF gap, least
        <4>4. gap * SampleInterval >= least * SampleInterval
          BY <4>1, <4>2, <4>3, ProductOrder
        <4> QED
          BY <4>1, <4>2, <4>3, <4>4 DEF gap
      <3>2. CASE ~(z = s /\ delivered)
        BY <3>2 DEF WriteResponse, Return, PacedStep, IInv, TypeOK
      <3> QED
        BY <3>1, <3>2
    <2>3. CASE \E z \in Streams : sent' = [sent EXCEPT ![z] = Nothing]
      BY <2>3 DEF PacedStep, IInv, TypeOK
    <2> QED
      BY <2>1, <2>2, <2>3
      DEF Next, SamplerStep, EnterTimedWait, IntervalElapsed, Collect, Publish,
          NotifySample, SpuriousWakeup, StreamStep, GetLatest, CheckCancelled,
          Sleep, WaitForNext, Cancel, StartStream, OwnerStep, ShutdownServer,
          SetStopping, NotifyStopping, Join, Return, callVars
  <1> QED
    BY <1>1, Invariance, PTL DEF Spec, PacedResponses
-----------------------------------------------------------------------------
(* The metrics the samples hold.                                            *)

(* A sum that fits is not changed by the 64 bits it is taken in.             *)
LEMMA NoWrap == ASSUME NEW w \in Nat, NEW n \in Nat, n < w PROVE n % w = n
  OBVIOUS

LEMMA Remainder == ASSUME NEW w \in Nat, w > 0, NEW n \in Nat PROVE n % w \in 0..(w - 1)
  OBVIOUS

LEMMA FieldsAreNumbers ==
    ASSUME NEW t \in CpuTimes
    PROVE  /\ t.user \in Nat /\ t.nice \in Nat /\ t.system \in Nat /\ t.idle \in Nat
           /\ t.iowait \in Nat /\ t.irq \in Nat /\ t.softirq \in Nat /\ t.steal \in Nat
  <1>1. \A f \in BusyFields \cup IdleFields : t[f] \in Nat
    BY ReadingsAssumption DEF CpuTimes
  <1> QED
    BY <1>1 DEF BusyFields, IdleFields

LEMMA SumsAreNumbers ==
    ASSUME NEW t \in CpuTimes
    PROVE  Total(t) \in 0..(Word - 1) /\ Idle(t) \in 0..(Word - 1)
  <1> DEFINE all  == t.user + t.nice + t.system + t.idle + t.iowait + t.irq + t.softirq + t.steal
             idle == t.idle + t.iowait
  <1>1. all \in Nat /\ idle \in Nat
    BY FieldsAreNumbers
  <1>2. Word \in Nat /\ Word > 0
    BY ReadingsAssumption
  <1>3. all % Word \in 0..(Word - 1) /\ idle % Word \in 0..(Word - 1)
    <2> HIDE DEF all, idle
    <2> QED
      BY <1>1, <1>2, Remainder
  <1> QED
    BY <1>3 DEF Total, Idle

(* Whatever the kernel's counters do between two readings, backwards and      *)
(* around the end of 64 bits included, the CPU usage is a share of time.      *)
THEOREM UsageIsAShare ==
    ASSUME NEW previous \in CpuTimes, NEW current \in CpuTimes
    PROVE  IsShare(Usage(previous, current))
  <1> DEFINE total == Total(current) - Total(previous)
             idle  == Idle(current) - Idle(previous)
  <1>1. total \in Int /\ idle \in Int
    BY SumsAreNumbers
  <1>2. CASE idle >= 0 /\ total > 0 /\ idle <= total
    <2>1. Usage(previous, current) = [busy |-> total - idle, total |-> total]
      BY <1>2 DEF Usage
    <2> HIDE DEF total, idle
    <2> QED
      BY <2>1, <1>1, <1>2 DEF IsShare
  <1>3. CASE ~(idle >= 0 /\ total > 0 /\ idle <= total)
    <2>1. Usage(previous, current) = NoUsage
      BY <1>3 DEF Usage
    <2> QED
      BY <2>1 DEF IsShare, NoUsage
  <1> QED
    BY <1>2, <1>3

(* Between two readings of one run of the kernel it is the busy part of the   *)
(* time that passed, summed up from the counters of busy time.               *)
THEOREM UsageIsTrue ==
    ASSUME NEW previous \in CpuTimes, NEW current \in CpuTimes, Advances(previous, current)
    PROVE  IsTrueUsage(previous, current, Usage(previous, current))
  <1> DEFINE all(t)   == t.user + t.nice + t.system + t.idle + t.iowait + t.irq + t.softirq + t.steal
             idle(t)  == t.idle + t.iowait
  <1>1. /\ previous.user <= current.user /\ previous.nice <= current.nice
        /\ previous.system <= current.system /\ previous.idle <= current.idle
        /\ previous.iowait <= current.iowait /\ previous.irq <= current.irq
        /\ previous.softirq <= current.softirq /\ previous.steal <= current.steal
    BY DEF Advances, BusyFields, IdleFields
  <1>2. all(current) < Word
    <2>1. Total(current) = all(current)
      BY Zenon DEF Advances
    <2>2. Total(current) \in 0..(Word - 1) /\ Word \in Nat
      BY SumsAreNumbers, ReadingsAssumption
    <2> HIDE DEF all
    <2> QED
      BY <2>1, <2>2
  <1>3. /\ all(previous) \in Nat /\ all(previous) < Word
        /\ idle(previous) \in Nat /\ idle(previous) < Word
        /\ idle(current) \in Nat /\ idle(current) < Word
    <2>1. /\ previous.user \in Nat /\ previous.nice \in Nat /\ previous.system \in Nat
          /\ previous.idle \in Nat /\ previous.iowait \in Nat /\ previous.irq \in Nat
          /\ previous.softirq \in Nat /\ previous.steal \in Nat
      BY FieldsAreNumbers
    <2>2. /\ current.user \in Nat /\ current.nice \in Nat /\ current.system \in Nat
          /\ current.idle \in Nat /\ current.iowait \in Nat /\ current.irq \in Nat
          /\ current.softirq \in Nat /\ current.steal \in Nat
      BY FieldsAreNumbers
    <2>3. /\ all(previous) \in Nat /\ idle(previous) \in Nat /\ idle(current) \in Nat
          /\ all(current) \in Nat
      BY <2>1, <2>2
    <2>4. /\ all(previous) <= all(current) /\ idle(previous) <= idle(current)
          /\ idle(current) <= all(current)
      BY <2>1, <2>2, <1>1
    <2>5. Word \in Nat
      BY ReadingsAssumption
    <2> HIDE DEF all, idle
    <2> QED
      BY <2>3, <2>4, <2>5, <1>2
  <1>4. Total(previous) = all(previous) /\ Idle(previous) = idle(previous)
        /\ Idle(current) = idle(current)
    <2> HIDE DEF all, idle
    <2>1. /\ all(previous) % Word = all(previous) /\ idle(previous) % Word = idle(previous)
          /\ idle(current) % Word = idle(current)
      BY <1>3, NoWrap, ReadingsAssumption
    <2> USE DEF all, idle
    <2> QED
      BY <2>1, Zenon DEF Total, Idle
  <1>5. Total(current) = all(current)
    BY DEF Advances
  <1> DEFINE total == Total(current) - Total(previous)
             rest  == Idle(current) - Idle(previous)
             busy  == BusyTime(previous, current)
  <1>6. /\ total = busy + IdleTime(previous, current) /\ rest = IdleTime(previous, current)
        /\ busy \in Nat /\ rest \in Nat
    BY <1>1, <1>4, <1>5, FieldsAreNumbers DEF BusyTime, IdleTime, Gained
  <1>7. ASSUME busy + IdleTime(previous, current) > 0
        PROVE  Usage(previous, current) = [busy |-> busy, total |-> busy + IdleTime(previous, current)]
    <2>1. rest >= 0 /\ total > 0 /\ rest <= total /\ total - rest = busy
      <3> HIDE DEF total, rest, busy
      <3> QED
        BY <1>6, <1>7
    <2>2. Usage(previous, current) = [busy |-> total - rest, total |-> total]
      BY <2>1 DEF Usage
    <2> QED
      BY <2>1, <2>2, <1>6
  <1> QED
    BY <1>7 DEF IsTrueUsage

(* Every nonempty set of numbers has a least one.                           *)
LEMMA LeastExists ==
    ASSUME NEW S, S \subseteq Nat, S # {}
    PROVE  \E x \in S : \A y \in S : x <= y
  <1> DEFINE R == OpToRel(<, Nat)
  <1>1. IsWellFoundedOn(R, Nat)
    BY NatLessThanWellFounded, Zenon
  <1>2. \A x, y \in Nat : y < x => <<y, x>> \in R
    <2> SUFFICES ASSUME NEW x \in Nat, NEW y \in Nat, y < x
                 PROVE  <<y, x>> \in R
      BY Zenon
    <2>1. <<y, x>> \in Nat \X Nat /\ <<y, x>>[1] < <<y, x>>[2]
      <3> HIDE DEF R
      <3> QED
        OBVIOUS
    <2> QED
      BY <2>1, Zenon DEF OpToRel
  <1> HIDE DEF R
  <1>3. PICK x \in S : \A y \in S : ~(<<y, x>> \in R)
    BY <1>1, WFMin
  <1>4. \A y \in S : x <= y
    <2> SUFFICES ASSUME NEW y \in S
                 PROVE  x <= y
      OBVIOUS
    <2>1. x \in Nat /\ y \in Nat
      OBVIOUS
    <2>2. ~(y < x)
      BY <2>1, <1>2, <1>3
    <2> QED
      BY <2>1, <2>2
  <1> QED
    BY <1>4

(* At most one reading is the last one that could be read.                  *)
LEMMA LastReadIsOne ==
    ASSUME NEW readings \in Readings, NEW n \in Nat,
           NEW a \in LastRead(readings, n), NEW b \in LastRead(readings, n)
    PROVE  a = b
  <1>1. a \in 1..(n - 1) /\ b \in 1..(n - 1)
        /\ readings[a].stat # Missing /\ readings[b].stat # Missing
        /\ (\A k \in (a + 1)..(n - 1) : readings[k].stat = Missing)
        /\ (\A k \in (b + 1)..(n - 1) : readings[k].stat = Missing)
    BY DEF LastRead
  <1>2. b \notin (a + 1)..(n - 1) /\ a \notin (b + 1)..(n - 1)
    BY <1>1
  <1> QED
    BY <1>1, <1>2

(* What the last reading that could be read gave.                           *)
StatOf(readings, S) == IF S = {} THEN Missing ELSE readings[CHOOSE m \in S : TRUE].stat
Kept(readings, n)   == StatOf(readings, LastRead(readings, n + 1))

(* It is kept as previous_cpu_times_ is: a Collect replaces it exactly when   *)
(* it could read the times.                                                 *)
LEMMA KeptSteps ==
    ASSUME NEW readings \in Readings, NEW n \in 1..Len(readings)
    PROVE  Kept(readings, n) = ReadCpuTimes(Kept(readings, n - 1), readings[n].stat)
  <1>1. n \in Nat /\ n >= 1
    BY ReadingsAssumption
  <1>2. CASE readings[n].stat # Missing
    <2>1. n \in LastRead(readings, n + 1)
      BY <1>1, <1>2 DEF LastRead
    <2>2. \A m \in LastRead(readings, n + 1) : m = n
      <3>1. n + 1 \in Nat
        BY <1>1
      <3> QED
        BY <2>1, <3>1, LastReadIsOne, Zenon
    <2>3. (CHOOSE m \in LastRead(readings, n + 1) : TRUE) = n
      BY <2>1, <2>2, Zenon
    <2> QED
      BY <2>1, <2>3, <1>2, Zenon DEF Kept, StatOf, ReadCpuTimes
  <1>3. CASE readings[n].stat = Missing
    <2>1. \A m : m \in LastRead(readings, n + 1) <=> m \in LastRead(readings, n)
      <3>1. \A m \in 1..((n + 1) - 1) : readings[m].stat # Missing => m \in 1..(n - 1)
        BY <1>1, <1>3
      <3>2. \A m \in 1..(n - 1) : m \in 1..((n + 1) - 1)
        BY <1>1
      <3>3. \A m \in 1..(n - 1) : \A k : k \in (m + 1)..((n + 1) - 1)
                                          <=> k \in (m + 1)..(n - 1) \/ k = n
        BY <1>1
      <3> QED
        BY <3>1, <3>2, <3>3, <1>3, Zenon DEF LastRead
    <2>2. LastRead(readings, n + 1) = LastRead(readings, n)
      BY <2>1, Zenon DEF LastRead
    <2>3. (n - 1) + 1 = n
      BY <1>1
    <2>4. LastRead(readings, (n - 1) + 1) = LastRead(readings, n + 1)
      BY <2>2, <2>3
    <2>5. Kept(readings, n - 1) = Kept(readings, n)
      BY <2>4, Zenon DEF Kept
    <2> QED
      BY <2>5, <1>3 DEF ReadCpuTimes
  <1> QED
    BY <1>2, <1>3

(* So it is what the collector keeps, after any number of readings.          *)
LEMMA CollectorKeeps ==
    ASSUME NEW readings \in Readings, NEW n \in 0..Len(readings)
    PROVE  CollectorAfter(readings)[n] = Kept(readings, n)
  <1> DEFINE Step(f, i) == IF i = 0 THEN Missing ELSE ReadCpuTimes(f[i - 1], readings[i].stat)
             Runs(f) == f = [i \in 0..Len(readings) |-> Step(f, i)]
             kept == [i \in 0..Len(readings) |-> Kept(readings, i)]
             made == CollectorAfter(readings)
  <1>1. Len(readings) \in Nat
    BY ReadingsAssumption
  <1>2. Kept(readings, 0) = Missing
    BY DEF Kept, StatOf, LastRead
  <1>3. Runs(kept)
    <2>1. \A i \in 0..Len(readings) : kept[i] = Step(kept, i)
      <3> SUFFICES ASSUME NEW i \in 0..Len(readings)
                   PROVE  Kept(readings, i) = Step(kept, i)
        BY Zenon
      <3>1. CASE i = 0
        BY <3>1, <1>2
      <3>2. CASE i # 0
        <4>1. i \in 1..Len(readings) /\ i - 1 \in 0..Len(readings)
          BY <3>2, <1>1
        <4>2. kept[i - 1] = Kept(readings, i - 1)
          BY <4>1, Zenon
        <4> QED
          BY <4>1, <4>2, <3>2, KeptSteps, Zenon
      <3> QED
        BY <3>1, <3>2
    <2> QED
      BY <2>1, Zenon
  <1>4. made = CHOOSE f : Runs(f)
    BY Zenon DEF CollectorAfter
  <1>5. Runs(made)
    BY <1>3, <1>4, Zenon
  <1>6. /\ made[0] = Missing
        /\ \A i \in 1..Len(readings) : made[i] = ReadCpuTimes(made[i - 1], readings[i].stat)
    <2>1. \A i \in 0..Len(readings) : made[i] = Step(made, i)
      BY <1>5, Zenon
    <2>2. 0 \in 0..Len(readings)
      BY <1>1
    <2>3. \A i \in 1..Len(readings) : i \in 0..Len(readings) /\ i # 0
      BY <1>1
    <2> HIDE DEF made
    <2> QED
      BY <2>1, <2>2, <2>3, Zenon
  <1> DEFINE Wrong == {i \in 0..Len(readings) : made[i] # Kept(readings, i)}
  <1>7. Wrong = {}
    <2>1. SUFFICES ASSUME Wrong # {} PROVE FALSE
      OBVIOUS
    <2>2. Wrong \subseteq Nat
      BY <1>1
    <2> HIDE DEF made
    <2>3. PICK i \in Wrong : \A j \in Wrong : i <= j
      BY <2>1, <2>2, LeastExists, Zenon
    <2>4. i \in 1..Len(readings) /\ i - 1 \in 0..Len(readings) /\ ~(i <= i - 1)
      BY <2>3, <1>1, <1>2, <1>6
    <2>5. made[i - 1] = Kept(readings, i - 1)
      BY <2>3, <2>4, Zenon
    <2> QED
      BY <2>3, <2>4, <2>5, <1>6, KeptSteps, Zenon
  <1> QED
    BY <1>7, Zenon

(* used_memory and available_memory add up to the total, in bytes.           *)
LEMMA MemoryAddsUp ==
    ASSUME NEW proc, IsProc(proc), MemoryReads(proc), NEW collector
    PROVE  LET metrics == CollectMetrics(collector, proc)
           IN metrics.memory_used + metrics.memory_available = metrics.memory_total
  <1> DEFINE total == proc.total * 1024
             available == proc.available * 1024
  <1>1. proc.total \in Nat /\ proc.available \in Nat /\ Word \in Nat /\ Word > 0
        /\ proc.available <= proc.total /\ proc.total <= (Word - 1) \div 1024
    BY ReadingsAssumption DEF IsProc, MemoryReads, MaximumKb
  <1>2. total \in Nat /\ available \in Nat /\ available <= total /\ total < Word
    BY <1>1
  <1>3. total % Word = total /\ available % Word = available
        /\ (total - available) % Word = total - available
    <2> HIDE DEF total, available
    <2>1. total - available \in Nat /\ total - available < Word /\ available < Word
      BY <1>1, <1>2
    <2> QED
      BY <2>1, <1>1, <1>2, NoWrap
  <1>4. /\ CollectMetrics(collector, proc).memory_total = total
        /\ CollectMetrics(collector, proc).memory_available = available
        /\ CollectMetrics(collector, proc).memory_used = total - available
    <2>1. CollectMetrics(collector, proc) =
             [cpu_usage        |-> CollectCpuUsage(collector, proc.stat),
              memory_total     |-> total % Word,
              memory_available |-> available % Word,
              memory_used      |-> ((total % Word) - (available % Word)) % Word,
              uptime_seconds   |-> proc.uptime % Word]
      BY Zenon DEF CollectMetrics
    <2> HIDE DEF total, available
    <2> QED
      BY <1>3, <2>1
  <1> HIDE DEF total, available
  <1> QED
    BY <1>2, <1>4

LEMMA CollectsAreCoherent ==
    ASSUME NEW readings \in Readings, NEW n \in 1..(Len(readings) - 1), Succeeds(readings[n + 1])
    PROVE  CoherentMetrics(readings, n)
  <1> DEFINE proc == readings[n + 1]
             previous == CollectorAfter(readings)[n]
             metrics == CollectMetrics(previous, proc)
  <1>1. Len(readings) \in Nat /\ n \in 0..Len(readings) /\ n + 1 \in 1..Len(readings) /\ n \in Nat
    BY ReadingsAssumption
  <1>2. IsProc(proc) /\ MemoryReads(proc) /\ proc.stat \in CpuTimes
    BY <1>1, ReadingsAssumption DEF IsProc, Succeeds
  <1>3. previous = Kept(readings, n)
    BY <1>1, CollectorKeeps
  <1>4. metrics.cpu_usage = CollectCpuUsage(previous, proc.stat)
    BY Zenon DEF CollectMetrics
  <1>5. metrics.memory_used + metrics.memory_available = metrics.memory_total
    BY <1>2, MemoryAddsUp
  <1>6. CASE LastRead(readings, n + 1) = {}
    <2>1. metrics.cpu_usage = NoUsage
      BY <1>3, <1>4, <1>6 DEF Kept, StatOf, CollectCpuUsage
    <2>2. IsShare(NoUsage)
      BY DEF IsShare, NoUsage
    <2> QED
      BY <2>1, <2>2, <1>5, <1>6, Zenon DEF CoherentMetrics
  <1>7. CASE LastRead(readings, n + 1) # {}
    <2>1. PICK m : m \in LastRead(readings, n + 1)
      BY <1>7
    <2>2. \A l \in LastRead(readings, n + 1) : l = m
      BY <2>1, <1>1, LastReadIsOne
    <2>3. previous = readings[m].stat
      BY <2>1, <2>2, <1>3, <1>7, Zenon DEF Kept, StatOf
    <2>4. m \in 1..Len(readings) /\ readings[m].stat # Missing
      BY <2>1, <1>1 DEF LastRead
    <2>5. readings[m].stat \in CpuTimes
      BY <2>4, ReadingsAssumption DEF IsProc
    <2>6. metrics.cpu_usage = Usage(readings[m].stat, proc.stat)
      BY <2>3, <2>4, <1>4 DEF CollectCpuUsage
    <2>7. IsShare(metrics.cpu_usage)
      BY <2>5, <2>6, <1>2, UsageIsAShare
    <2>8. Advances(readings[m].stat, proc.stat)
            => IsTrueUsage(readings[m].stat, proc.stat, metrics.cpu_usage)
      BY <2>5, <2>6, <1>2, UsageIsTrue
    <2> QED
      BY <2>2, <2>7, <2>8, <1>5, <1>7, Zenon DEF CoherentMetrics
  <1> QED
    BY <1>6, <1>7

(* Every metrics a client can get are coherent, for any readings of /proc:    *)
(* the usage is a share of exactly the time since the counters were last     *)
(* read, and the memory adds up, without a sum that wraps.                  *)
THEOREM CoherentMetricsOnly == Spec => []MetricsAreCoherent
  <1>1. Collects \subseteq CoherentCollects
    <2> SUFFICES ASSUME NEW n \in Collects, NEW readings \in Readings,
                        n < Len(readings), Succeeds(readings[n + 1])
                 PROVE  CoherentMetrics(readings, n)
      BY Zenon DEF CoherentCollects
    <2>1. n \in Nat /\ n >= 1
      BY MaxGenerationAssumption DEF Collects
    <2>2. n \in 1..(Len(readings) - 1)
      BY <2>1, ReadingsAssumption
    <2> QED
      BY <2>2, CollectsAreCoherent
  <1>2. MetricsAreCoherent
    BY <1>1 DEF MetricsAreCoherent
  <1> QED
    BY <1>2, PTL

=============================================================================
