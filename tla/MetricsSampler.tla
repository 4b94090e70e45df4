--------------------------- MODULE MetricsSampler ---------------------------
(***************************************************************************)
(* The Agent's metrics pipeline: the MetricsSampler object with its worker *)
(* thread, the StreamSystemMetrics handlers that wait on it, and the main  *)
(* thread that drains the server and then destroys the sampler.            *)
(*                                                                         *)
(* A snapshot is abstracted to the number of the sample that produced it,  *)
(* so that "which snapshot is this" can be asked of every copy of it.  A   *)
(* critical section of mutex_ is one action; the condition variable is the *)
(* set of the threads asleep in it.                                        *)
(*                                                                         *)
(* An operator X_Y is X with the defect Y, for the mutation runs only.     *)
(***************************************************************************)
EXTENDS Integers

CONSTANTS
    Streams,        \* the gRPC threads that may serve StreamSystemMetrics
    Intervals,      \* the interval_ms values requests carry
    SampleInterval, \* sample_interval_, in milliseconds
    Sampler,        \* the worker thread
    MaxGeneration   \* bound: the worker takes no sample after this one

ASSUME SampleIntervalAssumption ==
    SampleInterval \in Nat /\ SampleInterval >= 100 /\ SampleInterval <= 60000
ASSUME IntervalsAssumption == Intervals \subseteq Nat
ASSUME SamplerAssumption == Sampler \notin Streams
ASSUME MaxGenerationAssumption == MaxGeneration \in Nat \ {0}

DefaultStreamInterval == 1000
MinStreamInterval == 1000
MaxStreamInterval == 60000

VARIABLES
    generation,    \* generation_
    latest,        \* latest_metrics_: the sample it came from, 0 before any
    latestError,   \* latest_error_ is not empty
    hasSnapshot,   \* has_snapshot_
    stopping,      \* stopping_
    condition,     \* the threads asleep in condition_
    sampler,       \* where the worker is in Run and Sample
    collected,     \* whether the Collect in progress succeeded
    owner,         \* where the main thread is
    pc,            \* where each StreamSystemMetrics handler is
    cancelled,     \* context->IsCancelled() of each handler
    interval,      \* interval_ms of each call, the default filled in
    local,         \* the handler's metrics and generation locals
    sent           \* the last response written, with last_sent_generation

samplerVars == <<generation, latest, latestError, hasSnapshot, stopping,
                 sampler, collected>>
callVars == <<pc, cancelled, interval, local, sent>>
vars == <<samplerVars, condition, owner, callVars>>

Snapshot == [generation : Nat, metrics : Nat]
Nothing == [generation |-> 0, metrics |-> 0]

(* The variables have their types, latest_metrics_ is never newer than      *)
(* generation_, and only a thread inside wait or wait_for is asleep.        *)
TypeOK ==
    /\ generation \in Nat
    /\ latest \in 0..generation
    /\ latestError \in BOOLEAN
    /\ hasSnapshot \in BOOLEAN
    /\ stopping \in BOOLEAN
    /\ condition \subseteq {s \in Streams : pc[s] = "wait"} \cup {Sampler}
    /\ sampler \in {"wait", "collect", "publish", "notify", "done"}
    /\ collected \in BOOLEAN
    /\ owner \in {"serving", "draining", "notify", "join", "gone"}
    /\ pc \in [Streams -> {"idle", "latest", "write", "loop", "wait"}]
    /\ cancelled \in [Streams -> BOOLEAN]
    /\ interval \in [Streams -> Nat]
    /\ local \in [Streams -> Snapshot]
    /\ sent \in [Streams -> Snapshot]

(* The constructor took the first sample, which may have failed, before    *)
(* the worker thread was started and before the server accepts a call.     *)
Init ==
    /\ generation = 1
    /\ \E success \in BOOLEAN :
          /\ latest = IF success THEN 1 ELSE 0
          /\ latestError = ~success
          /\ hasSnapshot = success
    /\ stopping = FALSE
    /\ condition = {}
    /\ sampler = "wait"
    /\ collected = FALSE
    /\ owner = "serving"
    /\ pc = [s \in Streams |-> "idle"]
    /\ cancelled = [s \in Streams |-> FALSE]
    /\ interval = [s \in Streams |-> 0]
    /\ local = [s \in Streams |-> Nothing]
    /\ sent = [s \in Streams |-> Nothing]

-----------------------------------------------------------------------------
(* The worker thread: Run, and the Sample it calls.                        *)

RunPredicate_NeverTrue == FALSE

(* The predicate Run passes to wait_for.                                   *)
RunPredicate == stopping

(* wait_for tests its predicate on entry and whenever it is woken.         *)
EnterTimedWait ==
    /\ sampler = "wait"
    /\ Sampler \notin condition
    /\ IF RunPredicate
       THEN sampler' = "done" /\ UNCHANGED condition
       ELSE condition' = condition \cup {Sampler} /\ UNCHANGED sampler
    /\ UNCHANGED <<generation, latest, latestError, hasSnapshot, stopping,
                   collected, owner, callVars>>

(* sample_interval_ elapses: wait_for returns the predicate's value.  The  *)
(* bound stands here: past MaxGeneration only stopping_ ends the wait.     *)
IntervalElapsed ==
    /\ sampler = "wait"
    /\ Sampler \in condition
    /\ RunPredicate \/ generation < MaxGeneration
    /\ condition' = condition \ {Sampler}
    /\ sampler' = IF RunPredicate THEN "done" ELSE "collect"
    /\ UNCHANGED <<generation, latest, latestError, hasSnapshot, stopping,
                   collected, owner, callVars>>

(* Collect reads /proc without the mutex and may fail.                     *)
Collect(success) ==
    /\ sampler = "collect"
    /\ collected' = success
    /\ sampler' = "publish"
    /\ UNCHANGED <<generation, latest, latestError, hasSnapshot, stopping,
                   condition, owner, callVars>>

Publish_WithoutNotify ==
    /\ sampler = "publish"
    /\ generation' = generation + 1
    /\ latestError' = ~collected
    /\ IF collected
       THEN latest' = generation + 1 /\ hasSnapshot' = TRUE
       ELSE UNCHANGED <<latest, hasSnapshot>>
    /\ sampler' = "wait"
    /\ UNCHANGED <<stopping, collected, condition, owner, callVars>>

(* The critical section of Sample.                                         *)
Publish ==
    /\ sampler = "publish"
    /\ generation' = generation + 1
    /\ latestError' = ~collected
    /\ IF collected
       THEN latest' = generation + 1 /\ hasSnapshot' = TRUE
       ELSE UNCHANGED <<latest, hasSnapshot>>
    /\ sampler' = "notify"
    /\ UNCHANGED <<stopping, collected, condition, owner, callVars>>

(* notify_all after the mutex is released.                                 *)
NotifySample ==
    /\ sampler = "notify"
    /\ condition' = {}
    /\ sampler' = "wait"
    /\ UNCHANGED <<generation, latest, latestError, hasSnapshot, stopping,
                   collected, owner, callVars>>

SamplerStep ==
    \/ EnterTimedWait
    \/ IntervalElapsed
    \/ \E success \in BOOLEAN : Collect(success)
    \/ Publish
    \/ NotifySample

(* A thread may also leave a condition variable unasked.                   *)
SpuriousWakeup(t) ==
    /\ t \in condition
    /\ condition' = condition \ {t}
    /\ UNCHANGED <<samplerVars, owner, callVars>>

-----------------------------------------------------------------------------
(* A StreamSystemMetrics handler.                                          *)

EffectiveInterval(ms) == IF ms = 0 THEN DefaultStreamInterval ELSE ms

SamplesPerResponse_RoundedDown(ms) == ms \div SampleInterval

SamplesPerResponse(ms) == (ms + SampleInterval - 1) \div SampleInterval

SnapshotAvailable_AnySnapshot == hasSnapshot

(* GetLatest returns a snapshot only when the latest sample succeeded, even *)
(* when an older one is still held.                                        *)
SnapshotAvailable == hasSnapshot /\ ~latestError

(* The handler returns and its locals go out of scope.                     *)
Return(s) ==
    /\ pc' = [pc EXCEPT ![s] = "idle"]
    /\ cancelled' = [cancelled EXCEPT ![s] = FALSE]
    /\ interval' = [interval EXCEPT ![s] = 0]
    /\ local' = [local EXCEPT ![s] = Nothing]
    /\ sent' = [sent EXCEPT ![s] = Nothing]

(* Other intervals are refused with INVALID_ARGUMENT and change nothing.   *)
StartStream(s, ms) ==
    /\ owner = "serving"
    /\ pc[s] = "idle"
    /\ EffectiveInterval(ms) \in MinStreamInterval..MaxStreamInterval
    /\ pc' = [pc EXCEPT ![s] = "latest"]
    /\ interval' = [interval EXCEPT ![s] = EffectiveInterval(ms)]
    /\ UNCHANGED <<samplerVars, condition, owner, cancelled, local, sent>>

GetLatest(s) ==
    /\ pc[s] = "latest"
    /\ IF SnapshotAvailable
       THEN /\ local' = [local EXCEPT ![s] =
                   [generation |-> generation, metrics |-> latest]]
            /\ pc' = [pc EXCEPT ![s] = "write"]
            /\ UNCHANGED <<cancelled, interval, sent>>
       ELSE Return(s)  \* INTERNAL
    /\ UNCHANGED <<samplerVars, condition, owner>>

(* writer->Write is false once the call is broken.                         *)
WriteResponse(s, delivered) ==
    /\ pc[s] = "write"
    /\ IF delivered
       THEN /\ sent' = [sent EXCEPT ![s] = local[s]]
            /\ pc' = [pc EXCEPT ![s] = "loop"]
            /\ UNCHANGED <<cancelled, interval, local>>
       ELSE Return(s)
    /\ UNCHANGED <<samplerVars, condition, owner>>

CheckCancelled(s) ==
    /\ pc[s] = "loop"
    /\ IF cancelled[s]
       THEN Return(s)
       ELSE /\ pc' = [pc EXCEPT ![s] = "wait"]
            /\ UNCHANGED <<cancelled, interval, local, sent>>
    /\ UNCHANGED <<samplerVars, condition, owner>>

(* The predicate of condition_.wait in WaitForNext.                        *)
Ready(s) == stopping \/ generation > local[s].generation

Sleep(s) ==
    /\ pc[s] = "wait"
    /\ s \notin condition
    /\ ~Ready(s)
    /\ condition' = condition \cup {s}
    /\ UNCHANGED <<samplerVars, owner, callVars>>

(* WaitForNext returns, and the handler compares the generation it got     *)
(* with the one it last sent.                                              *)
WaitForNext(s) ==
    /\ pc[s] = "wait"
    /\ s \notin condition
    /\ Ready(s)
    /\ IF ~stopping /\ SnapshotAvailable
       THEN /\ local' = [local EXCEPT ![s] =
                   [generation |-> generation, metrics |-> latest]]
            /\ pc' = [pc EXCEPT ![s] =
                   IF generation - sent[s].generation
                      < SamplesPerResponse(interval[s])
                   THEN "loop" ELSE "write"]
            /\ UNCHANGED <<cancelled, interval, sent>>
       ELSE Return(s)  \* INTERNAL
    /\ UNCHANGED <<samplerVars, condition, owner>>

StreamStep(s) ==
    \/ GetLatest(s)
    \/ \E delivered \in BOOLEAN : WriteResponse(s, delivered)
    \/ CheckCancelled(s)
    \/ Sleep(s)
    \/ WaitForNext(s)

(* The Client cancels its call, or its connection is lost.                 *)
Cancel(s) ==
    /\ pc[s] # "idle"
    /\ ~cancelled[s]
    /\ cancelled' = [cancelled EXCEPT ![s] = TRUE]
    /\ UNCHANGED <<samplerVars, condition, owner, pc, interval, local,
                   sent>>

-----------------------------------------------------------------------------
(* The main thread: server->Shutdown() refuses new calls and waits for the *)
(* running ones; only then is the service, and with it the sampler,        *)
(* destroyed.                                                              *)

ShutdownServer ==
    /\ owner = "serving"
    /\ owner' = "draining"
    /\ UNCHANGED <<samplerVars, condition, callVars>>

SetStopping_WithoutDraining ==
    /\ owner = "draining"
    /\ stopping' = TRUE
    /\ owner' = "notify"
    /\ UNCHANGED <<generation, latest, latestError, hasSnapshot, sampler,
                   collected, condition, callVars>>

SetStopping ==
    /\ owner = "draining"
    /\ \A s \in Streams : pc[s] = "idle"
    /\ stopping' = TRUE
    /\ owner' = "notify"
    /\ UNCHANGED <<generation, latest, latestError, hasSnapshot, sampler,
                   collected, condition, callVars>>

NotifyStopping ==
    /\ owner = "notify"
    /\ condition' = {}
    /\ owner' = "join"
    /\ UNCHANGED <<samplerVars, callVars>>

Join ==
    /\ owner = "join"
    /\ sampler = "done"
    /\ owner' = "gone"
    /\ UNCHANGED <<samplerVars, condition, callVars>>

OwnerStep == ShutdownServer \/ SetStopping \/ NotifyStopping \/ Join

-----------------------------------------------------------------------------
Next ==
    \/ SamplerStep
    \/ \E t \in Streams \cup {Sampler} : SpuriousWakeup(t)
    \/ \E s \in Streams : StreamStep(s) \/ Cancel(s)
    \/ \E s \in Streams, ms \in Intervals : StartStream(s, ms)
    \/ OwnerStep

Spec == Init /\ [][Next]_vars

(* Every thread is scheduled, and the deadline of wait_for is absolute, so *)
(* wake-ups in between do not keep it from passing.  Nothing obliges a     *)
(* client to call or to cancel, or an operator to stop the Agent.          *)
Fairness ==
    /\ WF_vars(SamplerStep)
    /\ SF_vars(IntervalElapsed)
    /\ \A s \in Streams : WF_vars(StreamStep(s))
    /\ WF_vars(SetStopping \/ NotifyStopping \/ Join)

FairSpec == Spec /\ Fairness

-----------------------------------------------------------------------------
(* Properties *)

(* A handler asleep in WaitForNext while its predicate already holds is     *)
(* about to be notified: the sampler changes generation_ under the mutex    *)
(* and calls notify_all after releasing it (MetricsSampler.cpp 73-84), so   *)
(* no generation is missed between the test of the predicate and the sleep. *)
NoLostWakeup ==
    \A s \in Streams : s \in condition /\ Ready(s) =>
        sampler = "notify" \/ owner = "notify"

(* What a handler is about to send, and what it last sent, is exactly the   *)
(* snapshot of the generation it was given with: a failed sample advances   *)
(* generation_ but keeps the old latest_metrics_, and that stale snapshot   *)
(* must never be sent under the newer number.                               *)
SnapshotMatchesGeneration ==
    \A s \in Streams :
        /\ pc[s] = "write" => local[s].metrics = local[s].generation
        /\ sent[s].metrics = sent[s].generation

(* The sampler is only torn down when no handler is inside it, which is     *)
(* what makes destroying its mutex and condition variable defined, and when *)
(* it is gone its thread has ended.                                         *)
QuietTeardown ==
    /\ stopping => \A s \in Streams : pc[s] = "idle" /\ s \notin condition
    /\ owner = "gone" => sampler = "done"

(* Within one call the samples between two consecutive responses span at    *)
(* least the interval the client asked for, whatever the two intervals are; *)
(* so generations strictly increase and no snapshot is sent twice           *)
(* (EdgeScopeServiceImpl.cpp 576-596).                                      *)
PacedStep(s) ==
    sent[s] # Nothing /\ sent'[s] # Nothing /\ sent'[s] # sent[s] =>
        (sent'[s].generation - sent[s].generation) * SampleInterval
            >= interval[s]

PacedResponses == [][\A s \in Streams : PacedStep(s)]_vars

(* A handler that waits gets out of WaitForNext: the worker takes a next    *)
(* sample (the bound must allow one) and wakes it, also when that sample is *)
(* published between the handler's test and its sleep.                      *)
WaiterServed ==
    \A s \in Streams :
        pc[s] = "wait" /\ generation < MaxGeneration ~> pc[s] # "wait"

(* Destroying the sampler terminates: from the moment stopping_ is set, the *)
(* worker leaves Run and the join returns, also when stopping_ was set      *)
(* while the worker was inside Sample (MetricsSampler.cpp 11-20, 87-95).    *)
TeardownTerminates == stopping ~> owner = "gone"
=============================================================================
