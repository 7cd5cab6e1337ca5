------------------------- MODULE ActionStreamEngine -------------------------
(***************************************************************************)
(* The LeRobot-facing inference engine: inference_engine.py together with  *)
(* the two helper modules that run under its condition lock,               *)
(* action_queue.py and delivery_scheduler.py.                              *)
(*                                                                         *)
(* Three kinds of thread share the engine:                                 *)
(*   - callers: lifecycle calls (start, stop, reset), serialized by        *)
(*     _lifecycle_lock and split where they leave the condition lock, and  *)
(*     short calls (notify_observation, get_action, pause, ...);           *)
(*   - the policy owner, _worker_loop, a program counter wpc;              *)
(*   - the optional delivery thread, delivery_loop, a program counter dpc. *)
(* An action is one critical section of _condition, or one call made       *)
(* outside every lock.  Observations and actions are abstracted to their   *)
(* identity; telemetry text and latencies are left out.                    *)
(***************************************************************************)
EXTENDS Integers, Sequences, FiniteSets

CONSTANTS
    Scheduler,           \* delivery_scheduler_enabled
    LatestOnlyFallback,  \* latest_only_fallback
    BoundedHold,         \* bounded_hold_steps
    MinInterval,         \* minimum_request_interval_steps
    MaxFailures,         \* max_consecutive_failures
    ChunkLens,           \* the lengths a validated chunk may have
    MaxEpoch,            \* bound: resets and stops explored
    MaxStep,             \* bound: the last control step of an episode
    MaxRevision          \* bound: changes of the requested task

ASSUME ConfigAssumption ==      \* ActionStreamInferenceConfig.__post_init__
    /\ Scheduler \in BOOLEAN
    /\ LatestOnlyFallback \in BOOLEAN
    /\ BoundedHold \in Nat
    /\ MinInterval \in Nat \ {0}
    /\ MaxFailures \in Nat \ {0}
    /\ ChunkLens \subseteq Nat \ {0}

ASSUME BoundAssumption ==
    MaxEpoch \in Nat /\ MaxStep \in Nat /\ MaxRevision \in Nat

VARIABLES
    \* lifecycle
    life,            \* where the holder of _lifecycle_lock is; "idle" if free
    started, shutdown, active, resetting, fatal, epoch, revision,
    \* the episode's observation side
    currentStep, mailbox, lastSubmitted, ordinal, resetPending,
    \* the episode's action side
    pending, latestDelivered, queue, lastAction, hold, starved,
    \* metrics that the code reads back, or that must agree with each other
    failures, connected, metrics,
    \* threads
    wpc, work, dpc, delivery,
    \* the policy: the epoch its state was last completely reset in
    provider

gateVars    == <<started, shutdown, active, resetting, fatal>>
episodeVars == <<currentStep, mailbox, lastSubmitted, ordinal, resetPending>>
actionVars  == <<queue, lastAction, hold, starved>>
heapVars    == <<pending, latestDelivered>>
metricVars  == <<failures, connected, metrics>>
workVars    == <<wpc, work>>
deliverVars == <<dpc, delivery>>
vars == <<life, gateVars, epoch, revision, episodeVars, heapVars, actionVars,
          metricVars, workVars, deliverVars, provider>>

-----------------------------------------------------------------------------
(* Identities *)

NoObs    == [epoch |-> -1, step |-> -1]
NoAction == [epoch |-> -1, rev |-> -1, ord |-> -1, src |-> -1, idx |-> -1]
NoItem   == [epoch |-> -1, rev |-> -1, ord |-> -1, src |-> -1, len |-> 0]
NeverReset == -1

Counters == {"started", "completed", "failed", "scheduled", "delivered",
             "outOfOrder", "stale", "accepted"}
ZeroMetrics == [c \in Counters |-> 0]
Bump(C) == [c \in Counters |-> metrics[c] + (IF c \in C THEN 1 ELSE 0)]

(* Slip: the lifecycle flags are read, the epoch is not compared. *)
FlagsOnly(e) == ~shutdown /\ ~resetting /\ ~fatal

(* The epoch, reset, shutdown and fatal check made under _condition. *)
EpochIsCurrent(e) == e = epoch /\ ~shutdown /\ ~resetting /\ ~fatal

(* The per-epoch event is set exactly when its epoch is invalidated. *)
Cancelled(e) == e # epoch

(* Slip: an error of any episode is taken for one of the running episode. *)
FatalForAny(e) == fatal \/ (~shutdown /\ ~resetting)

(* fatal' of _mark_fatal(exc, epoch=e): the second guarded check. *)
FatalFor(e) == fatal \/ (e = epoch /\ ~shutdown /\ ~resetting)

Init ==
    /\ life = "idle"
    /\ started = FALSE /\ shutdown = FALSE /\ active = FALSE
    /\ resetting = FALSE /\ fatal = FALSE
    /\ epoch = 0 /\ revision = 0
    /\ currentStep = -1 /\ mailbox = NoObs /\ lastSubmitted = -1
    /\ ordinal = 0 /\ resetPending = TRUE
    /\ pending = {} /\ latestDelivered = -1
    /\ queue = <<>> /\ lastAction = NoAction /\ hold = 0 /\ starved = FALSE
    /\ failures = 0 /\ connected = TRUE /\ metrics = ZeroMetrics
    /\ wpc = "dead" /\ work = NoItem
    /\ dpc = "dead" /\ delivery = NoItem
    /\ provider = NeverReset

-----------------------------------------------------------------------------
(* Lifecycle calls.  At most one is in progress: they hold _lifecycle_lock. *)

(* Slip: the queue is cleared, but the action already dispatched stays held. *)
KeepLastAction ==
    /\ pending' = {} /\ latestDelivered' = -1
    /\ queue' = <<>> /\ hold' = 0 /\ starved' = FALSE
    /\ UNCHANGED lastAction

ForgetActions ==
    /\ pending' = {} /\ latestDelivered' = -1
    /\ queue' = <<>> /\ lastAction' = NoAction /\ hold' = 0 /\ starved' = FALSE

(* _invalidate_episode_locked *)
Invalidate ==
    /\ epoch' = epoch + 1
    /\ currentStep' = -1 /\ mailbox' = NoObs /\ lastSubmitted' = -1
    /\ ordinal' = 0 /\ resetPending' = TRUE
    /\ ForgetActions

Start ==
    /\ life = "idle" /\ ~started
    /\ started' = TRUE /\ shutdown' = FALSE /\ fatal' = FALSE
    /\ resetPending' = TRUE
    /\ IF shutdown
       THEN failures' = 0 /\ connected' = TRUE /\ metrics' = ZeroMetrics
       ELSE UNCHANGED metricVars
    /\ wpc' = "wait" /\ work' = NoItem
    /\ dpc' = (IF Scheduler THEN "wait" ELSE "dead") /\ delivery' = NoItem
    /\ UNCHANGED <<life, active, resetting, epoch, revision, currentStep,
                   mailbox, lastSubmitted, ordinal, heapVars, actionVars,
                   provider>>

StopBegin ==
    /\ life = "idle" /\ epoch < MaxEpoch
    /\ life' = "stopCancel"
    /\ shutdown' = TRUE /\ active' = FALSE /\ resetting' = TRUE
    /\ Invalidate
    /\ UNCHANGED <<started, fatal, revision, metricVars, workVars, deliverVars,
                   provider>>

lifeFrame == <<started, shutdown, active, epoch, revision, episodeVars,
               heapVars, actionVars, metricVars, workVars, deliverVars,
               provider>>

(* A call of the lifecycle thread outside the locks: it returns, or raises *)
(* and the handler marks the engine fatal whatever the epoch.              *)
TransportCall(from, to) ==
    /\ life = from
    /\ \/ life' = to /\ UNCHANGED fatal
       \/ life' = "finally" /\ fatal' = TRUE
    /\ UNCHANGED <<resetting, lifeFrame>>

StopCancel == TransportCall("stopCancel", "stopJoin")   \* transport.cancel()
StopClose  == TransportCall("stopClose", "stopRelease") \* transport.close()

(* join(timeout) of both threads ends when they do or when it times out. *)
StopJoin ==
    /\ life = "stopJoin"
    /\ IF wpc = "dead" /\ dpc = "dead"
       THEN life' = "stopClose" /\ UNCHANGED fatal
       ELSE life' = "finally" /\ fatal' = TRUE
    /\ UNCHANGED <<resetting, lifeFrame>>

StopRelease ==
    /\ life = "stopRelease"
    /\ life' = "finally" /\ started' = FALSE
    /\ UNCHANGED <<shutdown, active, resetting, fatal, epoch, revision,
                   episodeVars, heapVars, actionVars, metricVars, workVars,
                   deliverVars, provider>>

ResetBegin ==
    /\ life = "idle" /\ epoch < MaxEpoch
    /\ life' = "resetTransport"
    /\ resetting' = TRUE
    /\ Invalidate
    /\ failures' = 0 /\ connected' = TRUE /\ metrics' = ZeroMetrics
    /\ UNCHANGED <<started, shutdown, active, fatal, revision, workVars,
                   deliverVars, provider>>

(* transport.reset(); an exception is fatal for the epoch being opened. *)
ResetTransport ==
    /\ life = "resetTransport"
    /\ life' = "finally"
    /\ \/ UNCHANGED fatal
       \/ fatal' = (fatal \/ ~shutdown)
    /\ UNCHANGED <<resetting, lifeFrame>>

(* The finally clause of stop and reset, then the lock is released.  The     *)
(* observer is told of the discarded responses afterwards: their epoch is    *)
(* obsolete, so an exception there changes nothing.                          *)
OpenGate ==
    /\ life = "finally"
    /\ life' = "idle" /\ resetting' = FALSE
    /\ UNCHANGED <<fatal, lifeFrame>>

-----------------------------------------------------------------------------
(* Short calls of the control side *)

callerFrame == <<life, started, shutdown, resetting, fatal, epoch, heapVars,
                 metricVars, workVars, deliverVars, provider>>

Pause ==
    /\ active /\ active' = FALSE
    /\ UNCHANGED <<callerFrame, revision, episodeVars, actionVars>>

Resume ==
    /\ ~active /\ active' = TRUE
    /\ UNCHANGED <<callerFrame, revision, episodeVars, actionVars>>

(* set_task with a task that differs from the requested one. *)
SetTask ==
    /\ revision < MaxRevision /\ revision' = revision + 1
    /\ UNCHANGED <<callerFrame, active, episodeVars, actionVars>>

(* notify_observation: budget check, else overwrite the latest mailbox. *)
NotifyObservation ==
    /\ currentStep < MaxStep
    /\ currentStep' = currentStep + 1
    /\ IF lastSubmitted >= 0 /\ currentStep' < lastSubmitted + MinInterval
       THEN UNCHANGED mailbox
       ELSE mailbox' = [epoch |-> epoch, step |-> currentStep']
    /\ UNCHANGED <<callerFrame, active, revision, lastSubmitted, ordinal,
                   resetPending, actionVars>>

(* Slip: the last action is held once too often. *)
MayHoldOnceMore == lastAction # NoAction /\ hold <= BoundedHold

MayHold == lastAction # NoAction /\ hold < BoundedHold

(* get_action_with_revision: pop, else hold, else starve. *)
GetAction ==
    /\ started /\ EpochIsCurrent(epoch)
    /\ \/ /\ queue # <<>>
          /\ lastAction' = Head(queue) /\ queue' = Tail(queue)
          /\ hold' = 0 /\ starved' = FALSE
       \/ /\ queue = <<>> /\ MayHold
          /\ hold' = hold + 1
          /\ UNCHANGED <<queue, lastAction, starved>>
       \/ /\ queue = <<>> /\ ~MayHold
          /\ starved' = TRUE
          /\ UNCHANGED <<queue, lastAction, hold>>
    /\ UNCHANGED <<callerFrame, active, revision, episodeVars>>

-----------------------------------------------------------------------------
(* merge_chunk: commit a chunk at the condition+queue linearization point. *)

ActionOf(item, k) ==
    [epoch |-> item.epoch, rev |-> item.rev, ord |-> item.ord,
     src |-> item.src, idx |-> k]

Age(item) == IF currentStep > item.src THEN currentStep - item.src ELSE 0

(* What is left of a chunk once its first d actions are dropped. *)
TailFrom(item, d) ==
    [i \in 1..(item.len - d) |-> ActionOf(item, d + i - 1)]

(* Slip: an empty queue is enough to admit a stale chunk. *)
FallbackWheneverEmpty == LatestOnlyFallback /\ queue = <<>>

FallbackAllowed ==
    LatestOnlyFallback /\ queue = <<>> /\ (starved \/ hold >= BoundedHold)

Replace(chunk, C) ==
    /\ queue' = chunk /\ hold' = 0 /\ starved' = FALSE
    /\ metrics' = Bump(C \cup {"accepted"})
    /\ UNCHANGED lastAction

CommitAligned(item, C) ==
    /\ Age(item) < item.len
    /\ Replace(TailFrom(item, Age(item)), C)

CommitFallback(item, C) ==
    /\ Age(item) >= item.len /\ FallbackAllowed
    /\ Replace(TailFrom(item, 0), C)

RejectStale(item, C) ==
    /\ Age(item) >= item.len /\ ~FallbackAllowed
    /\ metrics' = Bump(C \cup {"stale"})
    /\ UNCHANGED actionVars

AlignAndCommit(item, C) ==
    CommitAligned(item, C) \/ CommitFallback(item, C) \/ RejectStale(item, C)

MergeDirect(item) ==
    IF EpochIsCurrent(item.epoch)
    THEN AlignAndCommit(item, {}) /\ UNCHANGED heapVars
    ELSE UNCHANGED <<actionVars, heapVars, metrics>>

(* Slip: responses are committed in the order in which they arrive. *)
MergeAsDelivered(item) ==
    IF EpochIsCurrent(item.epoch)
    THEN latestDelivered' = item.src /\ AlignAndCommit(item, {"delivered"})
    ELSE UNCHANGED <<actionVars, latestDelivered, metrics>>

MergeScheduled(item) ==
    \/ /\ ~EpochIsCurrent(item.epoch)
       /\ UNCHANGED <<actionVars, latestDelivered, metrics>>
    \/ /\ EpochIsCurrent(item.epoch) /\ item.src <= latestDelivered
       /\ metrics' = Bump({"outOfOrder", "stale"})
       /\ UNCHANGED <<actionVars, latestDelivered>>
    \/ /\ EpochIsCurrent(item.epoch) /\ item.src > latestDelivered
       /\ latestDelivered' = item.src
       /\ AlignAndCommit(item, {"delivered"})

-----------------------------------------------------------------------------
(* The policy owner, _worker_loop *)

workerFrame == <<life, started, shutdown, active, resetting, epoch, revision,
                 currentStep, deliverVars>>

(* Wake up on shutdown or fatal and leave the thread. *)
WorkerExit ==
    /\ wpc = "wait" /\ (shutdown \/ fatal)
    /\ wpc' = "dead"
    /\ UNCHANGED <<workerFrame, work, fatal, mailbox, lastSubmitted, ordinal,
                   resetPending, heapVars, actionVars, metricVars, provider>>

(* Admit the mailbox's observation; the cancellation event captured here is *)
(* the one of the current epoch, which is also the observation's.           *)
Admit ==
    /\ wpc = "wait" /\ ~shutdown /\ ~fatal
    /\ active /\ ~resetting /\ mailbox # NoObs
    /\ work' = [epoch |-> mailbox.epoch, rev |-> revision, ord |-> ordinal,
                src |-> mailbox.step, len |-> 0]
    /\ wpc' = IF resetPending THEN "reset" ELSE "check"
    /\ mailbox' = NoObs
    /\ lastSubmitted' = mailbox.step
    /\ ordinal' = ordinal + 1
    /\ metrics' = Bump({"started"})
    /\ UNCHANGED <<workerFrame, resetPending, fatal, heapVars, actionVars,
                   failures, connected, provider>>

(* _reset_provider() returns, raises an Exception half-way, or raises a      *)
(* BaseException.                                                            *)
ResetProvider ==
    /\ wpc = "reset"
    /\ \/ wpc' = "resetDone" /\ provider' = work.epoch
       \/ wpc' \in {"failed", "crashed"} /\ provider' = NeverReset
    /\ UNCHANGED <<workerFrame, work, fatal, mailbox, lastSubmitted, ordinal,
                   resetPending, heapVars, actionVars, metricVars>>

CommitProviderReset ==
    /\ wpc = "resetDone"
    /\ IF EpochIsCurrent(work.epoch)
       THEN resetPending' = FALSE /\ wpc' = "check" /\ UNCHANGED work
       ELSE wpc' = "wait" /\ work' = NoItem /\ UNCHANGED resetPending
    /\ UNCHANGED <<workerFrame, fatal, mailbox, lastSubmitted, ordinal,
                   heapVars, actionVars, metricVars, provider>>

(* The cancellation check before the transport is entered. *)
EnterTransport ==
    /\ wpc = "check"
    /\ wpc' = IF Cancelled(work.epoch) THEN "failed" ELSE "infer"
    /\ UNCHANGED <<workerFrame, work, fatal, mailbox, lastSubmitted, ordinal,
                   resetPending, heapVars, actionVars, metricVars, provider>>

(* The transport answers with a valid chunk, or with an error, a timeout, a *)
(* cancellation or an invalid chunk ("failed"), or with a BaseException.    *)
TransportReturns ==
    /\ wpc = "infer"
    /\ \/ \E n \in ChunkLens :
            wpc' = "answered" /\ work' = [work EXCEPT !.len = n]
       \/ wpc' \in {"failed", "crashed"} /\ UNCHANGED work
    /\ UNCHANGED <<workerFrame, fatal, mailbox, lastSubmitted, ordinal,
                   resetPending, heapVars, actionVars, metricVars, provider>>

(* A successful answer ends an outage. *)
CompleteInference ==
    /\ wpc = "answered"
    /\ IF EpochIsCurrent(work.epoch)
       THEN /\ failures' = 0 /\ connected' = TRUE
            /\ metrics' = Bump({"completed"})
            /\ wpc' = (IF Scheduler THEN "schedule" ELSE "merge")
            /\ UNCHANGED work
       ELSE /\ wpc' = "wait" /\ work' = NoItem
            /\ UNCHANGED metricVars
    /\ UNCHANGED <<workerFrame, fatal, mailbox, lastSubmitted, ordinal,
                   resetPending, heapVars, actionVars, provider>>

(* Without the scheduler the owner commits its own chunk. *)
MergeOwn ==
    /\ wpc = "merge"
    /\ MergeDirect(work)
    /\ wpc' = "wait" /\ work' = NoItem
    /\ UNCHANGED <<workerFrame, fatal, mailbox, lastSubmitted, ordinal,
                   resetPending, failures, connected, provider>>

(* schedule_delivery: the delay provider raises, or the response is put on  *)
(* the heap, or it is obsolete.  Ready times are real numbers drawn by the  *)
(* provider, so the heap may be drained in any order.                       *)
ScheduleDelivery ==
    /\ wpc = "schedule"
    /\ \/ /\ fatal' = FatalFor(work.epoch)
          /\ wpc' = "wait" /\ work' = NoItem
          /\ UNCHANGED <<pending, metrics>>
       \/ /\ wpc' = "observe"
          /\ IF EpochIsCurrent(work.epoch)
             THEN /\ pending' = pending \cup {work}
                  /\ metrics' = Bump({"scheduled"})
             ELSE UNCHANGED <<pending, metrics>>
          /\ UNCHANGED <<fatal, work>>
    /\ UNCHANGED <<workerFrame, mailbox, lastSubmitted, ordinal, resetPending,
                   latestDelivered, actionVars, failures, connected, provider>>

(* A delivery observer returns, or raises on behalf of its response's epoch. *)
Observed(e) == UNCHANGED fatal \/ fatal' = FatalFor(e)

(* Slip: an observer's error is handled like a failed request. *)
ObserverErrorRetried ==
    /\ wpc = "observe"
    /\ \/ wpc' = "wait" /\ work' = NoItem
       \/ wpc' = "failed" /\ UNCHANGED work
    /\ UNCHANGED <<workerFrame, fatal, mailbox, lastSubmitted, ordinal,
                   resetPending, heapVars, actionVars, metricVars, provider>>

WorkerObserve ==
    /\ wpc = "observe"
    /\ Observed(work.epoch)
    /\ wpc' = "wait" /\ work' = NoItem
    /\ UNCHANGED <<workerFrame, mailbox, lastSubmitted, ordinal, resetPending,
                   heapVars, actionVars, metricVars, provider>>

(* _record_transient_failure *)
RecordFailure ==
    /\ wpc = "failed"
    /\ IF EpochIsCurrent(work.epoch)
       THEN /\ failures' = failures + 1 /\ connected' = FALSE
            /\ metrics' = Bump({"failed"})
            /\ wpc' = IF failures' >= MaxFailures THEN "giveUp" ELSE "retry"
       ELSE wpc' = "retry" /\ UNCHANGED metricVars
    /\ UNCHANGED <<workerFrame, work, fatal, mailbox, lastSubmitted, ordinal,
                   resetPending, heapVars, actionVars, provider>>

(* The failure budget is spent: a second lock acquisition marks fatal. *)
GiveUp ==
    /\ wpc = "giveUp"
    /\ fatal' = FatalFor(work.epoch)
    /\ wpc' = "retry"
    /\ UNCHANGED <<workerFrame, work, mailbox, lastSubmitted, ordinal,
                   resetPending, heapVars, actionVars, metricVars, provider>>

Crash ==
    /\ wpc = "crashed"
    /\ fatal' = FatalFor(work.epoch)
    /\ wpc' = "wait" /\ work' = NoItem
    /\ UNCHANGED <<workerFrame, mailbox, lastSubmitted, ordinal, resetPending,
                   heapVars, actionVars, metricVars, provider>>

(* Slip: a request that failed is dropped. *)
RetryForgotten ==
    /\ wpc = "retry" /\ wpc' = "wait" /\ work' = NoItem
    /\ UNCHANGED <<workerFrame, fatal, mailbox, lastSubmitted, ordinal,
                   resetPending, heapVars, actionVars, metricVars, provider>>

(* _retry_failed_observation, any time up to retry_backoff_s later: the    *)
(* observation goes back unless a newer one, or the lifecycle, came first. *)
Retry ==
    /\ wpc = "retry"
    /\ mailbox' = IF ~fatal /\ ~shutdown /\ work.epoch = epoch
                     /\ mailbox = NoObs
                  THEN [epoch |-> work.epoch, step |-> work.src]
                  ELSE mailbox
    /\ wpc' = "wait" /\ work' = NoItem
    /\ UNCHANGED <<workerFrame, fatal, lastSubmitted, ordinal, resetPending,
                   heapVars, actionVars, metricVars, provider>>

-----------------------------------------------------------------------------
(* The delivery thread, delivery_loop *)

deliveryFrame == <<life, started, shutdown, active, resetting, epoch, revision,
                   episodeVars, failures, connected, workVars, provider>>

DeliveryExit ==
    /\ dpc = "wait" /\ (shutdown \/ fatal)
    /\ dpc' = "dead"
    /\ UNCHANGED <<deliveryFrame, fatal, heapVars, actionVars, metrics, delivery>>

(* The head of the heap is due: it is popped, and merged after the lock has *)
(* been released and taken again.                                           *)
PopDelivery ==
    /\ dpc = "wait" /\ ~shutdown /\ ~fatal /\ ~resetting
    /\ \E item \in pending :
         delivery' = item /\ pending' = pending \ {item}
    /\ dpc' = "merge"
    /\ UNCHANGED <<deliveryFrame, fatal, latestDelivered, actionVars, metrics>>

MergeDelivery ==
    /\ dpc = "merge"
    /\ MergeScheduled(delivery)
    /\ dpc' = "observe"
    /\ UNCHANGED <<deliveryFrame, fatal, pending, delivery>>

DeliveryObserve ==
    /\ dpc = "observe"
    /\ Observed(delivery.epoch)
    /\ dpc' = "wait" /\ delivery' = NoItem
    /\ UNCHANGED <<deliveryFrame, heapVars, actionVars, metrics>>

-----------------------------------------------------------------------------
(* Lifecycle calls begin when the caller pleases and then run to their end. *)
LifecycleCall == Start \/ StopBegin \/ ResetBegin
LifecycleStep ==
    \/ StopCancel \/ StopJoin \/ StopClose \/ StopRelease
    \/ ResetTransport \/ OpenGate
ControlCall == Pause \/ Resume \/ SetTask \/ NotifyObservation \/ GetAction
WorkerStep ==
    \/ WorkerExit \/ Admit \/ ResetProvider \/ CommitProviderReset
    \/ EnterTransport \/ TransportReturns \/ CompleteInference \/ MergeOwn
    \/ ScheduleDelivery \/ WorkerObserve \/ RecordFailure \/ GiveUp \/ Crash
    \/ Retry
DeliveryStep ==
    DeliveryExit \/ PopDelivery \/ MergeDelivery \/ DeliveryObserve

Next ==
    LifecycleCall \/ LifecycleStep \/ ControlCall \/ WorkerStep \/ DeliveryStep

Spec == Init /\ [][Next]_vars

(* Threads that can run do run: the operating system schedules them, joins  *)
(* and transport calls carry timeouts, and callbacks are taken to return.   *)
(* No fairness is assumed of the callers.                                   *)
Fairness ==
    WF_vars(LifecycleStep) /\ WF_vars(WorkerStep) /\ WF_vars(DeliveryStep)

FairSpec == Spec /\ Fairness

-----------------------------------------------------------------------------
(* Properties *)

Epochs    == 0..MaxEpoch
Steps     == 0..MaxStep
Revisions == 0..MaxRevision
LifePhases == {"idle", "stopCancel", "stopJoin", "stopClose", "stopRelease",
               "resetTransport", "finally"}
WorkerPhases == {"dead", "wait", "reset", "resetDone", "check", "infer",
                 "answered", "schedule", "merge", "observe", "failed",
                 "giveUp", "crashed", "retry"}
Observations == [epoch : Epochs, step : Steps]
Items == [epoch : Epochs, rev : Revisions, ord : Nat, src : Steps, len : Nat]
Actions ==
    [epoch : Epochs, rev : Revisions, ord : Nat, src : Steps, idx : Nat]

(* Between attempts a thread holds no request. *)
WorkerBusy == wpc \notin {"dead", "wait"}
DeliveryBusy == dpc \in {"merge", "observe"}

FlagType ==
    /\ started \in BOOLEAN /\ shutdown \in BOOLEAN /\ active \in BOOLEAN
    /\ resetting \in BOOLEAN /\ fatal \in BOOLEAN
    /\ resetPending \in BOOLEAN /\ starved \in BOOLEAN /\ connected \in BOOLEAN
LifecycleType ==
    /\ life \in LifePhases
    /\ epoch \in Epochs /\ revision \in Revisions
    /\ provider \in Epochs \cup {NeverReset}
ObservationType ==
    /\ currentStep \in Steps \cup {-1}
    /\ mailbox \in Observations \cup {NoObs}
    /\ lastSubmitted \in Steps \cup {-1}
    /\ ordinal \in Nat
ActionType ==
    /\ pending \in SUBSET Items /\ latestDelivered \in Steps \cup {-1}
    /\ queue \in Seq(Actions) /\ lastAction \in Actions \cup {NoAction}
    /\ hold \in 0..BoundedHold
MetricType ==
    /\ failures \in Nat /\ metrics \in [Counters -> Nat]
ThreadType ==
    /\ wpc \in WorkerPhases
    /\ work \in Items \cup {NoItem} /\ (WorkerBusy => work \in Items)
    /\ dpc \in {"dead", "wait", "merge", "observe"}
    /\ delivery \in Items \cup {NoItem} /\ (DeliveryBusy => delivery \in Items)

TypeOK ==
    /\ FlagType /\ LifecycleType /\ ObservationType
    /\ ActionType /\ MetricType /\ ThreadType

(* The epoch owns the mailbox, the queue, the held action and the response  *)
(* heap: nothing of an earlier episode survives a reset or a stop, however  *)
(* late a worker or the delivery thread finishes.                           *)
EpochOwnership ==
    /\ mailbox # NoObs => mailbox.epoch = epoch
    /\ \A i \in 1..Len(queue) : queue[i].epoch = epoch
    /\ lastAction # NoAction => lastAction.epoch = epoch
    /\ \A p \in pending : p.epoch = epoch

(* From the moment stop or reset begins until the engine is open again no   *)
(* action is held that get_action could hand out, although results of the   *)
(* interrupted episode keep arriving meanwhile.                             *)
TeardownHoldsNoActions ==
    resetting \/ shutdown =>
        queue = <<>> /\ lastAction = NoAction /\ pending = {}

(* The policy is never run on state that was not reset, completely, in the  *)
(* attempt's own episode: neither after a reset that failed half-way nor    *)
(* after one that belonged to an earlier episode.                           *)
InferOnlyAfterReset == wpc = "infer" => provider = work.epoch

(* stop lets go of the owner only once both threads are gone, so start      *)
(* can never create a second policy owner.                                  *)
SingleOwner == ~started => wpc = "dead" /\ dpc = "dead"

(* Failures counted against the budget come from requests this episode      *)
(* admitted; the connection is down exactly while failures are outstanding. *)
FailuresAreOwn ==
    /\ ~shutdown => failures <= ordinal
    /\ connected <=> failures = 0

(* No two live responses answer the same observation: a retry never follows *)
(* an attempt whose answer may still be delivered.                          *)
LiveResponses ==
    {p \in pending
        \cup (IF wpc \in {"answered", "schedule"} THEN {work} ELSE {})
        \cup (IF dpc = "merge" THEN {delivery} ELSE {}) : p.epoch = epoch}
OneResponsePerObservation ==
    \A p, q \in LiveResponses : p.src = q.src => p = q

(* Every admitted request of the running episode is completed, failed, or   *)
(* still in the owner's hands: the counters never lose or repeat one.       *)
Undecided == {"reset", "resetDone", "check", "infer", "answered", "failed",
              "crashed"}
InFlight == IF wpc \in Undecided /\ work.epoch = epoch THEN 1 ELSE 0
AttemptsAccounted ==
    started /\ ~shutdown /\ ~fatal =>
        metrics["started"] =
            metrics["completed"] + metrics["failed"] + InFlight

(* Every completed inference of the running episode becomes a response that *)
(* is delivered, refused as out of order, on the heap, or between two locks *)
(* of a thread; and each one that came to a merge was accepted or rejected. *)
InHands(pc, at, item) == IF pc = at /\ item.epoch = epoch THEN 1 ELSE 0
ResponsesAccounted ==
    started /\ ~shutdown /\ ~fatal =>
        IF Scheduler
        THEN /\ metrics["completed"] =
                    metrics["scheduled"] + InHands(wpc, "schedule", work)
             /\ metrics["scheduled"] =
                    metrics["delivered"] + metrics["outOfOrder"]
                    + Cardinality(pending) + InHands(dpc, "merge", delivery)
             /\ metrics["delivered"] + metrics["outOfOrder"] =
                    metrics["accepted"] + metrics["stale"]
        ELSE metrics["completed"] =
                metrics["accepted"] + metrics["stale"]
                + InHands(wpc, "merge", work)

(* Every admitted request, every response and every failure of the running   *)
(* episode is counted once and by its own episode, and no two live responses *)
(* answer one observation: though requests fail, are retried, come late or   *)
(* out of order, and lose their episode on the way.                          *)
Accounting ==
    /\ TypeOK /\ FailuresAreOwn /\ AttemptsAccounted
    /\ ResponsesAccounted /\ OneResponsePerObservation

(* A commit replaces the queue by actions computed from a newer observation *)
(* than every action already dispatched or queued, and from a task request  *)
(* at least as recent: answers delivered out of order, retries and late     *)
(* threads never move the robot back.                                       *)
Queued == {queue[i] : i \in 1..Len(queue)}
Commit == queue' # <<>> /\ queue'[1] \notin Queued
CommitsAreNewer ==
    [][Commit => LET new == queue'[1] IN
        \A old \in Queued \cup {lastAction} :
            old.src < new.src /\ old.rev <= new.rev /\ old.ord < new.ord]_vars

(* An action planned for a step already past enters the queue only as the   *)
(* latest-only fallback, and only when the robot has nothing left to do:    *)
(* nothing is queued, and the next pull could not hold an action either.    *)
StaleOnlyAsFallback ==
    [][Commit /\ queue'[1].src + queue'[1].idx < currentStep =>
        /\ LatestOnlyFallback /\ queue = <<>> /\ queue'[1].idx = 0
        /\ lastAction = NoAction \/ hold >= BoundedHold]_vars

(* Only the running episode's own work, or a teardown that failed, makes    *)
(* the engine fatal.                                                        *)
FatalIsOwn ==
    [][~fatal /\ fatal' =>
        \/ life # "idle"
        \/ ~shutdown /\ WorkerBusy /\ work.epoch = epoch
        \/ ~shutdown /\ DeliveryBusy /\ delivery.epoch = epoch]_vars

(* The engine implements the contract of EpisodeActions: threads, mailbox    *)
(* and heap add no behaviour that the control loop could tell apart.         *)
Contract == INSTANCE EpisodeActions WITH
    episode <- epoch,
    gate    <- IF started /\ EpochIsCurrent(epoch) THEN "open" ELSE "closed",
    plan    <- queue,
    held    <- lastAction,
    repeats <- hold
ImplementsContract == Contract!Spec

(* What has to hold besides for the above to be inductive.  Threads never   *)
(* hold a request of a future epoch; a transport is closed only once both   *)
(* threads are gone; each response takes the route the configuration chose, *)
(* and holds at least one action.                                           *)
ThreadInv ==
    /\ work.epoch <= epoch /\ delivery.epoch <= epoch
    /\ SingleOwner
    /\ life \in {"stopClose", "stopRelease"} => wpc = "dead" /\ dpc = "dead"
    /\ dpc # "dead" => Scheduler
    /\ wpc = "merge" => ~Scheduler
    /\ wpc = "schedule" => Scheduler
    /\ wpc \in {"answered", "schedule", "merge"} => work.len > 0
    /\ \A p \in pending : p.len > 0
    /\ dpc = "merge" => delivery.len > 0

(* A lifecycle call keeps the engine resetting from its first step to its   *)
(* last, and an engine that is not started holds no action.                 *)
GateInv ==
    /\ life # "idle" => resetting
    /\ ~started => queue = <<>> /\ lastAction = NoAction

(* The pending flag is cleared only by a reset of the running epoch. *)
ProviderInv ==
    /\ ~resetPending => provider = epoch
    /\ wpc \in {"reset", "resetDone"} => resetPending
    /\ wpc \in {"resetDone", "check", "infer"} => provider = work.epoch

(* Committed actions, answers on their way, the attempt being made and the  *)
(* observation waiting are each newer than the ones before.                 *)
Committed == Queued \cup ({lastAction} \ {NoAction})
Answers ==
    pending \cup (IF dpc = "merge" /\ delivery.epoch = epoch
                  THEN {delivery} ELSE {})
Past == Committed \cup Answers
Attempting == wpc \notin {"dead", "wait", "observe"} /\ work.epoch = epoch
OrderInv ==
    /\ \A a \in Past :
         a.src <= currentStep /\ a.ord < ordinal /\ a.rev <= revision
    /\ mailbox # NoObs =>
         mailbox.step <= currentStep /\ \A a \in Past : a.src < mailbox.step
    /\ Attempting =>
         /\ work.src <= currentStep /\ work.ord < ordinal
         /\ work.rev <= revision
         /\ \A a \in Past : Contract!Newer(a, work)
         /\ mailbox # NoObs => work.src < mailbox.step
    /\ \A x, y \in Past : x.src < y.src => Contract!Newer(x, y)
    /\ Scheduler => \A a \in Committed : a.src <= latestDelivered

(* The robot starves only when it has nothing queued and nothing to hold. *)
StarvedInv == starved => queue = <<>> /\ ~MayHold

(* What the counters need.  A lifecycle call outruns the threads: while one  *)
(* runs, and after a stop, all they hold is of an earlier epoch.  Before the *)
(* first start nothing is counted, and after a stop start counts anew.       *)
(* Failures outstanding and the attempt in flight are requests of this       *)
(* episode, and no two answers on their way have the same source.            *)
ThreadsOutrun ==
    /\ life \in {"stopCancel", "stopJoin", "stopClose", "stopRelease"} => shutdown
    /\ resetting \/ shutdown => work.epoch < epoch /\ delivery.epoch < epoch
NothingBeforeStart ==
    ~started => pending = {} /\ (shutdown \/ metrics = ZeroMetrics)
FailuresOfEpisode ==
    /\ ~shutdown => failures + InFlight <= ordinal
    /\ connected <=> failures = 0
AnswersDiffer == \A p, q \in Answers : p.src = q.src => p = q
AccountInv ==
    /\ ThreadsOutrun /\ NothingBeforeStart /\ FailuresOfEpisode
    /\ IsFiniteSet(pending) /\ AnswersDiffer
    /\ AttemptsAccounted /\ ResponsesAccounted

InductiveInv ==
    /\ EpochOwnership /\ TeardownHoldsNoActions /\ GateInv
    /\ ThreadInv /\ ProviderInv /\ OrderInv /\ StarvedInv /\ AccountInv

(* As long as the caller leaves the engine running, an observation leads to *)
(* a decision about some chunk or to fatal: a request that fails before any *)
(* action exists is retried, never dropped.                                 *)
Open == started /\ active /\ EpochIsCurrent(epoch)
Waiting(e) ==
    /\ epoch = e /\ Open /\ currentStep >= 0
    /\ metrics["accepted"] + metrics["stale"] = 0
FirstChunkArrives ==
    \A e \in Epochs : Waiting(e) ~> ~Waiting(e)

(* Shutdown and fatal wake every blocked thread, and it ends. *)
ThreadsEnd ==
    (shutdown \/ fatal) ~>
        (wpc = "dead" /\ dpc = "dead") \/ (~shutdown /\ ~fatal)

(* An observation leads to a decision about some chunk or to fatal, and      *)
(* shutdown and fatal end both threads, wherever they are blocked.           *)
EngineEnds == FirstChunkArrives /\ ThreadsEnd
=============================================================================
