---------------------------- MODULE EngineProofs ----------------------------
(***************************************************************************)
(* Proofs about ActionStreamEngine for every configuration and every bound *)
(* on epochs, control steps and task revisions; and, at the end, about the *)
(* two clients that run the whole engine: the loop of RemoteEpisode and    *)
(* the robot's writer of Dispatcher.                                       *)
(***************************************************************************)
EXTENDS RemoteEpisode, Dispatcher, FiniteSetTheorems, TLAPS

-----------------------------------------------------------------------------
(* Type correctness *)

LEMMA TypeInit == Init => TypeOK
<1> SUFFICES ASSUME Init PROVE TypeOK
  OBVIOUS
<1> USE DEF ConfigAssumption, BoundAssumption, Epochs, Steps, Revisions
<1>1. FlagType
  BY Zenon DEF Init, FlagType
<1>2. LifecycleType
  BY BoundAssumption DEF Init, LifecycleType, LifePhases, NeverReset
<1>3. ObservationType
  BY DEF Init, ObservationType
<1>4. ActionType
  BY ConfigAssumption DEF Init, ActionType
<1>5. MetricType
  BY DEF Init, MetricType, ZeroMetrics
<1>6. ThreadType
  BY DEF Init, ThreadType, WorkerPhases, WorkerBusy, DeliveryBusy
<1> QED
  BY <1>1, <1>2, <1>3, <1>4, <1>5, <1>6 DEF TypeOK

(* The lemmas below take the parts of TypeOK one at a time. *)
LEMMA FlagTypeNext == FlagType /\ [Next]_vars => FlagType'
<1> SUFFICES ASSUME FlagType, [Next]_vars PROVE FlagType'
  OBVIOUS
<1> USE DEF FlagType, gateVars, episodeVars, actionVars, metricVars
<1>1. CASE LifecycleCall
  BY <1>1, Zenon DEF LifecycleCall, Start, StopBegin, ResetBegin, Invalidate,
       ForgetActions
<1>2. CASE LifecycleStep
  BY <1>2, ZenonT(60) DEF LifecycleStep, StopCancel, StopJoin, StopClose,
     StopRelease, ResetTransport, OpenGate, TransportCall, lifeFrame
<1>3. CASE ControlCall
  BY <1>3, ZenonT(60) DEF ControlCall, Pause, Resume, SetTask, NotifyObservation,
     GetAction, MayHold, callerFrame
<1>4. CASE WorkerStep
  <2>1. CASE WorkerExit \/ Admit \/ ResetProvider \/ CommitProviderReset
             \/ EnterTransport \/ TransportReturns
    BY <2>1, ZenonT(60) DEF WorkerExit, Admit, ResetProvider, CommitProviderReset,
       EnterTransport, TransportReturns, workerFrame
  <2>2. CASE MergeOwn
    BY <2>2, Zenon DEF MergeOwn, MergeDirect, AlignAndCommit, CommitAligned,
       CommitFallback, RejectStale, Replace, workerFrame
  <2>3. CASE CompleteInference \/ ScheduleDelivery \/ WorkerObserve
             \/ RecordFailure \/ GiveUp \/ Crash \/ Retry
    BY <2>3, ZenonT(60) DEF CompleteInference, ScheduleDelivery, WorkerObserve,
       RecordFailure, GiveUp, Crash, Retry, Observed, FatalFor, workerFrame
  <2> QED
    BY <1>4, <2>1, <2>2, <2>3 DEF WorkerStep
<1>5. CASE DeliveryStep
  <2>1. CASE MergeDelivery
    BY <2>1, Zenon DEF MergeDelivery, MergeScheduled, AlignAndCommit,
       CommitAligned, CommitFallback, RejectStale, Replace, deliveryFrame
  <2>2. CASE DeliveryExit \/ PopDelivery \/ DeliveryObserve
    BY <2>2, Zenon DEF DeliveryExit, PopDelivery, DeliveryObserve, Observed,
       FatalFor, deliveryFrame
  <2> QED
    BY <1>5, <2>1, <2>2 DEF DeliveryStep
<1>6. CASE UNCHANGED vars
  BY <1>6, Zenon DEF vars
<1> QED
  BY <1>1, <1>2, <1>3, <1>4, <1>5, <1>6 DEF Next

LEMMA LifecycleTypeNext == TypeOK /\ [Next]_vars => LifecycleType'
<1> SUFFICES ASSUME TypeOK, [Next]_vars PROVE LifecycleType'
  OBVIOUS
<1>1. LifecycleType /\ ThreadType
  BY DEF TypeOK
<1> USE <1>1, BoundAssumption
    DEF LifecycleType, LifePhases, Epochs, Revisions, gateVars, episodeVars,
        workVars, deliverVars, metricVars, actionVars, heapVars,
             BoundAssumption
<1>2. CASE LifecycleCall
  BY <1>2 DEF LifecycleCall, Start, StopBegin, ResetBegin, Invalidate,
       ForgetActions
<1>3. CASE LifecycleStep
  BY <1>3 DEF LifecycleStep, StopCancel, StopJoin, StopClose, StopRelease,
     ResetTransport, OpenGate, TransportCall, lifeFrame
<1>4. CASE ControlCall
  BY <1>4 DEF ControlCall, Pause, Resume, SetTask, NotifyObservation,
     GetAction, MayHold, callerFrame
<1>5. CASE WorkerStep
  <2>1. CASE ResetProvider
    BY <2>1 DEF ResetProvider, workerFrame, ThreadType, Items, NoItem,
         NeverReset,
       Epochs
  <2>2. CASE WorkerExit \/ Admit \/ CommitProviderReset \/ EnterTransport
             \/ TransportReturns \/ CompleteInference \/ MergeOwn
    BY <2>2 DEF WorkerExit, Admit, CommitProviderReset, EnterTransport,
       TransportReturns, CompleteInference, MergeOwn, workerFrame
  <2>3. CASE ScheduleDelivery \/ WorkerObserve \/ RecordFailure \/ GiveUp
             \/ Crash \/ Retry
    BY <2>3 DEF ScheduleDelivery, WorkerObserve, RecordFailure, GiveUp, Crash,
       Retry, Observed, FatalFor, workerFrame
  <2> QED
    BY <1>5, <2>1, <2>2, <2>3 DEF WorkerStep
<1>6. CASE DeliveryStep
  BY <1>6 DEF DeliveryStep, DeliveryExit, PopDelivery, MergeDelivery,
     DeliveryObserve, Observed, FatalFor, deliveryFrame
<1>7. CASE UNCHANGED vars
  BY <1>7 DEF vars
<1> QED
  BY <1>2, <1>3, <1>4, <1>5, <1>6, <1>7 DEF Next

(* A work item of the running epoch is a real one, not the placeholder. *)
LEMMA CurrentWorkIsItem ==
    TypeOK => /\ work.epoch = epoch => work \in Items
              /\ delivery.epoch = epoch => delivery \in Items
<1> SUFFICES ASSUME TypeOK
             PROVE  /\ work.epoch = epoch => work \in Items
                    /\ delivery.epoch = epoch => delivery \in Items
  OBVIOUS
<1>1. epoch \in Nat
  BY BoundAssumption DEF TypeOK, LifecycleType, Epochs, BoundAssumption
<1>2. work \in Items \cup {NoItem} /\ delivery \in Items \cup {NoItem}
  BY DEF TypeOK, ThreadType
<1>3. NoItem.epoch # epoch
  BY <1>1 DEF NoItem
<1> QED
  BY <1>2, <1>3

LEMMA ObservationTypeNext == TypeOK /\ [Next]_vars => ObservationType'
<1> SUFFICES ASSUME TypeOK, [Next]_vars PROVE ObservationType'
  OBVIOUS
<1>1. ObservationType /\ epoch \in Epochs
  BY DEF TypeOK, LifecycleType
<1> USE <1>1, BoundAssumption
    DEF ObservationType, gateVars, episodeVars, workVars, deliverVars,
        metricVars, actionVars, heapVars, BoundAssumption
<1>2. CASE LifecycleCall
  BY <1>2 DEF LifecycleCall, Start, StopBegin, ResetBegin, Invalidate,
       ForgetActions
<1>3. CASE LifecycleStep
  BY <1>3 DEF LifecycleStep, StopCancel, StopJoin, StopClose, StopRelease,
     ResetTransport, OpenGate, TransportCall, lifeFrame
<1>4. CASE Pause \/ Resume \/ SetTask \/ GetAction
  BY <1>4 DEF Pause, Resume, SetTask, GetAction, MayHold, callerFrame
<1>5. CASE NotifyObservation
  <2>1. currentStep' \in Steps
    BY <1>5 DEF NotifyObservation, Steps
  <2>2. mailbox' \in Observations \cup {NoObs}
    BY <1>5, <2>1 DEF NotifyObservation, Observations
  <2> QED
    BY <1>5, <2>1, <2>2 DEF NotifyObservation, callerFrame
<1>6. CASE Admit
  <2>1. mailbox \in Observations
    BY <1>6 DEF Admit
  <2> QED
    BY <1>6, <2>1 DEF Admit, Observations, workerFrame
<1>7. CASE Retry
  <2>1. work.epoch = epoch => work \in Items
    BY CurrentWorkIsItem
  <2>2. mailbox' \in Observations \cup {NoObs}
    BY <1>7, <2>1 DEF Retry, Items, Observations
  <2> QED
    BY <1>7, <2>2 DEF Retry, workerFrame
<1>8. CASE WorkerExit \/ ResetProvider \/ CommitProviderReset \/ EnterTransport
           \/ TransportReturns \/ CompleteInference \/ MergeOwn
  BY <1>8 DEF WorkerExit, ResetProvider, CommitProviderReset, EnterTransport,
     TransportReturns, CompleteInference, MergeOwn, workerFrame
<1>9. CASE ScheduleDelivery \/ WorkerObserve \/ RecordFailure \/ GiveUp
           \/ Crash
  BY <1>9 DEF ScheduleDelivery, WorkerObserve, RecordFailure, GiveUp, Crash,
     workerFrame
<1>10. CASE DeliveryStep
  BY <1>10 DEF DeliveryStep, DeliveryExit, PopDelivery, MergeDelivery,
     DeliveryObserve, deliveryFrame
<1>11. CASE UNCHANGED vars
  BY <1>11 DEF vars
<1> QED
  BY <1>2, <1>3, <1>4, <1>5, <1>6, <1>7, <1>8, <1>9, <1>10, <1>11
     DEF Next, ControlCall, WorkerStep

(* What a merge installs is a sequence of actions. *)
LEMMA TailFromType ==
    ASSUME NEW item \in Items, NEW d \in Nat
    PROVE  TailFrom(item, d) \in Seq(Actions)
<1>1. item.len - d \in Int
  BY DEF Items
<1>2. \A i \in 1..(item.len - d) : ActionOf(item, d + i - 1) \in Actions
  BY <1>1 DEF Items, Actions, ActionOf
<1>3. CASE item.len - d \in Nat
  BY <1>2, <1>3 DEF TailFrom
<1>4. CASE item.len - d \notin Nat
  <2>1. 1..(item.len - d) = {} /\ 1..0 = {}
    BY <1>1, <1>4
  <2>2. TailFrom(item, d) = [i \in 1..0 |-> ActionOf(item, d + i - 1)]
    BY <2>1 DEF TailFrom
  <2> QED
    BY <2>1, <2>2
<1> QED
  BY <1>3, <1>4

LEMMA AlignAndCommitType ==
    ASSUME TypeOK, NEW item \in Items, NEW C, AlignAndCommit(item, C)
    PROVE  /\ queue' \in Seq(Actions)
           /\ lastAction' \in Actions \cup {NoAction}
           /\ hold' \in 0..BoundedHold
<1>1. ActionType
  BY DEF TypeOK
<1>2. Age(item) \in Nat
  BY BoundAssumption
     DEF TypeOK, ObservationType, Steps, Age, Items, BoundAssumption
<1>3. /\ TailFrom(item, 0) \in Seq(Actions)
      /\ TailFrom(item, Age(item)) \in Seq(Actions)
  BY <1>2, TailFromType
<1> QED
  BY <1>1, <1>3, ConfigAssumption
     DEF AlignAndCommit, CommitAligned, CommitFallback, RejectStale, Replace,
         actionVars, ActionType, ConfigAssumption

LEMMA ActionTypeNext == TypeOK /\ [Next]_vars => ActionType'
<1> SUFFICES ASSUME TypeOK, [Next]_vars PROVE ActionType'
  OBVIOUS
<1>1. ActionType
  BY DEF TypeOK
<1> USE <1>1
    DEF ActionType, gateVars, episodeVars, workVars, deliverVars, metricVars,
        actionVars, heapVars
<1>2. CASE LifecycleCall
  <2>1. <<>> \in Seq(Actions) /\ 0 \in 0..BoundedHold
    BY ConfigAssumption DEF ConfigAssumption
  <2>2. CASE Start
    BY <2>2 DEF Start
  <2>3. CASE StopBegin \/ ResetBegin
    BY <2>1, <2>3 DEF StopBegin, ResetBegin, Invalidate, ForgetActions
  <2> QED
    BY <1>2, <2>2, <2>3 DEF LifecycleCall
<1>3. CASE LifecycleStep
  BY <1>3 DEF LifecycleStep, StopCancel, StopJoin, StopClose, StopRelease,
     ResetTransport, OpenGate, TransportCall, lifeFrame
<1>4. CASE Pause \/ Resume \/ SetTask \/ NotifyObservation
  BY <1>4 DEF Pause, Resume, SetTask, NotifyObservation, callerFrame
<1>5. CASE GetAction
  <2>1. CASE queue # <<>>
    <3>1. Head(queue) \in Actions /\ Tail(queue) \in Seq(Actions)
      BY <2>1
    <3> QED
      BY <1>5, <2>1, <3>1, ConfigAssumption
         DEF GetAction, MayHold, callerFrame, ConfigAssumption
  <2>2. CASE queue = <<>>
    <3>1. hold' \in 0..BoundedHold
      BY <1>5, <2>2, ConfigAssumption DEF GetAction, MayHold, ConfigAssumption
    <3> QED
      BY <1>5, <2>2, <3>1 DEF GetAction, MayHold, callerFrame
  <2> QED
    BY <2>1, <2>2
<1>6. CASE MergeOwn
  <2>1. work.epoch = epoch => work \in Items
    BY CurrentWorkIsItem
  <2> QED
    BY <1>6, <2>1, AlignAndCommitType
       DEF MergeOwn, MergeDirect, EpochIsCurrent
<1>7. CASE ScheduleDelivery
  <2>1. work.epoch = epoch => work \in Items
    BY CurrentWorkIsItem
  <2> QED
    BY <1>7, <2>1 DEF ScheduleDelivery, EpochIsCurrent
<1>8. CASE WorkerExit \/ Admit \/ ResetProvider \/ CommitProviderReset
           \/ EnterTransport \/ TransportReturns \/ CompleteInference
  BY <1>8 DEF WorkerExit, Admit, ResetProvider, CommitProviderReset,
     EnterTransport, TransportReturns, CompleteInference
<1>9. CASE WorkerObserve \/ RecordFailure \/ GiveUp \/ Crash \/ Retry
  BY <1>9 DEF WorkerObserve, RecordFailure, GiveUp, Crash, Retry
<1>10. CASE MergeDelivery
  <2>1. delivery.epoch = epoch => delivery \in Items
    BY CurrentWorkIsItem
  <2>2. latestDelivered' \in Steps \cup {-1}
    BY <1>10, <2>1 DEF MergeDelivery, MergeScheduled, EpochIsCurrent, Items
  <2> QED
    BY <1>10, <2>1, <2>2, AlignAndCommitType
       DEF MergeDelivery, MergeScheduled, EpochIsCurrent
<1>11. CASE DeliveryExit \/ PopDelivery \/ DeliveryObserve
  BY <1>11 DEF DeliveryExit, PopDelivery, DeliveryObserve
<1>12. CASE UNCHANGED vars
  BY <1>12 DEF vars
<1> QED
  BY <1>2, <1>3, <1>4, <1>5, <1>6, <1>7, <1>8, <1>9, <1>10, <1>11, <1>12
     DEF Next, ControlCall, WorkerStep, DeliveryStep

LEMMA MetricTypeNext == TypeOK /\ [Next]_vars => MetricType'
<1> SUFFICES ASSUME TypeOK, [Next]_vars PROVE MetricType'
  OBVIOUS
<1>1. MetricType
  BY DEF TypeOK
<1>2. \A C : Bump(C) \in [Counters -> Nat]
  BY <1>1 DEF MetricType, Bump
<1>3. ZeroMetrics \in [Counters -> Nat]
  BY DEF ZeroMetrics
<1> USE <1>1, <1>2, <1>3
    DEF MetricType, gateVars, episodeVars, workVars, deliverVars, metricVars,
        actionVars, heapVars
<1>4. CASE LifecycleCall
  BY <1>4 DEF LifecycleCall, Start, StopBegin, ResetBegin
<1>5. CASE LifecycleStep
  BY <1>5 DEF LifecycleStep, StopCancel, StopJoin, StopClose, StopRelease,
     ResetTransport, OpenGate, TransportCall, lifeFrame
<1>6. CASE ControlCall
  BY <1>6 DEF ControlCall, Pause, Resume, SetTask, NotifyObservation,
     GetAction, MayHold, callerFrame
<1>7. CASE WorkerExit \/ Admit \/ ResetProvider \/ CommitProviderReset
           \/ EnterTransport \/ TransportReturns \/ CompleteInference
  BY <1>7 DEF WorkerExit, Admit, ResetProvider, CommitProviderReset,
     EnterTransport, TransportReturns, CompleteInference
<1>8. CASE MergeOwn
  BY <1>8 DEF MergeOwn, MergeDirect, AlignAndCommit, CommitAligned,
     CommitFallback, RejectStale, Replace
<1>9. CASE ScheduleDelivery \/ WorkerObserve \/ RecordFailure \/ GiveUp
           \/ Crash \/ Retry
  BY <1>9 DEF ScheduleDelivery, WorkerObserve, RecordFailure, GiveUp, Crash,
     Retry
<1>10. CASE MergeDelivery
  BY <1>10 DEF MergeDelivery, MergeScheduled, AlignAndCommit, CommitAligned,
     CommitFallback, RejectStale, Replace, deliveryFrame
<1>11. CASE DeliveryExit \/ PopDelivery \/ DeliveryObserve
  BY <1>11 DEF DeliveryExit, PopDelivery, DeliveryObserve, deliveryFrame
<1>12. CASE UNCHANGED vars
  BY <1>12 DEF vars
<1> QED
  BY <1>4, <1>5, <1>6, <1>7, <1>8, <1>9, <1>10, <1>11, <1>12
     DEF Next, WorkerStep, DeliveryStep

LEMMA ThreadTypeNext == TypeOK /\ [Next]_vars => ThreadType'
<1> SUFFICES ASSUME TypeOK, [Next]_vars PROVE ThreadType'
  OBVIOUS
<1>1. ThreadType
  BY DEF TypeOK
<1> USE <1>1
    DEF ThreadType, WorkerPhases, WorkerBusy, DeliveryBusy, gateVars,
        episodeVars, workVars, deliverVars, metricVars, actionVars, heapVars
<1>2. CASE LifecycleCall
  BY <1>2 DEF LifecycleCall, Start, StopBegin, ResetBegin
<1>3. CASE LifecycleStep
  BY <1>3 DEF LifecycleStep, StopCancel, StopJoin, StopClose, StopRelease,
     ResetTransport, OpenGate, TransportCall, lifeFrame
<1>4. CASE ControlCall
  BY <1>4 DEF ControlCall, Pause, Resume, SetTask, NotifyObservation,
     GetAction, MayHold, callerFrame
<1>5. CASE Admit
  <2>1. /\ mailbox \in Observations /\ revision \in Revisions
        /\ ordinal \in Nat
    BY <1>5 DEF Admit, TypeOK, ObservationType, LifecycleType
  <2>2. work' \in Items
    BY <1>5, <2>1 DEF Admit, Observations, Items
  <2> QED
    BY <1>5, <2>2 DEF Admit, workerFrame
<1>6. CASE TransportReturns
  <2>1. work \in Items
    BY <1>6 DEF TransportReturns
  <2>2. work' \in Items
    BY <1>6, <2>1, ConfigAssumption
       DEF TransportReturns, Items, ConfigAssumption
  <2> QED
    BY <1>6, <2>2 DEF TransportReturns, workerFrame
<1>7. CASE WorkerExit \/ ResetProvider \/ CommitProviderReset \/ EnterTransport
           \/ CompleteInference \/ MergeOwn
  BY <1>7 DEF WorkerExit, ResetProvider, CommitProviderReset, EnterTransport,
     CompleteInference, MergeOwn, workerFrame
<1>8. CASE ScheduleDelivery \/ WorkerObserve \/ RecordFailure \/ GiveUp
           \/ Crash \/ Retry
  BY <1>8 DEF ScheduleDelivery, WorkerObserve, RecordFailure, GiveUp, Crash,
     Retry, workerFrame
<1>9. CASE PopDelivery
  BY <1>9 DEF PopDelivery, deliveryFrame, TypeOK, ActionType
<1>10. CASE DeliveryExit \/ MergeDelivery \/ DeliveryObserve
  BY <1>10 DEF DeliveryExit, MergeDelivery, DeliveryObserve, deliveryFrame
<1>11. CASE UNCHANGED vars
  BY <1>11 DEF vars
<1> QED
  BY <1>2, <1>3, <1>4, <1>5, <1>6, <1>7, <1>8, <1>9, <1>10, <1>11
     DEF Next, WorkerStep, DeliveryStep

(* Every variable keeps its type in every reachable state. *)
THEOREM TypeCorrect == Spec => []TypeOK
<1>1. Init => TypeOK
  BY TypeInit
<1>2. TypeOK /\ [Next]_vars => TypeOK'
  BY FlagTypeNext, LifecycleTypeNext, ObservationTypeNext, ActionTypeNext,
     MetricTypeNext, ThreadTypeNext DEF TypeOK
<1> QED
  BY <1>1, <1>2, PTL DEF Spec

-----------------------------------------------------------------------------
(* Epoch ownership and the closed gate *)

LEMMA TailFromElements ==
    ASSUME NEW item \in Items, NEW d \in Nat
    PROVE  \A i \in 1..Len(TailFrom(item, d)) :
               /\ i \in 1..(item.len - d)
               /\ TailFrom(item, d)[i] = ActionOf(item, d + i - 1)
<1>1. item.len - d \in Int
  BY DEF Items
<1>2. TailFrom(item, d) \in Seq(Actions)
  BY TailFromType
<1>3. DOMAIN TailFrom(item, d) = 1..(item.len - d)
  BY DEF TailFrom
<1>4. 1..Len(TailFrom(item, d)) = 1..(item.len - d)
  BY <1>2, <1>3
<1> QED
  BY <1>4 DEF TailFrom

LEMMA AgeType == TypeOK => \A item \in Items : Age(item) \in Nat
BY BoundAssumption
   DEF TypeOK, ObservationType, Steps, Age, Items, BoundAssumption

(* After a merge the queue is what it was, or it is made of the item.      *)
MadeOf(a, item) ==
    /\ a.epoch = item.epoch /\ a.rev = item.rev
    /\ a.ord = item.ord /\ a.src = item.src

LEMMA MergedQueue ==
    ASSUME TypeOK, NEW item \in Items, NEW C, AlignAndCommit(item, C)
    PROVE  /\ lastAction' = lastAction
           /\ \/ queue' = queue
              \/ \A i \in 1..Len(queue') : MadeOf(queue'[i], item)
<1>1. Age(item) \in Nat
  BY AgeType
<1>2. ASSUME NEW d \in {0, Age(item)}, NEW i \in 1..Len(TailFrom(item, d))
      PROVE  MadeOf(TailFrom(item, d)[i], item)
  <2>1. d \in Nat
    BY <1>1
  <2>2. TailFrom(item, d)[i] = ActionOf(item, d + i - 1)
    BY <2>1, TailFromElements
  <2> QED
    BY <2>2 DEF ActionOf, MadeOf
<1> QED
  BY <1>2 DEF AlignAndCommit, CommitAligned, CommitFallback, RejectStale,
     Replace, actionVars

LEMMA OwnershipNext ==
    TypeOK /\ EpochOwnership /\ [Next]_vars => EpochOwnership'
<1> SUFFICES ASSUME TypeOK, EpochOwnership, [Next]_vars PROVE EpochOwnership'
  OBVIOUS
<1> USE DEF EpochOwnership, gateVars, episodeVars, workVars, deliverVars,
        metricVars, actionVars, heapVars
<1>1. queue \in Seq(Actions)
  BY DEF TypeOK, ActionType
<1>2. CASE Start
  BY <1>2 DEF Start
<1>3. CASE StopBegin \/ ResetBegin
  BY <1>3 DEF StopBegin, ResetBegin, Invalidate, ForgetActions
<1>4. CASE LifecycleStep
  BY <1>4 DEF LifecycleStep, StopCancel, StopJoin, StopClose, StopRelease,
     ResetTransport, OpenGate, TransportCall, lifeFrame
<1>5. CASE Pause \/ Resume \/ SetTask \/ NotifyObservation
  BY <1>5 DEF Pause, Resume, SetTask, NotifyObservation, callerFrame
<1>6. CASE GetAction
  <2>1. CASE queue # <<>>
    <3>1. /\ lastAction' = queue[1] /\ 1 \in 1..Len(queue)
          /\ \A i \in 1..Len(queue') :
                i + 1 \in 1..Len(queue) /\ queue'[i] = queue[i + 1]
      BY <1>1, <1>6, <2>1 DEF GetAction, MayHold
    <3> QED
      BY <1>6, <3>1 DEF GetAction, MayHold, callerFrame
  <2>2. CASE queue = <<>>
    BY <1>6, <2>2 DEF GetAction, MayHold, callerFrame
  <2> QED
    BY <2>1, <2>2
<1>7. CASE MergeOwn
  <2>1. CASE EpochIsCurrent(work.epoch)
    <3>1. work \in Items /\ work.epoch = epoch
      BY <2>1, CurrentWorkIsItem DEF EpochIsCurrent
    <3>2. AlignAndCommit(work, {})
      BY <1>7, <2>1 DEF MergeOwn, MergeDirect
    <3>3. /\ lastAction' = lastAction
          /\ \/ queue' = queue
             \/ \A i \in 1..Len(queue') : MadeOf(queue'[i], work)
      BY <3>1, <3>2, MergedQueue
    <3>4. \A i \in 1..Len(queue') : queue'[i].epoch = epoch
      BY <3>1, <3>3 DEF MadeOf
    <3>5. UNCHANGED <<epoch, mailbox, pending, lastAction>>
      BY <1>7, <2>1, <3>3 DEF MergeOwn, MergeDirect, workerFrame
    <3> QED
      BY <3>4, <3>5
  <2>2. CASE ~EpochIsCurrent(work.epoch)
    BY <1>7, <2>2 DEF MergeOwn, MergeDirect, workerFrame
  <2> QED
    BY <2>1, <2>2
<1>8. CASE ScheduleDelivery
  BY <1>8 DEF ScheduleDelivery, EpochIsCurrent, workerFrame
<1>9. CASE WorkerExit \/ Admit \/ ResetProvider \/ CommitProviderReset
           \/ EnterTransport \/ TransportReturns \/ CompleteInference
  BY <1>9 DEF WorkerExit, Admit, ResetProvider, CommitProviderReset,
     EnterTransport, TransportReturns, CompleteInference, workerFrame
<1>10. CASE WorkerObserve \/ RecordFailure \/ GiveUp \/ Crash \/ Retry
  BY <1>10 DEF WorkerObserve, RecordFailure, GiveUp, Crash, Retry, workerFrame
<1>11. CASE MergeDelivery
  <2>1. CASE EpochIsCurrent(delivery.epoch) /\ delivery.src > latestDelivered
    <3>1. delivery \in Items /\ delivery.epoch = epoch
      BY <2>1, CurrentWorkIsItem DEF EpochIsCurrent
    <3>2. AlignAndCommit(delivery, {"delivered"})
      BY <1>11, <2>1, <3>1, BoundAssumption
         DEF MergeDelivery, MergeScheduled, TypeOK, ActionType, Items, Steps,
             BoundAssumption
    <3>3. /\ lastAction' = lastAction
          /\ \/ queue' = queue
             \/ \A i \in 1..Len(queue') : MadeOf(queue'[i], delivery)
      BY <3>1, <3>2, MergedQueue
    <3>4. \A i \in 1..Len(queue') : queue'[i].epoch = epoch
      BY <3>1, <3>3 DEF MadeOf
    <3>5. UNCHANGED <<epoch, mailbox, pending, lastAction>>
      BY <1>11, <2>1, <3>3 DEF MergeDelivery, MergeScheduled, deliveryFrame
    <3> QED
      BY <3>4, <3>5
  <2>2. CASE ~(EpochIsCurrent(delivery.epoch) /\ delivery.src > latestDelivered)
    BY <1>11, <2>2 DEF MergeDelivery, MergeScheduled, deliveryFrame
  <2> QED
    BY <2>1, <2>2
<1>12. CASE DeliveryExit \/ PopDelivery \/ DeliveryObserve
  BY <1>12 DEF DeliveryExit, PopDelivery, DeliveryObserve, deliveryFrame
<1>13. CASE UNCHANGED vars
  BY <1>13 DEF vars
<1> QED
  BY <1>2, <1>3, <1>4, <1>5, <1>6, <1>7, <1>8, <1>9, <1>10, <1>11, <1>12,
     <1>13 DEF Next, LifecycleCall, ControlCall, WorkerStep, DeliveryStep

LEMMA TeardownNext ==
    TeardownHoldsNoActions /\ [Next]_vars => TeardownHoldsNoActions'
<1> SUFFICES ASSUME TeardownHoldsNoActions, [Next]_vars
             PROVE  TeardownHoldsNoActions'
  OBVIOUS
<1> USE DEF TeardownHoldsNoActions, gateVars, episodeVars, workVars,
        deliverVars, metricVars, actionVars, heapVars
<1>1. CASE LifecycleCall
  BY <1>1 DEF LifecycleCall, Start, StopBegin, ResetBegin, Invalidate,
       ForgetActions
<1>2. CASE LifecycleStep
  BY <1>2 DEF LifecycleStep, StopCancel, StopJoin, StopClose, StopRelease,
     ResetTransport, OpenGate, TransportCall, lifeFrame
<1>3. CASE ControlCall
  BY <1>3 DEF ControlCall, Pause, Resume, SetTask, NotifyObservation,
     GetAction, MayHold, EpochIsCurrent, callerFrame
<1>4. CASE WorkerExit \/ Admit \/ ResetProvider \/ CommitProviderReset
           \/ EnterTransport \/ TransportReturns \/ CompleteInference
  BY <1>4 DEF WorkerExit, Admit, ResetProvider, CommitProviderReset,
     EnterTransport, TransportReturns, CompleteInference, workerFrame
<1>5. CASE MergeOwn
  BY <1>5 DEF MergeOwn, MergeDirect, EpochIsCurrent, workerFrame
<1>6. CASE ScheduleDelivery \/ WorkerObserve \/ RecordFailure \/ GiveUp
           \/ Crash \/ Retry
  BY <1>6 DEF ScheduleDelivery, WorkerObserve, RecordFailure, GiveUp, Crash,
     Retry, EpochIsCurrent, workerFrame
<1>7. CASE DeliveryStep
  BY <1>7 DEF DeliveryStep, DeliveryExit, PopDelivery, MergeDelivery,
     MergeScheduled, DeliveryObserve, EpochIsCurrent, deliveryFrame
<1>8. CASE UNCHANGED vars
  BY <1>8 DEF vars
<1> QED
  BY <1>1, <1>2, <1>3, <1>4, <1>5, <1>6, <1>7, <1>8 DEF Next, WorkerStep

LEMMA GateNext ==
    TeardownHoldsNoActions /\ ThreadInv /\ GateInv /\ [Next]_vars => GateInv'
<1> SUFFICES ASSUME TeardownHoldsNoActions, ThreadInv, GateInv, [Next]_vars
             PROVE  GateInv'
  OBVIOUS
<1> USE DEF GateInv, gateVars, episodeVars, workVars, deliverVars, metricVars,
        actionVars, heapVars
<1>1. CASE LifecycleCall
  BY <1>1 DEF LifecycleCall, Start, StopBegin, ResetBegin, Invalidate,
       ForgetActions
<1>2. CASE LifecycleStep
  BY <1>2 DEF LifecycleStep, StopCancel, StopJoin, StopClose, StopRelease,
     ResetTransport, OpenGate, TransportCall, lifeFrame, TeardownHoldsNoActions
<1>3. CASE ControlCall
  BY <1>3 DEF ControlCall, Pause, Resume, SetTask, NotifyObservation,
     GetAction, MayHold, callerFrame
<1>4. CASE WorkerStep
  <2>1. wpc # "dead"
    BY <1>4 DEF WorkerStep, WorkerExit, Admit, ResetProvider,
       CommitProviderReset, EnterTransport, TransportReturns,
       CompleteInference, MergeOwn, ScheduleDelivery, WorkerObserve,
       RecordFailure, GiveUp, Crash, Retry
  <2>2. started /\ UNCHANGED <<life, resetting, started>>
    BY <1>4, <2>1 DEF WorkerStep, WorkerExit, Admit, ResetProvider,
       CommitProviderReset, EnterTransport, TransportReturns,
       CompleteInference, MergeOwn, ScheduleDelivery, WorkerObserve,
       RecordFailure, GiveUp, Crash, Retry, workerFrame, ThreadInv, SingleOwner
  <2> QED
    BY <2>2
<1>5. CASE DeliveryStep
  <2>1. dpc # "dead" /\ UNCHANGED <<life, resetting, started>>
    BY <1>5 DEF DeliveryStep, DeliveryExit, PopDelivery, MergeDelivery,
       DeliveryObserve, deliveryFrame
  <2> QED
    BY <2>1 DEF ThreadInv, SingleOwner
<1>6. CASE UNCHANGED vars
  BY <1>6 DEF vars
<1> QED
  BY <1>1, <1>2, <1>3, <1>4, <1>5, <1>6 DEF Next

-----------------------------------------------------------------------------
(* One policy owner, and policy state reset in the attempt's own episode *)

LEMMA ThreadNext ==
    TypeOK /\ EpochOwnership /\ ThreadInv /\ [Next]_vars => ThreadInv'
<1> SUFFICES ASSUME TypeOK, EpochOwnership, ThreadInv, [Next]_vars
             PROVE  ThreadInv'
  OBVIOUS
<1>1. epoch \in Nat /\ work.epoch \in Int /\ delivery.epoch \in Int
  BY BoundAssumption
     DEF TypeOK, LifecycleType, ThreadType, Items, NoItem, Epochs,
         BoundAssumption
<1> USE <1>1
    DEF ThreadInv, SingleOwner, gateVars, episodeVars, workVars,
        deliverVars, metricVars, actionVars, heapVars, NoItem
<1>2. CASE LifecycleCall
  <2>1. CASE Start
    BY <2>1 DEF Start
  <2>2. CASE StopBegin \/ ResetBegin
    BY <2>2 DEF StopBegin, ResetBegin, Invalidate, ForgetActions
  <2> QED
    BY <1>2, <2>1, <2>2 DEF LifecycleCall
<1>3. CASE LifecycleStep
  BY <1>3 DEF LifecycleStep, StopCancel, StopJoin, StopClose, StopRelease,
     ResetTransport, OpenGate, TransportCall, lifeFrame
<1>4. CASE ControlCall
  BY <1>4 DEF ControlCall, Pause, Resume, SetTask, NotifyObservation,
     GetAction, MayHold, callerFrame
<1>5. CASE Admit
  BY <1>5 DEF Admit, EpochOwnership, workerFrame
<1>6. CASE TransportReturns
  <2>1. work \in Items
    BY <1>6 DEF TransportReturns, TypeOK, ThreadType, WorkerBusy
  <2>2. work'.epoch = work.epoch /\ (wpc' = "answered" => work'.len > 0)
    BY <1>6, <2>1, ConfigAssumption
       DEF TransportReturns, Items, ConfigAssumption
  <2> QED
    BY <1>6, <2>2 DEF TransportReturns, workerFrame
<1>7. CASE WorkerExit \/ ResetProvider \/ CommitProviderReset \/ EnterTransport
           \/ MergeOwn
  BY <1>7 DEF WorkerExit, ResetProvider, CommitProviderReset, EnterTransport,
     MergeOwn, MergeDirect, workerFrame
<1>8. CASE CompleteInference
  <2>1. \/ wpc' = "wait" /\ work' = NoItem
        \/ wpc' = "schedule" /\ Scheduler /\ UNCHANGED work
        \/ wpc' = "merge" /\ ~Scheduler /\ UNCHANGED work
    BY <1>8, Zenon DEF CompleteInference
  <2>2. /\ wpc = "answered"
        /\ UNCHANGED <<life, started, epoch, pending, dpc, delivery>>
    BY <1>8 DEF CompleteInference, workerFrame
  <2> QED
    BY <2>1, <2>2
<1>9. CASE ScheduleDelivery
  BY <1>9 DEF ScheduleDelivery, workerFrame
<1>10. CASE WorkerObserve \/ RecordFailure \/ GiveUp \/ Crash \/ Retry
  BY <1>10 DEF WorkerObserve, RecordFailure, GiveUp, Crash, Retry, workerFrame
<1>11. CASE DeliveryStep
  BY <1>11 DEF DeliveryStep, DeliveryExit, PopDelivery, MergeDelivery,
     MergeScheduled, DeliveryObserve, EpochOwnership, deliveryFrame
<1>12. CASE UNCHANGED vars
  BY <1>12 DEF vars
<1> QED
  BY <1>2, <1>3, <1>4, <1>5, <1>6, <1>7, <1>8, <1>9, <1>10, <1>11, <1>12
     DEF Next, WorkerStep

LEMMA ProviderNext ==
    TypeOK /\ EpochOwnership /\ ProviderInv /\ [Next]_vars => ProviderInv'
<1> SUFFICES ASSUME TypeOK, EpochOwnership, ProviderInv, [Next]_vars
             PROVE  ProviderInv'
  OBVIOUS
<1> USE DEF ProviderInv, gateVars, episodeVars, workVars, deliverVars,
        metricVars, actionVars, heapVars
<1>1. CASE LifecycleCall
  BY <1>1 DEF LifecycleCall, Start, StopBegin, ResetBegin, Invalidate,
       ForgetActions
<1>2. CASE LifecycleStep
  BY <1>2 DEF LifecycleStep, StopCancel, StopJoin, StopClose, StopRelease,
     ResetTransport, OpenGate, TransportCall, lifeFrame
<1>3. CASE ControlCall
  BY <1>3 DEF ControlCall, Pause, Resume, SetTask, NotifyObservation,
     GetAction, MayHold, callerFrame
<1>4. CASE Admit
  <2>1. wpc' \in {"reset", "check"} /\ (wpc' = "reset" <=> resetPending)
    BY <1>4 DEF Admit
  <2>2. work'.epoch = epoch
    BY <1>4 DEF Admit, EpochOwnership
  <2> QED
    BY <1>4, <2>1, <2>2 DEF Admit, workerFrame
<1>5. CASE ResetProvider \/ CommitProviderReset \/ EnterTransport
  BY <1>5 DEF ResetProvider, CommitProviderReset, EnterTransport,
     EpochIsCurrent, workerFrame
<1>6. CASE WorkerExit \/ TransportReturns \/ CompleteInference \/ MergeOwn
  BY <1>6 DEF WorkerExit, TransportReturns, CompleteInference, MergeOwn,
     workerFrame
<1>7. CASE ScheduleDelivery \/ WorkerObserve \/ RecordFailure \/ GiveUp
           \/ Crash \/ Retry
  BY <1>7 DEF ScheduleDelivery, WorkerObserve, RecordFailure, GiveUp, Crash,
     Retry, workerFrame
<1>8. CASE DeliveryStep
  BY <1>8 DEF DeliveryStep, DeliveryExit, PopDelivery, MergeDelivery,
     DeliveryObserve, deliveryFrame
<1>9. CASE UNCHANGED vars
  BY <1>9 DEF vars
<1> QED
  BY <1>1, <1>2, <1>3, <1>4, <1>5, <1>6, <1>7, <1>8, <1>9
     DEF Next, WorkerStep

-----------------------------------------------------------------------------
(* Order of observations, attempts, answers and commits *)

LEMMA OrderTypes ==
    ASSUME TypeOK
    PROVE  /\ \A a \in Past : a.src \in Int /\ a.ord \in Int /\ a.rev \in Int
           /\ Attempting => work \in Items
           /\ work \in Items =>
                work.src \in Int /\ work.ord \in Int /\ work.rev \in Int
           /\ currentStep \in Int /\ ordinal \in Int /\ revision \in Int
           /\ latestDelivered \in Int
           /\ mailbox # NoObs => mailbox.step \in Int
<1> USE BoundAssumption DEF BoundAssumption, Steps, Revisions, Epochs
<1>1. \A a \in Actions \cup Items :
          a.src \in Int /\ a.ord \in Int /\ a.rev \in Int
  BY DEF Actions, Items
<1>2. Committed \subseteq Actions
  <2>1. queue \in Seq(Actions) /\ lastAction \in Actions \cup {NoAction}
    BY DEF TypeOK, ActionType
  <2>2. Queued \subseteq Actions
    BY <2>1 DEF Queued
  <2> QED
    BY <2>1, <2>2 DEF Committed
<1>3. Answers \subseteq Items
  BY DEF TypeOK, ActionType, ThreadType, DeliveryBusy, Answers
<1>4. Attempting => work \in Items
  BY CurrentWorkIsItem DEF Attempting
<1>5. /\ currentStep \in Int /\ ordinal \in Int /\ revision \in Int
      /\ latestDelivered \in Int /\ (mailbox # NoObs => mailbox.step \in Int)
  BY DEF TypeOK, ObservationType, LifecycleType, ActionType, Observations
<1> QED
  BY <1>1, <1>2, <1>3, <1>4, <1>5 DEF Past

Twin(a, b) == a.src = b.src /\ a.ord = b.ord /\ a.rev = b.rev

(* The usual step: what is committed or answered afterwards was so before,  *)
(* or comes from the attempt, which is then over.                           *)
LEMMA OrderFrame ==
    ASSUME TypeOK, TypeOK', OrderInv,
           currentStep' = currentStep, mailbox' = mailbox, ordinal' = ordinal,
           revision <= revision',
           \A a \in Past' :
               \/ \E b \in Past : Twin(a, b)
               \/ Attempting /\ ~Attempting' /\ Twin(a, work),
           Attempting' => Attempting /\ Twin(work', work),
           Scheduler => \A a \in Committed' : a.src <= latestDelivered'
    PROVE  OrderInv'
<1> USE DEF Twin, Contract!Newer
<1>1. /\ \A a \in Past : a.src \in Int /\ a.ord \in Int /\ a.rev \in Int
      /\ Attempting => work.src \in Int /\ work.ord \in Int /\ work.rev \in Int
      /\ currentStep \in Int /\ ordinal \in Int /\ revision \in Int
      /\ revision' \in Int
      /\ mailbox # NoObs => mailbox.step \in Int
  <2>1. revision' \in Int
    BY BoundAssumption
       DEF TypeOK, LifecycleType, Revisions, BoundAssumption
  <2> QED
    BY <2>1, OrderTypes
<1>2. ASSUME NEW a \in Past'
      PROVE  /\ a.src <= currentStep' /\ a.ord < ordinal' /\ a.rev <= revision'
             /\ mailbox' # NoObs => a.src < mailbox'.step
             /\ Attempting' => Contract!Newer(a, work')
  <2>1. CASE \E b \in Past : Twin(a, b)
    <3>1. PICK b \in Past : Twin(a, b)
      BY <2>1
    <3> QED
      BY <3>1, <1>1 DEF OrderInv
  <2>2. CASE Attempting /\ ~Attempting' /\ Twin(a, work)
    BY <2>2, <1>1 DEF OrderInv
  <2> QED
    BY <1>2, <2>1, <2>2
<1>3. ASSUME NEW x \in Past', NEW y \in Past', x.src < y.src
      PROVE  Contract!Newer(x, y)
  <2>1. CASE \E b \in Past : Twin(x, b)
    <3>1. PICK b \in Past : Twin(x, b)
      BY <2>1
    <3>2. CASE \E c \in Past : Twin(y, c)
      <4>1. PICK c \in Past : Twin(y, c)
        BY <3>2
      <4> QED
        BY <3>1, <4>1, <1>1, <1>3 DEF OrderInv
    <3>3. CASE Attempting /\ Twin(y, work)
      BY <3>1, <3>3, <1>1, <1>3 DEF OrderInv
    <3> QED
      BY <3>2, <3>3
  <2>2. CASE Attempting /\ Twin(x, work)
    <3>1. CASE \E c \in Past : Twin(y, c)
      <4>1. PICK c \in Past : Twin(y, c)
        BY <3>1
      <4> QED
        BY <2>2, <4>1, <1>1, <1>3 DEF OrderInv
    <3>2. CASE Attempting /\ Twin(y, work)
      BY <2>2, <3>2, <1>1, <1>3
    <3> QED
      BY <3>1, <3>2
  <2> QED
    BY <2>1, <2>2
<1>4. mailbox' # NoObs => mailbox'.step <= currentStep'
  BY DEF OrderInv
<1>5. Attempting' => /\ work'.src <= currentStep' /\ work'.ord < ordinal'
                     /\ work'.rev <= revision'
                     /\ mailbox' # NoObs => work'.src < mailbox'.step
  BY <1>1 DEF OrderInv
<1> QED
  BY <1>2, <1>3, <1>4, <1>5 DEF OrderInv, NoObs

(* Steps that leave the queue, the heap and the thread's hands alone. *)
LEMMA OrderUntouched ==
    ASSUME TypeOK, TypeOK', OrderInv,
           UNCHANGED <<currentStep, mailbox, ordinal, revision, epoch,
                       pending, latestDelivered, queue, lastAction,
                       dpc, delivery>>,
           Attempting' => Attempting /\ Twin(work', work)
    PROVE  OrderInv'
<1>1. Past' = Past /\ Committed' = Committed
  BY DEF Past, Committed, Answers, Queued
<1>2. revision <= revision'
  BY OrderTypes
<1> QED
  BY <1>1, <1>2, OrderFrame DEF Twin, OrderInv

LEMMA OrderLifecycle ==
    ASSUME TypeOK, TypeOK', ThreadInv, OrderInv, LifecycleCall \/ LifecycleStep
    PROVE  OrderInv'
<1> USE DEF gateVars, episodeVars, workVars, deliverVars, metricVars,
        actionVars, heapVars
<1>1. CASE StopBegin \/ ResetBegin
  <2>1. epoch' = epoch + 1 /\ epoch \in Int /\ work.epoch \in Int
        /\ delivery.epoch \in Int
    BY <1>1, BoundAssumption
       DEF StopBegin, ResetBegin, Invalidate, ForgetActions, TypeOK,
            LifecycleType,
           ThreadType, Items, NoItem, Epochs, BoundAssumption
  <2>2. work'.epoch # epoch' /\ delivery'.epoch # epoch'
    BY <1>1, <2>1 DEF StopBegin, ResetBegin, ThreadInv
  <2>3. queue' = <<>> /\ lastAction' = NoAction /\ pending' = {}
        /\ mailbox' = NoObs
    BY <1>1 DEF StopBegin, ResetBegin, Invalidate, ForgetActions
  <2>4. Past' = {} /\ Committed' = {}
    BY <2>2, <2>3 DEF Past, Committed, Answers, Queued
  <2>5. ~Attempting'
    BY <2>2 DEF Attempting
  <2> QED
    BY <2>3, <2>4, <2>5 DEF OrderInv
<1>2. CASE Start
  <2>1. Past' \subseteq Past /\ Committed' = Committed
    BY <1>2 DEF Start, Past, Committed, Answers, Queued
  <2>2. ~Attempting'
    BY <1>2 DEF Start, Attempting
  <2>3. revision <= revision'
    BY <1>2, OrderTypes DEF Start
  <2>4. UNCHANGED <<currentStep, mailbox, ordinal, latestDelivered>>
    BY <1>2 DEF Start
  <2> QED
    BY <2>1, <2>2, <2>3, <2>4, OrderFrame DEF Twin, OrderInv
<1>3. CASE LifecycleStep
  <2>1. UNCHANGED <<currentStep, mailbox, ordinal, revision, epoch, pending,
                    latestDelivered, queue, lastAction, dpc, delivery, wpc,
                         work>>
    BY <1>3 DEF LifecycleStep, StopCancel, StopJoin, StopClose, StopRelease,
       ResetTransport, OpenGate, TransportCall, lifeFrame
  <2> QED
    BY <2>1, OrderUntouched DEF Attempting, Twin
<1> QED
  BY <1>1, <1>2, <1>3 DEF LifecycleCall

LEMMA OrderControl ==
    ASSUME TypeOK, TypeOK', OrderInv, ControlCall
    PROVE  OrderInv'
<1> USE DEF gateVars, episodeVars, workVars, deliverVars, metricVars,
        actionVars, heapVars
<1>1. CASE Pause \/ Resume
  <2>1. UNCHANGED <<currentStep, mailbox, ordinal, revision, epoch, pending,
                    latestDelivered, queue, lastAction, dpc, delivery, wpc,
                         work>>
    BY <1>1 DEF Pause, Resume, callerFrame
  <2> QED
    BY <2>1, OrderUntouched DEF Attempting, Twin
<1>2. CASE SetTask
  <2>1. UNCHANGED <<currentStep, mailbox, ordinal, epoch, pending,
                    latestDelivered, queue, lastAction, dpc, delivery, wpc,
                         work>>
    BY <1>2 DEF SetTask, callerFrame
  <2>2. revision <= revision'
    BY <1>2, OrderTypes DEF SetTask
  <2>3. Past' = Past /\ Committed' = Committed /\ Attempting' = Attempting
    BY <2>1 DEF Past, Committed, Answers, Queued, Attempting
  <2> QED
    BY <2>1, <2>2, <2>3, OrderFrame DEF Twin, OrderInv
<1>3. CASE NotifyObservation
  <2>1. UNCHANGED <<ordinal, revision, epoch, pending, latestDelivered, queue,
                    lastAction, dpc, delivery, wpc, work>>
    BY <1>3 DEF NotifyObservation, callerFrame
  <2>2. Past' = Past /\ Committed' = Committed /\ Attempting' = Attempting
    BY <2>1 DEF Past, Committed, Answers, Queued, Attempting
  <2>3. currentStep' = currentStep + 1
        /\ (mailbox' = mailbox \/ mailbox'.step = currentStep')
    BY <1>3 DEF NotifyObservation
  <2> QED
    BY <2>1, <2>2, <2>3, OrderTypes DEF OrderInv
<1>4. CASE GetAction
  <2>1. UNCHANGED <<currentStep, mailbox, ordinal, revision, epoch, pending,
                    latestDelivered, dpc, delivery, wpc, work>>
    BY <1>4 DEF GetAction, MayHold, callerFrame
  <2>2. Committed' \subseteq Committed
    <3>1. CASE queue # <<>>
      <4>1. queue \in Seq(Actions)
        BY DEF TypeOK, ActionType
      <4>2. /\ lastAction' = queue[1] /\ 1 \in 1..Len(queue)
            /\ \A i \in 1..Len(queue') :
                  i + 1 \in 1..Len(queue) /\ queue'[i] = queue[i + 1]
        BY <1>4, <3>1, <4>1 DEF GetAction, MayHold
      <4> QED
        BY <4>2 DEF Committed, Queued
    <3>2. CASE queue = <<>>
      BY <1>4, <3>2 DEF GetAction, MayHold, Committed, Queued
    <3> QED
      BY <3>1, <3>2
  <2>3. Answers' = Answers /\ Attempting' = Attempting
    BY <2>1 DEF Answers, Attempting
  <2>4. \A a \in Past' : \E b \in Past : Twin(a, b)
    BY <2>2, <2>3 DEF Past, Twin
  <2>5. Scheduler => \A a \in Committed' : a.src <= latestDelivered'
    BY <2>1, <2>2 DEF OrderInv
  <2>6. revision <= revision'
    BY <2>1, OrderTypes
  <2>7. Attempting' => Attempting /\ Twin(work', work)
    BY <2>1, <2>3 DEF Twin
  <2> QED
    BY <2>1, <2>4, <2>5, <2>6, <2>7, OrderFrame
<1> QED
  BY <1>1, <1>2, <1>3, <1>4 DEF ControlCall


     (* A merge leaves in the queue what was committed before or twins of the item. *)
LEMMA MergedCommitted ==
    ASSUME TypeOK, NEW item \in Items, NEW C, AlignAndCommit(item, C)
    PROVE  \A a \in Committed' : a \in Committed \/ Twin(a, item)
<1>1. lastAction' = lastAction
  BY MergedQueue
<1>2. CASE queue' = queue
  BY <1>1, <1>2 DEF Committed, Queued
<1>3. CASE \A i \in 1..Len(queue') : MadeOf(queue'[i], item)
  BY <1>1, <1>3 DEF Committed, Queued, MadeOf, Twin
<1> QED
  BY <1>2, <1>3, MergedQueue

LEMMA OrderWorker ==
    ASSUME TypeOK, TypeOK', ThreadInv, OrderInv, WorkerStep
    PROVE  OrderInv'
<1> USE DEF gateVars, episodeVars, workVars, deliverVars, metricVars,
        actionVars, heapVars
<1>1. UNCHANGED <<currentStep, revision, epoch, dpc, delivery>>
  BY DEF WorkerStep, WorkerExit, Admit, ResetProvider, CommitProviderReset,
     EnterTransport, TransportReturns, CompleteInference, MergeOwn,
     ScheduleDelivery, WorkerObserve, RecordFailure, GiveUp, Crash, Retry,
     workerFrame
<1>2. revision <= revision'
  BY <1>1, OrderTypes
<1>3. CASE WorkerExit \/ ResetProvider \/ CommitProviderReset \/ EnterTransport
           \/ CompleteInference \/ WorkerObserve \/ RecordFailure \/ GiveUp
           \/ Crash
  <2>1. /\ UNCHANGED <<mailbox, ordinal, pending, latestDelivered, queue,
                       lastAction>>
        /\ wpc' \in {"dead", "wait"} \/ (work' = work /\ wpc \notin {"dead",
             "wait", "observe"})
    BY <1>3 DEF WorkerExit, ResetProvider, CommitProviderReset, EnterTransport,
       CompleteInference, WorkerObserve, RecordFailure, GiveUp, Crash
  <2>2. Attempting' => Attempting /\ Twin(work', work)
    BY <1>1, <2>1 DEF Attempting, Twin
  <2> QED
    BY <1>1, <2>1, <2>2, OrderUntouched
<1>4. CASE TransportReturns
  <2>1. UNCHANGED <<mailbox, ordinal, pending, latestDelivered, queue,
                    lastAction>> /\ wpc = "infer"
    BY <1>4 DEF TransportReturns
  <2>2. work'.epoch = work.epoch /\ Twin(work', work)
    BY <1>4 DEF TransportReturns, TypeOK, ThreadType, WorkerBusy, Items, Twin
  <2>3. Attempting' => Attempting /\ Twin(work', work)
    BY <1>1, <2>1, <2>2 DEF Attempting
  <2> QED
    BY <1>1, <2>1, <2>3, OrderUntouched
<1>5. CASE Admit
  <2>1. /\ UNCHANGED <<pending, latestDelivered, queue, lastAction>>
        /\ mailbox # NoObs /\ mailbox' = NoObs /\ ordinal' = ordinal + 1
        /\ work'.src = mailbox.step /\ work'.ord = ordinal
        /\ work'.rev = revision
    BY <1>5 DEF Admit
  <2>2. Past' = Past /\ Committed' = Committed
    BY <1>1, <2>1 DEF Past, Committed, Answers, Queued
  <2> QED
    BY <1>1, <2>1, <2>2, OrderTypes DEF OrderInv, Contract!Newer
<1>6. CASE Retry
  <2>1. UNCHANGED <<ordinal, pending, latestDelivered, queue, lastAction>>
        /\ ~Attempting'
    BY <1>6 DEF Retry, Attempting
  <2>2. Past' = Past /\ Committed' = Committed
    BY <1>1, <2>1 DEF Past, Committed, Answers, Queued
  <2>3. mailbox' = mailbox \/ (Attempting /\ mailbox'.step = work.src)
    BY <1>6 DEF Retry, Attempting
  <2> QED
    BY <1>1, <2>1, <2>2, <2>3, OrderTypes DEF OrderInv, Contract!Newer
<1>7. CASE MergeOwn
  <2>1. /\ UNCHANGED <<mailbox, ordinal>> /\ ~Attempting' /\ ~Scheduler
        /\ UNCHANGED <<pending, latestDelivered>>
    BY <1>7 DEF MergeOwn, MergeDirect, Attempting, ThreadInv
  <2>2. CASE EpochIsCurrent(work.epoch)
    <3>1. work \in Items /\ Attempting /\ AlignAndCommit(work, {})
      BY <1>7, <2>2, CurrentWorkIsItem
         DEF MergeOwn, MergeDirect, EpochIsCurrent, Attempting
    <3>2. \A a \in Committed' : a \in Committed \/ Twin(a, work)
      BY <3>1, MergedCommitted
    <3>3. Answers' = Answers
      BY <1>1, <2>1 DEF Answers
    <3>4. \A a \in Past' :
             \/ \E b \in Past : Twin(a, b)
             \/ Attempting /\ ~Attempting' /\ Twin(a, work)
      <4>1. \A a \in Past' : a \in Past \/ Twin(a, work)
        BY <3>2, <3>3 DEF Past
      <4>2. ASSUME NEW a \in Past', a \in Past PROVE \E b \in Past : Twin(a, b)
        BY <4>2 DEF Twin
      <4>3. Attempting /\ ~Attempting'
        BY <2>1, <3>1
      <4> QED
        BY <4>1, <4>2, <4>3
    <3> QED
      BY <1>1, <1>2, <2>1, <3>4, OrderFrame
  <2>3. CASE ~EpochIsCurrent(work.epoch)
    <3>1. UNCHANGED <<queue, lastAction>>
      BY <1>7, <2>3 DEF MergeOwn, MergeDirect
    <3> QED
      BY <1>1, <2>1, <3>1, OrderUntouched
  <2> QED
    BY <2>2, <2>3
<1>8. CASE ScheduleDelivery
  <2>1. /\ UNCHANGED <<mailbox, ordinal, latestDelivered, queue, lastAction>>
        /\ ~Attempting'
    BY <1>8 DEF ScheduleDelivery, Attempting
  <2>2. pending' = pending \/ (pending' = pending \cup {work} /\ Attempting)
    BY <1>8 DEF ScheduleDelivery, Attempting, EpochIsCurrent
  <2>3. Committed' = Committed
    BY <2>1 DEF Committed, Queued
  <2>4. \A a \in Answers' : a \in Answers \/ (a = work /\ Attempting)
    BY <1>1, <2>2 DEF Answers
  <2>5. \A a \in Past' :
             \/ \E b \in Past : Twin(a, b)
             \/ Attempting /\ ~Attempting' /\ Twin(a, work)
    <3>1. \A a \in Past' : a \in Past \/ (a = work /\ Attempting)
      BY <2>3, <2>4 DEF Past
    <3>2. ASSUME NEW a \in Past', a \in Past PROVE \E b \in Past : Twin(a, b)
      BY <3>2 DEF Twin
    <3>3. ASSUME NEW a \in Past', a = work PROVE Twin(a, work)
      BY <3>3 DEF Twin
    <3>4. ~Attempting'
      BY <2>1
    <3> QED
      BY <3>1, <3>2, <3>3, <3>4
  <2>6. Scheduler => \A a \in Committed' : a.src <= latestDelivered'
    BY <2>1, <2>3 DEF OrderInv
  <2> QED
    BY <1>1, <1>2, <2>1, <2>5, <2>6, OrderFrame
<1> QED
  BY <1>3, <1>4, <1>5, <1>6, <1>7, <1>8 DEF WorkerStep

LEMMA OrderDelivery ==
    ASSUME TypeOK, TypeOK', ThreadInv, OrderInv, DeliveryStep
    PROVE  OrderInv'
<1> USE DEF gateVars, episodeVars, workVars, deliverVars, metricVars,
        actionVars, heapVars
<1>1. UNCHANGED <<currentStep, revision, epoch, mailbox, ordinal, wpc, work>>
  BY DEF DeliveryStep, DeliveryExit, PopDelivery, MergeDelivery,
     DeliveryObserve, deliveryFrame
<1>2. revision <= revision' /\ Attempting' = Attempting
  BY <1>1, OrderTypes DEF Attempting
<1>3. CASE DeliveryExit \/ PopDelivery \/ DeliveryObserve
  <2>1. UNCHANGED <<latestDelivered, queue, lastAction>>
    BY <1>3 DEF DeliveryExit, PopDelivery, DeliveryObserve
  <2>2. Answers' \subseteq Answers
    BY <1>1, <1>3 DEF DeliveryExit, PopDelivery, DeliveryObserve, Answers
  <2>3. Committed' = Committed /\ Past' \subseteq Past
    BY <2>1, <2>2 DEF Past, Committed, Queued
  <2> QED
    BY <1>1, <1>2, <2>1, <2>3, OrderFrame DEF Twin, OrderInv
<1>4. CASE MergeDelivery
  <2>1. pending' = pending /\ dpc = "merge" /\ dpc' = "observe" /\ Scheduler
    BY <1>4 DEF MergeDelivery, ThreadInv
  <2>2. Answers' \subseteq Answers
    BY <2>1 DEF Answers
  <2>3. CASE EpochIsCurrent(delivery.epoch) /\ delivery.src > latestDelivered
    <3>1. delivery \in Items /\ delivery \in Answers
      BY <2>1, <2>3, CurrentWorkIsItem DEF EpochIsCurrent, Answers
    <3>2. delivery.src \in Int /\ latestDelivered \in Int
      BY <3>1, OrderTypes DEF Past
    <3>3. latestDelivered' = delivery.src
          /\ AlignAndCommit(delivery, {"delivered"})
      BY <1>4, <2>3, <3>2 DEF MergeDelivery, MergeScheduled
    <3>4. \A a \in Committed' : a \in Committed \/ Twin(a, delivery)
      BY <3>1, <3>3, MergedCommitted
    <3>5. \A a \in Past' : \E b \in Past : Twin(a, b)
      BY <2>2, <3>1, <3>4 DEF Past, Twin
    <3>6. \A a \in Committed' : a.src <= latestDelivered'
      <4>1. \A a \in Committed : a.src <= latestDelivered /\ a.src \in Int
        BY <2>1, OrderTypes DEF OrderInv, Past
      <4> QED
        BY <2>3, <3>2, <3>3, <3>4, <4>1 DEF Twin
    <3> QED
      BY <1>1, <1>2, <3>5, <3>6, OrderFrame DEF Twin
  <2>4. CASE ~(EpochIsCurrent(delivery.epoch) /\ delivery.src > latestDelivered)
    <3>1. UNCHANGED <<latestDelivered, queue, lastAction>>
      BY <1>4, <2>4 DEF MergeDelivery, MergeScheduled
    <3>2. Committed' = Committed /\ Past' \subseteq Past
      BY <2>2, <3>1 DEF Past, Committed, Queued
    <3> QED
      BY <1>1, <1>2, <3>1, <3>2, OrderFrame DEF Twin, OrderInv
  <2> QED
    BY <2>3, <2>4
<1> QED
  BY <1>3, <1>4 DEF DeliveryStep

-----------------------------------------------------------------------------
(* Starving and the counters *)

LEMMA StarvedNext == StarvedInv /\ [Next]_vars => StarvedInv'
<1> SUFFICES ASSUME StarvedInv, [Next]_vars PROVE StarvedInv'
  OBVIOUS
<1> USE DEF StarvedInv, MayHold, actionVars
<1>1. CASE UNCHANGED <<queue, lastAction, hold, starved>>
  BY <1>1
<1>2. CASE starved' = FALSE
  BY <1>2
<1>3. CASE GetAction
  BY <1>3 DEF GetAction
<1>4. CASE LifecycleCall
  BY <1>1, <1>2, <1>4 DEF LifecycleCall, Start, StopBegin, ResetBegin,
     Invalidate, ForgetActions
<1>5. CASE LifecycleStep \/ Pause \/ Resume \/ SetTask \/ NotifyObservation
  BY <1>1, <1>5 DEF LifecycleStep, StopCancel, StopJoin, StopClose,
     StopRelease, ResetTransport, OpenGate, TransportCall, lifeFrame, Pause,
     Resume, SetTask, NotifyObservation
<1>6. ASSUME NEW item, NEW C, AlignAndCommit(item, C) PROVE StarvedInv'
  BY <1>1, <1>2, <1>6 DEF AlignAndCommit, CommitAligned, CommitFallback,
     RejectStale, Replace
<1>7. CASE WorkerStep
  <2>1. CASE MergeOwn
    BY <1>1, <1>6, <2>1 DEF MergeOwn, MergeDirect
  <2>2. CASE ~MergeOwn
    BY <1>1, <1>7, <2>2 DEF WorkerStep, WorkerExit, Admit, ResetProvider,
       CommitProviderReset, EnterTransport, TransportReturns,
       CompleteInference, ScheduleDelivery, WorkerObserve, RecordFailure,
       GiveUp, Crash, Retry
  <2> QED
    BY <2>1, <2>2
<1>8. CASE DeliveryStep
  <2>1. CASE MergeDelivery
    BY <1>1, <1>6, <2>1 DEF MergeDelivery, MergeScheduled
  <2>2. CASE ~MergeDelivery
    BY <1>1, <1>8, <2>2 DEF DeliveryStep, DeliveryExit, PopDelivery,
       DeliveryObserve
  <2> QED
    BY <2>1, <2>2
<1>9. CASE UNCHANGED vars
  BY <1>1, <1>9 DEF vars
<1> QED
  BY <1>3, <1>4, <1>5, <1>7, <1>8, <1>9 DEF Next, ControlCall

(* The epochs that are compared are integers. *)
LEMMA EpochTypes ==
    TypeOK => epoch \in Nat /\ work.epoch \in Int /\ delivery.epoch \in Int
BY BoundAssumption
   DEF TypeOK, LifecycleType, ThreadType, Items, NoItem, Epochs,
       BoundAssumption

LEMMA OutrunNext ==
    ASSUME TypeOK, EpochOwnership, TeardownHoldsNoActions, ThreadInv,
           ThreadsOutrun, [Next]_vars
    PROVE  ThreadsOutrun'
<1> USE EpochTypes
    DEF ThreadsOutrun, gateVars, episodeVars, heapVars, actionVars,
        metricVars, workVars, deliverVars
<1>1. CASE Start
  BY <1>1 DEF Start, NoItem
<1>2. CASE StopBegin \/ ResetBegin
  BY <1>2 DEF StopBegin, ResetBegin, Invalidate, ThreadInv
<1>3. CASE LifecycleStep
  BY <1>3 DEF LifecycleStep, StopCancel, StopJoin, StopClose, StopRelease,
     ResetTransport, OpenGate, TransportCall, lifeFrame
<1>4. CASE ControlCall
  BY <1>4 DEF ControlCall, Pause, Resume, SetTask, NotifyObservation,
     GetAction, callerFrame
<1>5. CASE WorkerStep
  <2>1. UNCHANGED <<life, resetting, shutdown, epoch, delivery>>
    BY <1>5 DEF WorkerStep, WorkerExit, Admit, ResetProvider,
       CommitProviderReset, EnterTransport, TransportReturns,
       CompleteInference, MergeOwn, ScheduleDelivery, WorkerObserve,
       RecordFailure, GiveUp, Crash, Retry, workerFrame
  <2>2. \/ ~resetting /\ ~shutdown
        \/ work' = work
        \/ work' = NoItem
        \/ wpc = "infer" /\ \E n \in ChunkLens : work' = [work EXCEPT !.len = n]
    BY <1>5 DEF WorkerStep, WorkerExit, Admit, ResetProvider,
       CommitProviderReset, EnterTransport, TransportReturns,
       CompleteInference, MergeOwn, ScheduleDelivery, WorkerObserve,
       RecordFailure, GiveUp, Crash, Retry
  <2>3. wpc = "infer" => work \in Items
    BY DEF TypeOK, ThreadType, WorkerBusy
  <2>4. work'.epoch = work.epoch \/ work' = NoItem \/ (~resetting /\ ~shutdown)
    BY <2>2, <2>3 DEF Items
  <2> QED
    BY <2>1, <2>4 DEF NoItem
<1>6. CASE DeliveryStep
  <2>1. UNCHANGED <<life, resetting, shutdown, epoch, work>>
    BY <1>6 DEF DeliveryStep, DeliveryExit, PopDelivery, MergeDelivery,
       DeliveryObserve, deliveryFrame
  <2>2. \/ ~resetting /\ ~shutdown
        \/ delivery' = delivery
        \/ delivery' = NoItem
    BY <1>6 DEF DeliveryStep, DeliveryExit, PopDelivery, MergeDelivery,
       DeliveryObserve
  <2> QED
    BY <2>1, <2>2 DEF NoItem
<1>7. CASE UNCHANGED vars
  BY <1>7 DEF vars
<1> QED
  BY <1>1, <1>2, <1>3, <1>4, <1>5, <1>6, <1>7 DEF Next, LifecycleCall

LEMMA NothingNext ==
    ASSUME TeardownHoldsNoActions, GateInv, ThreadInv, ThreadsOutrun,
           NothingBeforeStart, [Next]_vars
    PROVE  NothingBeforeStart'
<1> USE DEF NothingBeforeStart, gateVars, episodeVars, heapVars, actionVars,
        metricVars, workVars, deliverVars
<1>1. CASE LifecycleCall
  BY <1>1 DEF LifecycleCall, Start, StopBegin, ResetBegin, Invalidate,
     ForgetActions
<1>2. CASE StopRelease
  <2>1. pending = {} /\ shutdown
    BY <1>2 DEF StopRelease, GateInv, TeardownHoldsNoActions, ThreadsOutrun
  <2> QED
    BY <1>2, <2>1 DEF StopRelease
<1>3. CASE StopCancel \/ StopJoin \/ StopClose \/ ResetTransport \/ OpenGate
  BY <1>3 DEF StopCancel, StopJoin, StopClose, ResetTransport, OpenGate,
     TransportCall, lifeFrame
<1>4. CASE ControlCall
  BY <1>4 DEF ControlCall, Pause, Resume, SetTask, NotifyObservation,
     GetAction, callerFrame
<1>5. CASE WorkerStep \/ DeliveryStep
  <2>1. started /\ started' = started
    BY <1>5 DEF ThreadInv, SingleOwner, WorkerStep, WorkerExit, Admit,
       ResetProvider, CommitProviderReset, EnterTransport, TransportReturns,
       CompleteInference, MergeOwn, ScheduleDelivery, WorkerObserve,
       RecordFailure, GiveUp, Crash, Retry, workerFrame, DeliveryStep,
       DeliveryExit, PopDelivery, MergeDelivery, DeliveryObserve,
       deliveryFrame
  <2> QED
    BY <2>1
<1>6. CASE UNCHANGED vars
  BY <1>6 DEF vars
<1> QED
  BY <1>1, <1>2, <1>3, <1>4, <1>5, <1>6 DEF Next, LifecycleStep

(* How a step changes the heap. *)
LEMMA HeapNext ==
    ASSUME [Next]_vars
    PROVE  \/ pending' = pending
           \/ pending' = {} /\ (StopBegin \/ ResetBegin)
           \/ pending' = pending \cup {work} /\ ScheduleDelivery
           \/ /\ dpc = "wait" /\ dpc' = "merge" /\ delivery' \in pending
              /\ pending' = pending \ {delivery'} /\ PopDelivery
<1> USE DEF gateVars, episodeVars, heapVars, actionVars, metricVars, workVars,
        deliverVars
<1>1. CASE LifecycleCall
  BY <1>1 DEF LifecycleCall, Start, StopBegin, ResetBegin, Invalidate,
     ForgetActions
<1>2. CASE LifecycleStep \/ ControlCall
  BY <1>2 DEF LifecycleStep, StopCancel, StopJoin, StopClose, StopRelease,
     ResetTransport, OpenGate, TransportCall, lifeFrame, ControlCall, Pause,
     Resume, SetTask, NotifyObservation, GetAction, callerFrame
<1>3. CASE WorkerStep
  BY <1>3 DEF WorkerStep, WorkerExit, Admit, ResetProvider,
     CommitProviderReset, EnterTransport, TransportReturns,
     CompleteInference, MergeOwn, MergeDirect, ScheduleDelivery,
     WorkerObserve, RecordFailure, GiveUp, Crash, Retry
<1>4. CASE DeliveryStep
  BY <1>4 DEF DeliveryStep, DeliveryExit, PopDelivery, MergeDelivery,
     DeliveryObserve
<1>5. CASE UNCHANGED vars
  BY <1>5 DEF vars
<1> QED
  BY <1>1, <1>2, <1>3, <1>4, <1>5 DEF Next

LEMMA FiniteNext ==
    ASSUME IsFiniteSet(pending), [Next]_vars PROVE IsFiniteSet(pending')
<1>1. IsFiniteSet({}) /\ IsFiniteSet(pending \cup {work})
      /\ \A p : IsFiniteSet(pending \ {p})
  BY FS_EmptySet, FS_AddElement, FS_RemoveElement
<1> QED
  BY <1>1, HeapNext

(* The request a thread decides about is newer than every answer on its     *)
(* way, so its own answer is not among them.                                *)
LEMMA AnswersDifferNext ==
    ASSUME TypeOK, ThreadInv, EpochOwnership, OrderInv, AnswersDiffer,
           [Next]_vars
    PROVE  AnswersDiffer'
<1> USE DEF Answers, gateVars, episodeVars, heapVars, actionVars, metricVars,
        workVars, deliverVars
<1>1. CASE StopBegin \/ ResetBegin
  <2>1. pending' = {} /\ epoch' = epoch + 1 /\ delivery' = delivery
    BY <1>1 DEF StopBegin, ResetBegin, Invalidate, ForgetActions
  <2>2. delivery'.epoch # epoch'
    BY <2>1, EpochTypes DEF ThreadInv
  <2> QED
    BY <2>1, <2>2 DEF AnswersDiffer
<1>2. CASE ScheduleDelivery
  <2>1. Answers' \subseteq Answers \/ (Answers' = Answers \cup {work}
                                        /\ Attempting)
    BY <1>2 DEF ScheduleDelivery, workerFrame, EpochIsCurrent, Attempting
  <2>2. Attempting => \A a \in Answers : a.src < work.src /\ a.src \in Int
                                           /\ work.src \in Int
    BY OrderTypes DEF OrderInv, Past, Contract!Newer
  <2> QED
    BY <2>1, <2>2 DEF AnswersDiffer
<1>3. CASE ~(StopBegin \/ ResetBegin \/ ScheduleDelivery)
  <2>1. epoch' = epoch
    BY <1>3 DEF Next, LifecycleCall, Start, LifecycleStep, StopCancel,
       StopJoin, StopClose, StopRelease, ResetTransport, OpenGate,
       TransportCall, lifeFrame, ControlCall, Pause, Resume, SetTask,
       NotifyObservation, GetAction, callerFrame, WorkerStep, WorkerExit,
       Admit, ResetProvider, CommitProviderReset, EnterTransport,
       TransportReturns, CompleteInference, MergeOwn, WorkerObserve,
       RecordFailure, GiveUp, Crash, Retry, workerFrame, DeliveryStep,
       DeliveryExit, PopDelivery, MergeDelivery, DeliveryObserve,
       deliveryFrame, vars
  <2>2. \/ dpc' # "merge"
        \/ dpc' = dpc /\ delivery' = delivery
        \/ PopDelivery
    BY <1>3 DEF Next, LifecycleCall, Start, LifecycleStep, StopCancel,
       StopJoin, StopClose, StopRelease, ResetTransport, OpenGate,
       TransportCall, lifeFrame, ControlCall, Pause, Resume, SetTask,
       NotifyObservation, GetAction, callerFrame, WorkerStep, WorkerExit,
       Admit, ResetProvider, CommitProviderReset, EnterTransport,
       TransportReturns, CompleteInference, MergeOwn, WorkerObserve,
       RecordFailure, GiveUp, Crash, Retry, workerFrame, DeliveryStep,
       DeliveryExit, MergeDelivery, DeliveryObserve, vars
  <2>3. CASE PopDelivery
    <3>1. Answers' \subseteq Answers
      BY <2>3 DEF PopDelivery
    <3> QED
      BY <3>1 DEF AnswersDiffer
  <2>4. CASE ~PopDelivery
    <3>1. Answers' \subseteq Answers
      BY <1>3, <2>1, <2>2, <2>4, HeapNext
    <3> QED
      BY <3>1 DEF AnswersDiffer
  <2> QED
    BY <2>3, <2>4
<1> QED
  BY <1>1, <1>2, <1>3

(* What counting does to each counter. *)
LEMMA BumpAt ==
    ASSUME MetricType, NEW C, NEW c \in Counters
    PROVE  /\ metrics[c] \in Nat
           /\ Bump(C)[c] = metrics[c] + (IF c \in C THEN 1 ELSE 0)
BY DEF Bump, MetricType

(* While the engine is open a thread finds its epoch current exactly when   *)
(* it is the running one: no lifecycle call can be under way besides.       *)
LEMMA OpenIsCurrent ==
    ASSUME TypeOK, ThreadsOutrun, ~shutdown, ~fatal
    PROVE  /\ EpochIsCurrent(work.epoch) <=> work.epoch = epoch
           /\ EpochIsCurrent(delivery.epoch) <=> delivery.epoch = epoch
BY EpochTypes DEF ThreadsOutrun, EpochIsCurrent

(* The steps of the owner between admission and the verdict keep the attempt *)
(* in flight; it may end uncounted only in a crash, which is fatal.          *)
LEMMA InFlightWorker ==
    ASSUME TypeOK, ThreadsOutrun, WorkerStep, ~shutdown,
           ~Admit, ~CompleteInference, ~RecordFailure
    PROVE  /\ InFlight' <= InFlight
           /\ ~fatal' => InFlight' = InFlight
<1> USE DEF InFlight, Undecided
<1>1. UNCHANGED <<epoch, shutdown, resetting>>
  BY DEF WorkerStep, WorkerExit, ResetProvider, CommitProviderReset,
     EnterTransport, TransportReturns, MergeOwn, ScheduleDelivery,
     WorkerObserve, GiveUp, Crash, Retry, workerFrame
<1>2. CASE WorkerExit \/ MergeOwn \/ ScheduleDelivery \/ WorkerObserve
           \/ GiveUp \/ Retry
  <2>1. wpc \notin Undecided /\ wpc' \notin Undecided
    BY <1>2 DEF WorkerExit, MergeOwn, ScheduleDelivery, WorkerObserve, GiveUp,
       Retry
  <2> QED
    BY <2>1
<1>3. CASE ResetProvider \/ EnterTransport
  <2>1. wpc \in Undecided /\ wpc' \in Undecided /\ work' = work
    BY <1>3 DEF ResetProvider, EnterTransport
  <2> QED
    BY <1>1, <2>1
<1>4. CASE TransportReturns
  <2>1. work \in Items
    BY <1>4 DEF TransportReturns, TypeOK, ThreadType, WorkerBusy
  <2>2. work'.epoch = work.epoch
    BY <1>4, <2>1 DEF TransportReturns, Items
  <2>3. wpc \in Undecided /\ wpc' \in Undecided
    BY <1>4 DEF TransportReturns
  <2> QED
    BY <1>1, <2>2, <2>3
<1>5. CASE CommitProviderReset
  <2>1. wpc \in Undecided /\ fatal' = fatal
    BY <1>5 DEF CommitProviderReset
  <2>2. CASE EpochIsCurrent(work.epoch)
    <3>1. wpc' \in Undecided /\ work' = work
      BY <1>5, <2>2 DEF CommitProviderReset
    <3> QED
      BY <1>1, <2>1, <3>1
  <2>3. CASE ~EpochIsCurrent(work.epoch)
    <3>1. wpc' \notin Undecided
      BY <1>5, <2>3 DEF CommitProviderReset
    <3>2. ~fatal => InFlight = 0
      BY <2>3, OpenIsCurrent
    <3> QED
      BY <2>1, <3>1, <3>2
  <2> QED
    BY <2>2, <2>3
<1>6. CASE Crash
  <2>1. wpc' \notin Undecided /\ fatal' = FatalFor(work.epoch)
    BY <1>6 DEF Crash
  <2>2. ~fatal' => InFlight = 0
    <3>1. SUFFICES ASSUME ~fatal' PROVE work.epoch # epoch
      OBVIOUS
    <3>2. ~fatal /\ ~(work.epoch = epoch /\ ~resetting)
      BY <2>1, <3>1 DEF FatalFor
    <3>3. resetting => work.epoch # epoch
      BY EpochTypes DEF ThreadsOutrun
    <3> QED
      BY <3>2, <3>3
  <2> QED
    BY <2>1, <2>2
<1> QED
  BY <1>2, <1>3, <1>4, <1>5, <1>6 DEF WorkerStep

(* What the accounts do not see. *)
LEMMA LifecycleCounts ==
    ASSUME TypeOK, LifecycleStep \/ ControlCall \/ DeliveryStep \/ UNCHANGED vars
    PROVE  /\ UNCHANGED <<shutdown, epoch, ordinal, failures, connected, wpc,
                          work>>
           /\ fatal => fatal'
<1> USE DEF gateVars, episodeVars, metricVars, workVars
<1>0. fatal \in BOOLEAN /\ shutdown \in BOOLEAN
  BY DEF TypeOK, FlagType
<1>1. CASE LifecycleStep
  BY <1>0, <1>1 DEF LifecycleStep, StopCancel, StopJoin, StopClose, StopRelease,
     ResetTransport, OpenGate, TransportCall, lifeFrame
<1>2. CASE ControlCall
  BY <1>0, <1>2 DEF ControlCall, Pause, Resume, SetTask, NotifyObservation,
     GetAction, callerFrame
<1>3. CASE DeliveryStep
  BY <1>0, <1>3 DEF DeliveryStep, DeliveryExit, PopDelivery, MergeDelivery,
     DeliveryObserve, Observed, FatalFor, deliveryFrame
<1>4. CASE UNCHANGED vars
  BY <1>4 DEF vars
<1> QED
  BY <1>1, <1>2, <1>3, <1>4

LEMMA FailuresNext ==
    ASSUME TypeOK, TypeOK', EpochOwnership, ThreadInv, ThreadsOutrun,
           FailuresOfEpisode, [Next]_vars
    PROVE  FailuresOfEpisode'
<1> USE DEF FailuresOfEpisode, gateVars, episodeVars, metricVars, workVars
<1>1. /\ failures \in Nat /\ ordinal \in Nat
      /\ InFlight \in {0, 1} /\ InFlight' \in {0, 1}
      /\ shutdown \in BOOLEAN /\ connected \in BOOLEAN
      /\ shutdown' \in BOOLEAN /\ connected' \in BOOLEAN
  BY DEF TypeOK, FlagType, MetricType, ObservationType, InFlight
<1>2. CASE Start
  <2>1. InFlight' = 0
    BY <1>2 DEF Start, InFlight, Undecided
  <2> QED
    BY <1>1, <1>2, <2>1 DEF Start
<1>3. CASE StopBegin
  BY <1>3 DEF StopBegin, Invalidate
<1>4. CASE ResetBegin
  <2>1. work'.epoch # epoch'
    BY <1>4, EpochTypes DEF ResetBegin, Invalidate, ThreadInv
  <2>2. InFlight' = 0
    BY <2>1 DEF InFlight
  <2> QED
    BY <1>4, <2>2 DEF ResetBegin, Invalidate
<1>5. CASE LifecycleStep \/ ControlCall \/ DeliveryStep \/ UNCHANGED vars
  BY <1>5, LifecycleCounts DEF InFlight
<1>6. CASE Admit
  <2>1. InFlight = 0
    BY <1>6 DEF Admit, InFlight, Undecided
  <2>2. UNCHANGED <<shutdown, failures, connected>> /\ ordinal' = ordinal + 1
    BY <1>6 DEF Admit, workerFrame
  <2>3. ~shutdown' => failures' + InFlight' <= ordinal'
    <3>1. PICK now \in {0, 1} : now = InFlight'
      BY <1>1
    <3>2. ~shutdown' => failures + now <= ordinal + 1
      BY <1>1, <2>1, <2>2
    <3> QED
      BY <2>2, <3>1, <3>2
  <2>4. connected' <=> failures' = 0
    BY <2>2, Zenon
  <2> QED
    BY <2>3, <2>4
<1>7. CASE CompleteInference
  <2>1. InFlight' = 0
    BY <1>7 DEF CompleteInference, InFlight, Undecided
  <2>2. /\ UNCHANGED <<shutdown, ordinal>>
        /\ \/ failures' = 0 /\ connected' = TRUE
           \/ UNCHANGED <<failures, connected>>
    BY <1>7 DEF CompleteInference, workerFrame
  <2> QED
    BY <1>1, <2>1, <2>2
<1>8. CASE RecordFailure
  <2>1. InFlight' = 0 /\ UNCHANGED <<shutdown, ordinal>>
    BY <1>8 DEF RecordFailure, InFlight, Undecided, workerFrame
  <2>2. CASE EpochIsCurrent(work.epoch)
    <3>1. InFlight = 1
      BY <1>8, <2>2 DEF RecordFailure, EpochIsCurrent, InFlight, Undecided
    <3>2. failures' = failures + 1 /\ connected' = FALSE
      BY <1>8, <2>2 DEF RecordFailure
    <3> QED
      BY <1>1, <2>1, <3>1, <3>2
  <2>3. CASE ~EpochIsCurrent(work.epoch)
    <3>1. UNCHANGED <<failures, connected>>
      BY <1>8, <2>3 DEF RecordFailure
    <3> QED
      BY <1>1, <2>1, <3>1
  <2> QED
    BY <2>2, <2>3
<1>9. CASE WorkerStep /\ ~Admit /\ ~CompleteInference /\ ~RecordFailure
  <2>1. UNCHANGED <<shutdown, ordinal, failures, connected>>
    BY <1>9 DEF WorkerStep, WorkerExit, ResetProvider, CommitProviderReset,
       EnterTransport, TransportReturns, MergeOwn, ScheduleDelivery,
       WorkerObserve, GiveUp, Crash, Retry, workerFrame
  <2>2. ~shutdown' => failures' + InFlight' <= ordinal'
    <3>1. PICK now \in {0, 1} : now = InFlight'
      BY <1>1
    <3>2. ~shutdown => now <= InFlight
      BY <1>9, <3>1, InFlightWorker
    <3>3. ~shutdown' => failures + now <= ordinal
      BY <1>1, <2>1, <3>2
    <3> QED
      BY <2>1, <3>1, <3>3
  <2>3. connected' <=> failures' = 0
    BY <2>1, Zenon
  <2> QED
    BY <2>2, <2>3
<1> QED
  BY <1>2, <1>3, <1>4, <1>5, <1>6, <1>7, <1>8, <1>9 DEF Next, LifecycleCall

(* A merge counts its verdict and what its caller adds to it. *)
LEMMA MergeCounts ==
    ASSUME NEW item, NEW C, AlignAndCommit(item, C)
    PROVE  metrics' = Bump(C \cup {"accepted"}) \/ metrics' = Bump(C \cup {"stale"})
BY DEF AlignAndCommit, CommitAligned, CommitFallback, RejectStale, Replace

(* Which steps count what.  The delivery thread and a merge of the owner    *)
(* touch none of the counters of requests.                                  *)
RequestCounters == {"started", "completed", "failed"}

LEMMA RequestsUncounted ==
    ASSUME TypeOK,
           \/ LifecycleStep \/ ControlCall \/ DeliveryStep \/ UNCHANGED vars
           \/ WorkerStep /\ ~Admit /\ ~CompleteInference /\ ~RecordFailure
    PROVE  \A c \in RequestCounters : metrics'[c] = metrics[c]
<1> USE DEF gateVars, episodeVars, metricVars, workVars, RequestCounters
<1>1. MetricType
  BY DEF TypeOK
<1>2. CASE metrics' = metrics
  BY <1>2
<1>3. CASE \E C \in SUBSET (Counters \ RequestCounters) : metrics' = Bump(C)
  <2>1. PICK C \in SUBSET (Counters \ RequestCounters) : metrics' = Bump(C)
    BY <1>3
  <2>2. ASSUME NEW c \in RequestCounters PROVE metrics'[c] = metrics[c]
    <3>1. c \in Counters /\ c \notin C
      BY DEF Counters
    <3> QED
      BY <1>1, <2>1, <3>1, BumpAt
  <2> QED
    BY <2>2
<1>4. CASE LifecycleStep \/ ControlCall \/ UNCHANGED vars
  <2>1. metrics' = metrics
    BY <1>4 DEF LifecycleStep, StopCancel, StopJoin, StopClose, StopRelease,
       ResetTransport, OpenGate, TransportCall, lifeFrame, ControlCall,
       Pause, Resume, SetTask, NotifyObservation, GetAction, callerFrame,
       vars
  <2> QED
    BY <1>2, <2>1
<1>5. CASE DeliveryStep
  <2>1. \/ metrics' = metrics
        \/ metrics' = Bump({"outOfOrder", "stale"})
        \/ metrics' = Bump({"delivered"} \cup {"accepted"})
        \/ metrics' = Bump({"delivered"} \cup {"stale"})
    BY <1>5, MergeCounts
       DEF DeliveryStep, DeliveryExit, PopDelivery, MergeDelivery,
           MergeScheduled, DeliveryObserve
  <2>2. /\ {"outOfOrder", "stale"} \in SUBSET (Counters \ RequestCounters)
        /\ {"delivered"} \cup {"accepted"}
                \in SUBSET (Counters \ RequestCounters)
        /\ {"delivered"} \cup {"stale"} \in SUBSET (Counters \ RequestCounters)
    BY DEF Counters
  <2> QED
    BY <1>2, <1>3, <2>1, <2>2, Zenon
<1>6. CASE WorkerStep /\ ~Admit /\ ~CompleteInference /\ ~RecordFailure
  <2>1. \/ metrics' = metrics
        \/ metrics' = Bump({"scheduled"})
        \/ metrics' = Bump({} \cup {"accepted"})
        \/ metrics' = Bump({} \cup {"stale"})
    BY <1>6, MergeCounts
       DEF WorkerStep, WorkerExit, ResetProvider, CommitProviderReset,
           EnterTransport, TransportReturns, MergeOwn, MergeDirect,
           ScheduleDelivery, WorkerObserve, GiveUp, Crash, Retry
  <2>2. /\ {"scheduled"} \in SUBSET (Counters \ RequestCounters)
        /\ {} \cup {"accepted"} \in SUBSET (Counters \ RequestCounters)
        /\ {} \cup {"stale"} \in SUBSET (Counters \ RequestCounters)
    BY DEF Counters
  <2> QED
    BY <1>2, <1>3, <2>1, <2>2, Zenon
<1> QED
  BY <1>4, <1>5, <1>6

(* An episode begins with every counter at zero. *)
LEMMA CountsFromZero ==
    ASSUME NothingBeforeStart, Start \/ ResetBegin
    PROVE  \A c \in Counters : metrics'[c] = 0
<1>1. metrics' = ZeroMetrics
  <2>1. CASE Start /\ shutdown
    BY <2>1 DEF Start
  <2>2. CASE Start /\ ~shutdown
    BY <2>2 DEF Start, NothingBeforeStart, metricVars
  <2>3. CASE ResetBegin
    BY <2>3 DEF ResetBegin
  <2> QED
    BY <2>1, <2>2, <2>3
<1> QED
  BY <1>1 DEF ZeroMetrics

(* An engine that runs after a step either ran before it or was started. *)
LEMMA RanBefore ==
    ASSUME TypeOK, [Next]_vars, started', ~shutdown', ~fatal', ~Start
    PROVE  started /\ ~shutdown /\ ~fatal /\ ~StopBegin
<1> USE DEF gateVars, episodeVars, metricVars, workVars
<1>1. FlagType
  BY DEF TypeOK
<1>2. CASE StopBegin \/ ResetBegin
  BY <1>1, <1>2 DEF StopBegin, ResetBegin, FlagType
<1>3. CASE LifecycleStep
  BY <1>1, <1>3 DEF LifecycleStep, StopCancel, StopJoin, StopClose,
     StopRelease, ResetTransport, OpenGate, TransportCall, lifeFrame, FlagType,
     StopBegin
<1>4. CASE ControlCall \/ UNCHANGED vars
  BY <1>1, <1>4 DEF ControlCall, Pause, Resume, SetTask, NotifyObservation,
     GetAction, callerFrame, FlagType, StopBegin, vars
<1>5. CASE WorkerStep
  BY <1>1, <1>5 DEF WorkerStep, WorkerExit, Admit, ResetProvider,
     CommitProviderReset, EnterTransport, TransportReturns,
     CompleteInference, MergeOwn, ScheduleDelivery, WorkerObserve,
     RecordFailure, GiveUp, Crash, Retry, Observed, FatalFor, workerFrame,
     FlagType, StopBegin
<1>6. CASE DeliveryStep
  BY <1>1, <1>6 DEF DeliveryStep, DeliveryExit, PopDelivery, MergeDelivery,
     DeliveryObserve, Observed, FatalFor, deliveryFrame, FlagType, StopBegin
<1> QED
  BY <1>2, <1>3, <1>4, <1>5, <1>6 DEF Next, LifecycleCall

LEMMA AttemptsNext ==
    ASSUME TypeOK, TypeOK', EpochOwnership, ThreadInv, ThreadsOutrun,
           NothingBeforeStart, AttemptsAccounted, [Next]_vars
    PROVE  AttemptsAccounted'
<1> SUFFICES ASSUME started', ~shutdown', ~fatal'
             PROVE  metrics'["started"] =
                        metrics'["completed"] + metrics'["failed"] + InFlight'
  BY DEF AttemptsAccounted
<1> USE DEF gateVars, episodeVars, metricVars, workVars
<1>1. MetricType /\ InFlight \in {0, 1}
  BY DEF TypeOK, InFlight
<1>2. /\ "started" \in Counters /\ "completed" \in Counters
      /\ "failed" \in Counters
      /\ metrics["started"] \in Nat /\ metrics["completed"] \in Nat
      /\ metrics["failed"] \in Nat
  BY <1>1 DEF MetricType, Counters
<1>3. CASE Start \/ ResetBegin
  <2>1. InFlight' = 0
    <3>1. CASE Start
      BY <3>1 DEF Start, InFlight, Undecided
    <3>2. CASE ResetBegin
      <4>1. work'.epoch # epoch'
        BY <3>2, EpochTypes DEF ResetBegin, Invalidate, ThreadInv
      <4> QED
        BY <4>1 DEF InFlight
    <3> QED
      BY <1>3, <3>1, <3>2
  <2> QED
    BY <1>2, <1>3, <2>1, CountsFromZero
<1>4. CASE ~(Start \/ ResetBegin)
  <2>1. /\ started /\ ~shutdown /\ ~fatal /\ ~StopBegin
        /\ metrics["started"] =
                metrics["completed"] + metrics["failed"] + InFlight
    BY <1>4, RanBefore DEF AttemptsAccounted
  <2>2. EpochIsCurrent(work.epoch) <=> work.epoch = epoch
    BY <2>1, OpenIsCurrent
  <2>3. CASE Admit
    <3>1. InFlight = 0
      BY <2>3 DEF Admit, InFlight, Undecided
    <3>2. InFlight' = 1
      BY <2>3 DEF Admit, InFlight, Undecided, EpochOwnership, workerFrame
    <3>3. /\ metrics'["started"] = metrics["started"] + 1
          /\ metrics'["completed"] = metrics["completed"]
          /\ metrics'["failed"] = metrics["failed"]
      BY <1>1, <1>2, <2>3, BumpAt DEF Admit
    <3> QED
      BY <1>2, <2>1, <3>1, <3>2, <3>3
  <2>4. CASE CompleteInference
    <3>1. InFlight' = 0
      BY <2>4 DEF CompleteInference, InFlight, Undecided
    <3>2. CASE work.epoch = epoch
      <4>1. InFlight = 1
        BY <2>4, <3>2 DEF CompleteInference, InFlight, Undecided
      <4>2. metrics' = Bump({"completed"})
        BY <2>2, <2>4, <3>2 DEF CompleteInference
      <4>3. /\ metrics'["started"] = metrics["started"]
            /\ metrics'["completed"] = metrics["completed"] + 1
            /\ metrics'["failed"] = metrics["failed"]
        BY <1>1, <1>2, <4>2, BumpAt
      <4> QED
        BY <1>2, <2>1, <3>1, <4>1, <4>3
    <3>3. CASE work.epoch # epoch
      <4>1. InFlight = 0 /\ metrics' = metrics
        BY <2>2, <2>4, <3>3 DEF CompleteInference, InFlight
      <4> QED
        BY <2>1, <3>1, <4>1
    <3> QED
      BY <3>2, <3>3
  <2>5. CASE RecordFailure
    <3>1. InFlight' = 0
      BY <2>5 DEF RecordFailure, InFlight, Undecided
    <3>2. CASE work.epoch = epoch
      <4>1. InFlight = 1
        BY <2>5, <3>2 DEF RecordFailure, InFlight, Undecided
      <4>2. metrics' = Bump({"failed"})
        BY <2>2, <2>5, <3>2 DEF RecordFailure
      <4>3. /\ metrics'["started"] = metrics["started"]
            /\ metrics'["completed"] = metrics["completed"]
            /\ metrics'["failed"] = metrics["failed"] + 1
        BY <1>1, <1>2, <4>2, BumpAt
      <4> QED
        BY <1>2, <2>1, <3>1, <4>1, <4>3
    <3>3. CASE work.epoch # epoch
      <4>1. InFlight = 0 /\ metrics' = metrics
        BY <2>2, <2>5, <3>3 DEF RecordFailure, InFlight
      <4> QED
        BY <2>1, <3>1, <4>1
    <3> QED
      BY <3>2, <3>3
  <2>6. CASE WorkerStep /\ ~Admit /\ ~CompleteInference /\ ~RecordFailure
    <3>1. InFlight' = InFlight
      BY <2>1, <2>6, InFlightWorker
    <3>2. \A c \in RequestCounters : metrics'[c] = metrics[c]
      BY <2>6, RequestsUncounted
    <3> QED
      BY <2>1, <3>1, <3>2 DEF RequestCounters
  <2>7. CASE LifecycleStep \/ ControlCall \/ DeliveryStep \/ UNCHANGED vars
    <3>1. InFlight' = InFlight
      BY <2>7, LifecycleCounts DEF InFlight
    <3>2. \A c \in RequestCounters : metrics'[c] = metrics[c]
      BY <2>7, RequestsUncounted
    <3> QED
      BY <2>1, <3>1, <3>2 DEF RequestCounters
  <2> QED
    BY <1>4, <2>1, <2>3, <2>4, <2>5, <2>6, <2>7 DEF Next, LifecycleCall
<1> QED
  BY <1>3, <1>4

(* The accounts of responses, over the counters m, the size n of the heap   *)
(* and what the owner (s: to schedule, w: to merge) and the delivery thread *)
(* (d) hold of the running episode.                                         *)
ResponseSums(m, n, s, d, w) ==
    IF Scheduler
    THEN /\ m["completed"] = m["scheduled"] + s
         /\ m["scheduled"] = m["delivered"] + m["outOfOrder"] + n + d
         /\ m["delivered"] + m["outOfOrder"] = m["accepted"] + m["stale"]
    ELSE m["completed"] = m["accepted"] + m["stale"] + w
ToSchedule == wpc = "schedule" /\ work.epoch = epoch
ToMerge == wpc = "merge" /\ work.epoch = epoch
Delivering == dpc = "merge" /\ delivery.epoch = epoch

LEMMA SumsHold ==
    ASSUME ResponsesAccounted, started, ~shutdown, ~fatal
    PROVE  \E s, d, w \in {0, 1} :
               /\ s = 1 <=> ToSchedule
               /\ d = 1 <=> Delivering
               /\ w = 1 <=> ToMerge
               /\ ResponseSums(metrics, Cardinality(pending), s, d, w)
<1> DEFINE s == InHands(wpc, "schedule", work)
           d == InHands(dpc, "merge", delivery)
           w == InHands(wpc, "merge", work)
<1>1. s \in {0, 1} /\ d \in {0, 1} /\ w \in {0, 1}
  BY DEF InHands
<1>2. (s = 1 <=> ToSchedule) /\ (d = 1 <=> Delivering) /\ (w = 1 <=> ToMerge)
  BY DEF InHands, ToSchedule, Delivering, ToMerge
<1>3. ResponseSums(metrics, Cardinality(pending), s, d, w)
  <2> HIDE DEF s, d, w
  <2>1. CASE Scheduler
    BY <2>1 DEF ResponsesAccounted, ResponseSums, s, d, w
  <2>2. CASE ~Scheduler
    BY <2>2 DEF ResponsesAccounted, ResponseSums, s, d, w
  <2> QED
    BY <2>1, <2>2
<1> HIDE DEF s, d, w
<1> QED
  BY <1>1, <1>2, <1>3

LEMMA SumsSuffice ==
    ASSUME NEW s \in {0, 1}, NEW d \in {0, 1}, NEW w \in {0, 1},
           s = 1 <=> ToSchedule', d = 1 <=> Delivering', w = 1 <=> ToMerge',
           ResponseSums(metrics', Cardinality(pending'), s, d, w)
    PROVE  ResponsesAccounted'
<1>1. /\ s = (IF wpc' = "schedule" /\ work'.epoch = epoch' THEN 1 ELSE 0)
      /\ d = (IF dpc' = "merge" /\ delivery'.epoch = epoch' THEN 1 ELSE 0)
      /\ w = (IF wpc' = "merge" /\ work'.epoch = epoch' THEN 1 ELSE 0)
  BY DEF ToSchedule, Delivering, ToMerge
<1>2. CASE Scheduler
  BY <1>1, <1>2 DEF ResponsesAccounted, ResponseSums, InHands
<1>3. CASE ~Scheduler
  BY <1>1, <1>3 DEF ResponsesAccounted, ResponseSums, InHands
<1> QED
  BY <1>2, <1>3

ResponseCounters ==
    {"completed", "scheduled", "delivered", "outOfOrder", "accepted", "stale"}

(* A step that moves no response leaves the accounts as they are. *)
LEMMA SumsFrame ==
    ASSUME ResponsesAccounted, started, ~shutdown, ~fatal,
           \A c \in ResponseCounters : metrics'[c] = metrics[c],
           pending' = pending, ToSchedule' <=> ToSchedule,
           Delivering' <=> Delivering, ToMerge' <=> ToMerge
    PROVE  ResponsesAccounted'
<1>1. PICK s \in {0, 1}, d \in {0, 1}, w \in {0, 1} :
          /\ s = 1 <=> ToSchedule
          /\ d = 1 <=> Delivering
          /\ w = 1 <=> ToMerge
          /\ ResponseSums(metrics, Cardinality(pending), s, d, w)
  BY SumsHold
<1>2. ResponseSums(metrics', Cardinality(pending'), s, d, w)
  BY <1>1 DEF ResponseSums, ResponseCounters
<1> QED
  BY <1>1, <1>2, SumsSuffice

(* Steps that move no response: all but an answer's completion, the two     *)
(* threads' merges, its way onto the heap and off it, and a new episode.    *)
LEMMA ResponsesKept ==
    ASSUME TypeOK, ThreadsOutrun, ThreadInv, ResponsesAccounted, [Next]_vars,
           started, ~shutdown, ~fatal,
           ~(Start \/ StopBegin \/ ResetBegin \/ CompleteInference \/ MergeOwn
               \/ ScheduleDelivery \/ PopDelivery \/ MergeDelivery)
    PROVE  ResponsesAccounted'
<1> USE DEF gateVars, episodeVars, heapVars, actionVars, metricVars, workVars,
        deliverVars
<1>1. MetricType
  BY DEF TypeOK
<1>2. pending' = pending
  BY HeapNext
<1>3. \A c \in ResponseCounters : metrics'[c] = metrics[c]
  <2>1. metrics' = metrics \/ metrics' = Bump({"started"})
            \/ metrics' = Bump({"failed"})
    BY DEF Next, LifecycleCall, LifecycleStep, StopCancel, StopJoin,
       StopClose, StopRelease, ResetTransport, OpenGate, TransportCall,
       lifeFrame, ControlCall, Pause, Resume, SetTask, NotifyObservation,
       GetAction, callerFrame, WorkerStep, WorkerExit, Admit, ResetProvider,
       CommitProviderReset, EnterTransport, TransportReturns, WorkerObserve,
       RecordFailure, GiveUp, Crash, Retry, DeliveryStep, DeliveryExit,
       DeliveryObserve, vars
  <2>2. ASSUME NEW c \in ResponseCounters PROVE metrics'[c] = metrics[c]
    <3>1. c \in Counters /\ c \notin {"started"} /\ c \notin {"failed"}
      BY DEF Counters, ResponseCounters
    <3> QED
      BY <1>1, <2>1, <3>1, BumpAt
  <2> QED
    BY <2>2
<1>4. epoch' = epoch
  BY DEF Next, LifecycleCall, LifecycleStep, StopCancel, StopJoin,
     StopClose, StopRelease, ResetTransport, OpenGate, TransportCall,
     lifeFrame, ControlCall, Pause, Resume, SetTask, NotifyObservation,
     GetAction, callerFrame, WorkerStep, WorkerExit, Admit, ResetProvider,
     CommitProviderReset, EnterTransport, TransportReturns, WorkerObserve,
     RecordFailure, GiveUp, Crash, Retry, workerFrame, DeliveryStep,
     DeliveryExit, DeliveryObserve, deliveryFrame, vars
<1>5. \/ wpc' = wpc /\ work' = work
      \/ /\ wpc \notin {"schedule", "merge"}
         /\ wpc' \notin {"schedule", "merge"}
  BY DEF Next, LifecycleCall, LifecycleStep, StopCancel, StopJoin,
     StopClose, StopRelease, ResetTransport, OpenGate, TransportCall,
     lifeFrame, ControlCall, Pause, Resume, SetTask, NotifyObservation,
     GetAction, callerFrame, WorkerStep, WorkerExit, Admit, ResetProvider,
     CommitProviderReset, EnterTransport, TransportReturns, WorkerObserve,
     RecordFailure, GiveUp, Crash, Retry, DeliveryStep,
     DeliveryExit, DeliveryObserve, deliveryFrame, vars
<1>6. \/ dpc' = dpc /\ delivery' = delivery
      \/ dpc # "merge" /\ dpc' # "merge"
  BY DEF Next, LifecycleCall, LifecycleStep, StopCancel, StopJoin,
     StopClose, StopRelease, ResetTransport, OpenGate, TransportCall,
     lifeFrame, ControlCall, Pause, Resume, SetTask, NotifyObservation,
     GetAction, callerFrame, WorkerStep, WorkerExit, Admit, ResetProvider,
     CommitProviderReset, EnterTransport, TransportReturns, WorkerObserve,
     RecordFailure, GiveUp, Crash, Retry, workerFrame, DeliveryStep,
     DeliveryExit, DeliveryObserve, vars
<1>7. /\ ToSchedule' <=> ToSchedule
      /\ ToMerge' <=> ToMerge
      /\ Delivering' <=> Delivering
  BY <1>4, <1>5, <1>6 DEF ToSchedule, ToMerge, Delivering
<1> QED
  BY <1>2, <1>3, <1>7, SumsFrame

LEMMA ResponsesNext ==
    ASSUME TypeOK, TypeOK', EpochOwnership, TeardownHoldsNoActions, ThreadInv,
           OrderInv, ThreadsOutrun, NothingBeforeStart, IsFiniteSet(pending),
           ResponsesAccounted, [Next]_vars
    PROVE  ResponsesAccounted'
<1> SUFFICES ASSUME started', ~shutdown', ~fatal' PROVE ResponsesAccounted'
  BY DEF ResponsesAccounted
<1> USE DEF gateVars, episodeVars, heapVars, actionVars, metricVars, workVars,
        deliverVars
<1>1. MetricType
  BY DEF TypeOK
<1>2. \A c \in ResponseCounters : c \in Counters /\ metrics[c] \in Nat
  BY <1>1 DEF MetricType, Counters, ResponseCounters
<1>3. Cardinality(pending) \in Nat /\ Cardinality({}) = 0
  BY FS_CardinalityType, FS_EmptySet
<1>4. CASE Start \/ ResetBegin
  <2>1. pending' = {}
    BY <1>4 DEF Start, ResetBegin, Invalidate, ForgetActions,
       NothingBeforeStart
  <2>2. ~ToSchedule' /\ ~Delivering' /\ ~ToMerge'
    <3>1. CASE Start
      BY <3>1 DEF Start, ToSchedule, ToMerge, Delivering
    <3>2. CASE ResetBegin
      <4>1. work'.epoch # epoch' /\ delivery'.epoch # epoch'
        BY <3>2, EpochTypes DEF ResetBegin, Invalidate, ThreadInv
      <4> QED
        BY <4>1 DEF ToSchedule, ToMerge, Delivering
    <3> QED
      BY <1>4, <3>1, <3>2
  <2>3. \A c \in ResponseCounters : metrics'[c] = 0
    BY <1>2, <1>4, CountsFromZero
  <2>4. ResponseSums(metrics', Cardinality(pending'), 0, 0, 0)
    BY <1>3, <2>1, <2>3 DEF ResponseSums, ResponseCounters
  <2> QED
    BY <2>2, <2>4, SumsSuffice
<1>5. CASE ~(Start \/ ResetBegin)
  <2>1. started /\ ~shutdown /\ ~fatal /\ ~StopBegin
    BY <1>5, RanBefore
  <2>2. /\ EpochIsCurrent(work.epoch) <=> work.epoch = epoch
        /\ EpochIsCurrent(delivery.epoch) <=> delivery.epoch = epoch
    BY <2>1, OpenIsCurrent
  <2>3. PICK s \in {0, 1}, d \in {0, 1}, w \in {0, 1} :
            /\ s = 1 <=> ToSchedule
            /\ d = 1 <=> Delivering
            /\ w = 1 <=> ToMerge
            /\ ResponseSums(metrics, Cardinality(pending), s, d, w)
    BY <2>1, SumsHold
  <2>4. CASE CompleteInference
    <3>1. /\ wpc = "answered" /\ wpc' \in {"schedule", "merge", "wait"}
          /\ UNCHANGED <<epoch, pending, dpc, delivery>>
      BY <2>4 DEF CompleteInference, workerFrame
    <3>2. ~ToSchedule /\ ~ToMerge /\ (Delivering' <=> Delivering)
      BY <3>1 DEF ToSchedule, ToMerge, Delivering
    <3>3. CASE work.epoch = epoch
      <4>1. /\ metrics' = Bump({"completed"}) /\ work' = work
            /\ wpc' = (IF Scheduler THEN "schedule" ELSE "merge")
        BY <2>2, <2>4, <3>3 DEF CompleteInference
      <4>2. /\ metrics'["completed"] = metrics["completed"] + 1
            /\ \A c \in ResponseCounters \ {"completed"} :
                  metrics'[c] = metrics[c]
        BY <1>1, <1>2, <4>1, BumpAt DEF ResponseCounters
      <4>3. CASE Scheduler
        <5>1. ToSchedule' /\ ~ToMerge'
          BY <3>1, <3>3, <4>1, <4>3 DEF ToSchedule, ToMerge
        <5>2. ResponseSums(metrics', Cardinality(pending'), 1, d, 0)
          BY <1>2, <1>3, <2>3, <3>1, <3>2, <4>2, <4>3
             DEF ResponseSums, ResponseCounters
        <5> QED
          BY <2>3, <3>2, <5>1, <5>2, SumsSuffice
      <4>4. CASE ~Scheduler
        <5>1. ~ToSchedule' /\ ToMerge'
          BY <3>1, <3>3, <4>1, <4>4 DEF ToSchedule, ToMerge
        <5>2. ResponseSums(metrics', Cardinality(pending'), 0, d, 1)
          BY <1>2, <1>3, <2>3, <3>1, <3>2, <4>2, <4>4
             DEF ResponseSums, ResponseCounters
        <5> QED
          BY <2>3, <3>2, <5>1, <5>2, SumsSuffice
      <4> QED
        BY <4>3, <4>4
    <3>4. CASE work.epoch # epoch
      <4>1. metrics' = metrics /\ wpc' = "wait"
        BY <2>2, <2>4, <3>4 DEF CompleteInference
      <4>2. ~ToSchedule' /\ ~ToMerge'
        BY <4>1 DEF ToSchedule, ToMerge
      <4> QED
        BY <2>1, <3>1, <3>2, <4>1, <4>2, SumsFrame
    <3> QED
      BY <3>3, <3>4
  <2>5. CASE MergeOwn
    <3>1. /\ wpc = "merge" /\ wpc' = "wait" /\ ~Scheduler
          /\ UNCHANGED <<epoch, pending, dpc, delivery>>
      BY <2>5 DEF MergeOwn, MergeDirect, ThreadInv, workerFrame
    <3>2. ~ToSchedule /\ ~ToSchedule' /\ ~ToMerge'
          /\ (Delivering' <=> Delivering)
      BY <3>1 DEF ToSchedule, ToMerge, Delivering
    <3>3. CASE work.epoch = epoch
      <4>1. ToMerge /\ AlignAndCommit(work, {})
        BY <2>2, <2>5, <3>1, <3>3 DEF ToMerge, MergeOwn, MergeDirect
      <4>2. metrics' = Bump({"accepted"}) \/ metrics' = Bump({"stale"})
        <5>1. {} \cup {"accepted"} = {"accepted"}
              /\ {} \cup {"stale"} = {"stale"}
          OBVIOUS
        <5> QED
          BY <4>1, <5>1, MergeCounts, Zenon
      <4>3. /\ metrics'["completed"] = metrics["completed"]
            /\ metrics'["accepted"] + metrics'["stale"] =
                    metrics["accepted"] + metrics["stale"] + 1
        BY <1>1, <1>2, <4>2, BumpAt DEF ResponseCounters
      <4>4. ResponseSums(metrics', Cardinality(pending'), 0, d, 0)
        BY <1>2, <2>3, <3>1, <4>1, <4>3 DEF ResponseSums, ResponseCounters
      <4> QED
        BY <2>3, <3>2, <4>4, SumsSuffice
    <3>4. CASE work.epoch # epoch
      <4>1. metrics' = metrics /\ ~ToMerge
        BY <2>2, <2>5, <3>4 DEF MergeOwn, MergeDirect, ToMerge
      <4> QED
        BY <2>1, <3>1, <3>2, <4>1, SumsFrame
    <3> QED
      BY <3>3, <3>4
  <2>6. CASE ScheduleDelivery
    <3>1. /\ wpc = "schedule" /\ wpc' \in {"wait", "observe"} /\ Scheduler
          /\ UNCHANGED <<epoch, dpc, delivery>>
      BY <2>6 DEF ScheduleDelivery, ThreadInv, workerFrame
    <3>2. /\ ~ToMerge /\ ~ToMerge' /\ ~ToSchedule'
          /\ (Delivering' <=> Delivering)
      BY <3>1 DEF ToSchedule, ToMerge, Delivering
    <3>3. CASE work.epoch = epoch
      <4>1. /\ pending' = pending \cup {work}
            /\ metrics' = Bump({"scheduled"})
        <5>1. fatal' # FatalFor(work.epoch)
          BY <2>1, <2>2, <3>3 DEF FatalFor, EpochIsCurrent
        <5> QED
          BY <2>2, <2>6, <3>3, <5>1 DEF ScheduleDelivery
      <4>2. work \notin pending
        <5>1. Attempting
          BY <3>1, <3>3 DEF Attempting
        <5>2. \A a \in pending : a.src < work.src /\ a.src \in Int
          BY <5>1, OrderTypes
             DEF OrderInv, Past, Answers, Contract!Newer
        <5> QED
          BY <5>2
      <4>3. Cardinality(pending') = Cardinality(pending) + 1
        BY <4>1, <4>2, FS_AddElement
      <4>4. /\ metrics'["scheduled"] = metrics["scheduled"] + 1
            /\ \A c \in ResponseCounters \ {"scheduled"} :
                  metrics'[c] = metrics[c]
        BY <1>1, <1>2, <4>1, BumpAt DEF ResponseCounters
      <4>5. s = 1
        BY <2>3, <3>1, <3>3 DEF ToSchedule
      <4>6. ResponseSums(metrics', Cardinality(pending'), 0, d, w)
        BY <1>2, <1>3, <2>3, <3>1, <4>3, <4>4, <4>5
           DEF ResponseSums, ResponseCounters
      <4> QED
        BY <2>3, <3>2, <4>6, SumsSuffice
    <3>4. CASE work.epoch # epoch
      <4>1. metrics' = metrics /\ pending' = pending /\ ~ToSchedule
        BY <2>2, <2>6, <3>4 DEF ScheduleDelivery, ToSchedule
      <4> QED
        BY <2>1, <3>2, <4>1, SumsFrame
    <3> QED
      BY <3>3, <3>4
  <2>7. CASE PopDelivery
    <3>1. /\ dpc = "wait" /\ dpc' = "merge" /\ metrics' = metrics
          /\ delivery' \in pending /\ pending' = pending \ {delivery'}
          /\ UNCHANGED <<epoch, wpc, work>>
      BY <2>7 DEF PopDelivery, deliveryFrame
    <3>2. ~Delivering /\ Delivering'
      BY <3>1 DEF Delivering, EpochOwnership
    <3>3. (ToSchedule' <=> ToSchedule) /\ (ToMerge' <=> ToMerge)
      BY <3>1 DEF ToSchedule, ToMerge
    <3>4. Cardinality(pending') = Cardinality(pending) - 1
      BY <3>1, FS_RemoveElement
    <3>5. d = 0
      BY <2>3, <3>2
    <3>6. ResponseSums(metrics, Cardinality(pending), s, 0, w)
      BY <2>3, <3>5
    <3>7. ResponseSums(metrics, Cardinality(pending'), s, 1, w)
      <4>1. CASE Scheduler
        BY <1>2, <1>3, <3>4, <3>6, <4>1 DEF ResponseSums, ResponseCounters
      <4>2. CASE ~Scheduler
        BY <3>6, <4>2 DEF ResponseSums
      <4> QED
        BY <4>1, <4>2
    <3> QED
      BY <2>3, <3>1, <3>2, <3>3, <3>7, SumsSuffice
  <2>8. CASE MergeDelivery
    <3>1. /\ dpc = "merge" /\ dpc' = "observe" /\ Scheduler
          /\ UNCHANGED <<epoch, wpc, work, pending>>
      BY <2>8 DEF MergeDelivery, ThreadInv, deliveryFrame
    <3>2. (ToSchedule' <=> ToSchedule) /\ (ToMerge' <=> ToMerge)
          /\ ~Delivering'
      BY <3>1 DEF ToSchedule, ToMerge, Delivering
    <3>3. CASE delivery.epoch = epoch
      <4>1. \/ metrics' = Bump({"outOfOrder", "stale"})
            \/ metrics' = Bump({"delivered"} \cup {"accepted"})
            \/ metrics' = Bump({"delivered"} \cup {"stale"})
        BY <2>2, <2>8, <3>3, MergeCounts DEF MergeDelivery, MergeScheduled
      <4>2. /\ metrics'["completed"] = metrics["completed"]
            /\ metrics'["scheduled"] = metrics["scheduled"]
            /\ metrics'["delivered"] + metrics'["outOfOrder"] =
                    metrics["delivered"] + metrics["outOfOrder"] + 1
            /\ metrics'["accepted"] + metrics'["stale"] =
                    metrics["accepted"] + metrics["stale"] + 1
        BY <1>1, <1>2, <4>1, BumpAt DEF ResponseCounters
      <4>3. d = 1
        BY <2>3, <3>1, <3>3 DEF Delivering
      <4>4. \A c \in ResponseCounters : metrics'[c] \in Nat
        BY <1>2 DEF TypeOK, MetricType
      <4>5. ResponseSums(metrics', Cardinality(pending'), s, 0, w)
        BY <1>2, <1>3, <2>3, <3>1, <4>2, <4>3, <4>4
           DEF ResponseSums, ResponseCounters
      <4> QED
        BY <2>3, <3>2, <4>5, SumsSuffice
    <3>4. CASE delivery.epoch # epoch
      <4>1. metrics' = metrics /\ ~Delivering
        BY <2>2, <2>8, <3>4 DEF MergeDelivery, MergeScheduled, Delivering
      <4>2. \A c \in ResponseCounters : metrics'[c] = metrics[c]
        BY <4>1
      <4>3. Delivering' <=> Delivering
        BY <3>2, <4>1
      <4> QED
        BY <2>1, <3>1, <3>2, <4>2, <4>3, SumsFrame
    <3> QED
      BY <3>3, <3>4
  <2> QED
    BY <1>5, <2>1, <2>4, <2>5, <2>6, <2>7, <2>8, ResponsesKept
<1> QED
  BY <1>4, <1>5

-----------------------------------------------------------------------------
(* The inductive invariant *)

LEMMA InductiveInit == Init => InductiveInv
<1> SUFFICES ASSUME Init PROVE InductiveInv
  OBVIOUS
<1>1. Past = {} /\ Committed = {} /\ Answers = {}
  BY DEF Init, Past, Committed, Answers, Queued
<1>2. EpochOwnership /\ TeardownHoldsNoActions /\ GateInv /\ ThreadInv
      /\ ProviderInv /\ OrderInv
  BY <1>1 DEF Init, EpochOwnership, TeardownHoldsNoActions, GateInv, ThreadInv,
     SingleOwner, ProviderInv, OrderInv, Attempting, NoItem, NoObs
<1>3. StarvedInv /\ ThreadsOutrun /\ NothingBeforeStart /\ AnswersDiffer
  BY <1>1 DEF Init, StarvedInv, ThreadsOutrun, NothingBeforeStart,
     AnswersDiffer
<1>4. FailuresOfEpisode
  <2>1. InFlight = 0
    BY DEF Init, InFlight, Undecided
  <2> QED
    BY <2>1 DEF Init, FailuresOfEpisode
<1>5. IsFiniteSet(pending)
  BY FS_EmptySet DEF Init
<1>6. AttemptsAccounted /\ ResponsesAccounted
  BY DEF Init, AttemptsAccounted, ResponsesAccounted
<1> QED
  BY <1>2, <1>3, <1>4, <1>5, <1>6 DEF InductiveInv, AccountInv

LEMMA InductiveNext ==
    TypeOK /\ TypeOK' /\ InductiveInv /\ [Next]_vars => InductiveInv'
<1> SUFFICES ASSUME TypeOK, TypeOK', InductiveInv, [Next]_vars
             PROVE  InductiveInv'
  OBVIOUS
<1> USE DEF InductiveInv, AccountInv
<1>1. OrderInv'
  <2>1. CASE UNCHANGED vars
    <3>1. UNCHANGED <<currentStep, mailbox, ordinal, revision, epoch, pending,
                      latestDelivered, queue, lastAction, dpc, delivery,
                      wpc, work>>
      BY <2>1 DEF vars, episodeVars, heapVars, actionVars, workVars,
           deliverVars
    <3> QED
      BY <3>1, OrderUntouched DEF Attempting, Twin
  <2> QED
    BY <2>1, OrderLifecycle, OrderControl, OrderWorker, OrderDelivery DEF Next
<1>2. AccountInv'
  BY OutrunNext, NothingNext, FailuresNext, FiniteNext, AnswersDifferNext,
     AttemptsNext, ResponsesNext
<1> QED
  BY <1>1, <1>2, OwnershipNext, TeardownNext, GateNext, ThreadNext,
     ProviderNext, StarvedNext

THEOREM InductiveInvariant == Spec => []InductiveInv
<1>1. TypeOK /\ TypeOK' /\ InductiveInv /\ [Next]_vars => InductiveInv'
  BY InductiveNext
<1> QED
  BY <1>1, InductiveInit, TypeCorrect, PTL DEF Spec

(* Nothing of an invalidated episode is ever in the mailbox, the queue, the *)
(* held action or the response heap.                                        *)
THEOREM EpochOwned == Spec => []EpochOwnership
BY InductiveInvariant, PTL DEF InductiveInv

(* While stop or reset runs, and after a stop, there is no action to give. *)
THEOREM TeardownIsEmpty == Spec => []TeardownHoldsNoActions
BY InductiveInvariant, PTL DEF InductiveInv

(* The policy runs only on state completely reset in its own episode. *)
THEOREM ResetBeforeInference == Spec => []InferOnlyAfterReset
<1>1. InductiveInv => InferOnlyAfterReset
  BY DEF InductiveInv, ProviderInv, InferOnlyAfterReset
<1> QED
  BY <1>1, InductiveInvariant, PTL

(* There is never more than one policy owner. *)
THEOREM OneOwner == Spec => []SingleOwner
<1>1. InductiveInv => SingleOwner
  BY DEF InductiveInv, ThreadInv
<1> QED
  BY <1>1, InductiveInvariant, PTL

(* The request an owner decides about is newer than all answers on their    *)
(* way, and those have different sources.                                   *)
LEMMA OneResponse ==
    ASSUME TypeOK, InductiveInv PROVE OneResponsePerObservation
<1> DEFINE owned == IF wpc \in {"answered", "schedule"} THEN {work} ELSE {}
<1>1. SUFFICES ASSUME NEW p \in LiveResponses, NEW q \in LiveResponses,
                      p.src = q.src
               PROVE  p = q
  BY DEF OneResponsePerObservation
<1>2. \A r \in LiveResponses : r \in Answers \/ (r = work /\ Attempting)
  BY DEF LiveResponses, Answers, Attempting
<1>3. Attempting => \A a \in Answers : /\ a.src < work.src
                                       /\ a.src \in Int /\ work.src \in Int
  BY OrderTypes DEF InductiveInv, OrderInv, Past, Contract!Newer
<1>4. CASE p \in Answers /\ q \in Answers
  BY <1>1, <1>4 DEF InductiveInv, AccountInv, AnswersDiffer
<1>5. CASE p = work /\ q = work
  BY <1>5
<1>6. CASE Attempting /\ p = work /\ q \in Answers
  BY <1>1, <1>3, <1>6
<1>7. CASE Attempting /\ q = work /\ p \in Answers
  BY <1>1, <1>3, <1>7
<1> QED
  BY <1>2, <1>4, <1>5, <1>6, <1>7

(* Every request, response and failure of the running episode is counted    *)
(* once, and no two live responses answer the same observation: no counter  *)
(* of telemetry loses or repeats a step of a thread that was interrupted.   *)
THEOREM EveryoneIsCounted == Spec => []Accounting
<1>1. TypeOK /\ InductiveInv => Accounting
  <2> SUFFICES ASSUME TypeOK, InductiveInv PROVE Accounting
    OBVIOUS
  <2>1. FailuresAreOwn
    <3>1. InFlight \in {0, 1} /\ failures \in Nat /\ ordinal \in Nat
      BY DEF InFlight, TypeOK, MetricType, ObservationType
    <3>2. ~shutdown => failures <= ordinal
      BY <3>1 DEF InductiveInv, AccountInv, FailuresOfEpisode
    <3>3. connected <=> failures = 0
      BY DEF InductiveInv, AccountInv, FailuresOfEpisode
    <3> QED
      BY <3>2, <3>3 DEF FailuresAreOwn
  <2> QED
    BY <2>1, OneResponse DEF Accounting, InductiveInv, AccountInv
<1> QED
  BY <1>1, TypeCorrect, InductiveInvariant, PTL

-----------------------------------------------------------------------------
(* What one step may never do *)

(* The engine turns fatal in a lifecycle call that fails, or by work of the *)
(* running episode in the hands of one of its threads.                      *)
LEMMA FatalStep ==
    ASSUME [Next]_vars, ~fatal, fatal'
    PROVE  \/ life # "idle"
           \/ ~shutdown /\ WorkerBusy /\ work.epoch = epoch
           \/ ~shutdown /\ DeliveryBusy /\ delivery.epoch = epoch
<1> USE DEF gateVars
<1>1. CASE LifecycleCall \/ ControlCall \/ UNCHANGED vars
  BY <1>1 DEF LifecycleCall, Start, StopBegin, ResetBegin, ControlCall, Pause,
     Resume, SetTask, NotifyObservation, GetAction, callerFrame, vars
<1>2. CASE LifecycleStep
  BY <1>2 DEF LifecycleStep, StopCancel, StopJoin, StopClose, StopRelease,
     ResetTransport, OpenGate, TransportCall
<1>3. CASE WorkerStep
  <2>1. wpc \in {"schedule", "observe", "giveUp", "crashed"}
        /\ fatal' = FatalFor(work.epoch)
    BY <1>3 DEF WorkerStep, WorkerExit, Admit, ResetProvider,
       CommitProviderReset, EnterTransport, TransportReturns,
       CompleteInference, MergeOwn, ScheduleDelivery, WorkerObserve,
       RecordFailure, GiveUp, Crash, Retry, Observed
  <2> QED
    BY <2>1 DEF FatalFor, WorkerBusy
<1>4. CASE DeliveryStep
  <2>1. dpc = "observe" /\ fatal' = FatalFor(delivery.epoch)
    BY <1>4 DEF DeliveryStep, DeliveryExit, PopDelivery, MergeDelivery,
       DeliveryObserve, Observed
  <2> QED
    BY <2>1 DEF FatalFor, DeliveryBusy
<1> QED
  BY <1>1, <1>2, <1>3, <1>4 DEF Next

(* Late failures of an episode that is over never stop the running one.     *)
THEOREM FatalIsOfTheEpisode == Spec => FatalIsOwn
<1> DEFINE Step == ~fatal /\ fatal' =>
               \/ life # "idle"
               \/ ~shutdown /\ WorkerBusy /\ work.epoch = epoch
               \/ ~shutdown /\ DeliveryBusy /\ delivery.epoch = epoch
<1>1. [Next]_vars => [Step]_vars
  BY FatalStep
<1> QED
  BY <1>1, PTL DEF Spec, FatalIsOwn

(* Only a merge puts something new at the head of the queue. *)
LEMMA CommitMerges ==
    ASSUME TypeOK, TypeOK', [Next]_vars, Commit
    PROVE  \E item \in Items : \E C : AlignAndCommit(item, C)
                                     /\ currentStep' = currentStep
<1> USE DEF gateVars, episodeVars, heapVars, actionVars, metricVars, workVars,
        deliverVars
<1>1. queue \in Seq(Actions) /\ queue' \in Seq(Actions)
  BY DEF TypeOK, ActionType
<1>2. queue' # queue
  BY <1>1 DEF Commit, Queued
<1>3. queue' # <<>>
  BY DEF Commit
<1>4. ~GetAction
  <2> SUFFICES ASSUME GetAction PROVE FALSE
    OBVIOUS
  <2>1. queue # <<>> /\ queue' = Tail(queue)
    BY <1>2 DEF GetAction
  <2>2. 2 \in 1..Len(queue) /\ queue'[1] = queue[2]
    BY <1>1, <1>3, <2>1
  <2> QED
    BY <2>2 DEF Commit, Queued
<1>5. ~(LifecycleCall \/ LifecycleStep \/ ControlCall \/ UNCHANGED vars)
  BY <1>2, <1>3, <1>4 DEF LifecycleCall, Start, StopBegin, ResetBegin,
     Invalidate, ForgetActions, LifecycleStep, StopCancel, StopJoin,
     StopClose, StopRelease, ResetTransport, OpenGate, TransportCall,
     lifeFrame, ControlCall, Pause, Resume, SetTask, NotifyObservation, vars
<1>6. CASE WorkerStep
  <2>1. MergeOwn /\ EpochIsCurrent(work.epoch)
    BY <1>2, <1>6 DEF WorkerStep, WorkerExit, Admit, ResetProvider,
       CommitProviderReset, EnterTransport, TransportReturns,
       CompleteInference, MergeOwn, MergeDirect, ScheduleDelivery,
       WorkerObserve, RecordFailure, GiveUp, Crash, Retry
  <2>2. work \in Items /\ AlignAndCommit(work, {})
        /\ currentStep' = currentStep
    BY <2>1, CurrentWorkIsItem
       DEF MergeOwn, MergeDirect, EpochIsCurrent, workerFrame
  <2> QED
    BY <2>2
<1>7. CASE DeliveryStep
  <2>1. MergeDelivery /\ EpochIsCurrent(delivery.epoch)
    BY <1>2, <1>7 DEF DeliveryStep, DeliveryExit, PopDelivery, MergeDelivery,
       MergeScheduled, DeliveryObserve
  <2>2. delivery \in Items /\ AlignAndCommit(delivery, {"delivered"})
        /\ currentStep' = currentStep
    BY <1>2, <2>1, CurrentWorkIsItem
       DEF MergeDelivery, MergeScheduled, EpochIsCurrent, deliveryFrame
  <2> QED
    BY <2>2
<1> QED
  BY <1>5, <1>6, <1>7 DEF Next

(* A chunk enters the queue aligned to the current step, or, if it is past  *)
(* altogether, as a fallback.                                               *)
LEMMA StaleStep ==
    ASSUME TypeOK, TypeOK', StarvedInv, [Next]_vars, Commit,
           queue'[1].src + queue'[1].idx < currentStep
    PROVE  /\ LatestOnlyFallback /\ queue = <<>> /\ queue'[1].idx = 0
           /\ lastAction = NoAction \/ hold >= BoundedHold
<1>1. PICK item \in Items : \E C : AlignAndCommit(item, C)
  BY CommitMerges
<1>2. PICK C : AlignAndCommit(item, C)
  BY <1>1
<1>3. /\ Age(item) \in Nat /\ item.len \in Nat /\ item.src \in Nat
      /\ currentStep \in Int /\ hold \in Int /\ BoundedHold \in Nat
  BY AgeType, ConfigAssumption, BoundAssumption
     DEF Items, Steps, TypeOK, ObservationType, ActionType, ConfigAssumption,
         BoundAssumption
<1>4. ASSUME NEW d \in Nat, d < item.len, queue' = TailFrom(item, d)
      PROVE  queue'[1].src = item.src /\ queue'[1].idx = d
  <2>1. 1 \in 1..(item.len - d) /\ d + 1 - 1 = d
    BY <1>3, <1>4
  <2>2. queue'[1] = ActionOf(item, d)
    BY <1>4, <2>1 DEF TailFrom
  <2> QED
    BY <2>2 DEF ActionOf
<1>5. CASE CommitAligned(item, C)
  <2>1. queue'[1].src = item.src /\ queue'[1].idx = Age(item)
    BY <1>3, <1>4, <1>5 DEF CommitAligned, Replace
  <2>2. item.src + Age(item) >= currentStep
    BY <1>3 DEF Age
  <2> QED
    BY <1>3, <2>1, <2>2
<1>6. CASE CommitFallback(item, C)
  <2>1. FallbackAllowed /\ queue' = TailFrom(item, 0)
    BY <1>6 DEF CommitFallback, Replace
  <2>2. queue'[1].idx = 0
    <3>1. CASE item.len > 0
      BY <1>3, <1>4, <2>1, <3>1
    <3>2. CASE item.len = 0
      BY <2>1, <3>2 DEF TailFrom, Commit
    <3> QED
      BY <1>3, <3>1, <3>2
  <2>3. lastAction = NoAction \/ hold >= BoundedHold
    BY <1>3, <2>1 DEF FallbackAllowed, StarvedInv, MayHold
  <2> QED
    BY <2>1, <2>2, <2>3 DEF FallbackAllowed
<1>7. CASE RejectStale(item, C)
  <2>1. queue' = queue
    BY <1>7 DEF RejectStale, actionVars
  <2> QED
    BY <2>1 DEF Commit, Queued, TypeOK, ActionType
<1> QED
  BY <1>2, <1>5, <1>6, <1>7 DEF AlignAndCommit

(* An action for a step already past is queued only as the latest-only      *)
(* fallback, when nothing is queued and nothing may be held any more.       *)
THEOREM StaleIsFallback == Spec => StaleOnlyAsFallback
<1> DEFINE Step == Commit /\ queue'[1].src + queue'[1].idx < currentStep =>
               /\ LatestOnlyFallback /\ queue = <<>> /\ queue'[1].idx = 0
               /\ lastAction = NoAction \/ hold >= BoundedHold
<1>1. TypeOK /\ TypeOK' /\ InductiveInv /\ [Next]_vars => [Step]_vars
  BY StaleStep DEF InductiveInv
<1> QED
  BY <1>1, TypeCorrect, InductiveInvariant, PTL DEF Spec, StaleOnlyAsFallback
-----------------------------------------------------------------------------
(* The engine implements the contract of EpisodeActions: every step of     *)
(* every thread is a step of the contract or leaves it unchanged.          *)

(* The image of the engine's gate under the refinement mapping. *)
GateOpen == started /\ EpochIsCurrent(epoch)
GateImage == IF GateOpen THEN "open" ELSE "closed"

(* The contract's variables are the image of five of the engine's. *)
LEMMA ContractStutter ==
    ASSUME UNCHANGED <<epoch, queue, lastAction, hold>>, GateOpen' <=> GateOpen
    PROVE  UNCHANGED Contract!vars
BY DEF Contract!vars, GateOpen

(* Turning fatal closes the gate and touches nothing else. *)
LEMMA ContractFail ==
    ASSUME UNCHANGED <<epoch, queue, lastAction, hold>>, GateOpen' => GateOpen
    PROVE  [Contract!Next]_(Contract!vars)
<1>1. CASE GateOpen /\ ~GateOpen'
  <2>1. Contract!Fail
    BY <1>1 DEF Contract!Fail, GateOpen
  <2> QED
    BY <2>1 DEF Contract!Next
<1>2. CASE GateOpen' <=> GateOpen
  BY <1>2, ContractStutter
<1> QED
  BY <1>1, <1>2

(* Opening the gate, which happens only when there is nothing to give. *)
LEMMA ContractOpen ==
    ASSUME UNCHANGED <<epoch, queue, lastAction, hold>>,
           GateOpen \/ (queue = <<>> /\ lastAction = NoAction)
    PROVE  [Contract!Next]_(Contract!vars)
<1>1. CASE ~GateOpen /\ GateOpen'
  <2>1. Contract!OpenGate
    BY <1>1 DEF Contract!OpenGate, Contract!Nothing, GateOpen
  <2> QED
    BY <2>1 DEF Contract!Next
<1>2. CASE GateOpen \/ ~GateOpen'
  BY <1>2, ContractFail
<1> QED
  BY <1>1, <1>2

(* What a merge puts in the queue is one chunk, newer than all before it.   *)
LEMMA MergedChunk ==
    ASSUME TypeOK, NEW item \in Items, NEW d \in Nat, d < item.len
    PROVE  LET chunk == TailFrom(item, d) IN
           /\ chunk # <<>>
           /\ MadeOf(chunk[1], item)

                /\ \A i \in DOMAIN chunk : chunk[i] = [chunk[1] EXCEPT !.idx = @ + i - 1]
<1> DEFINE chunk == TailFrom(item, d)
<1>1. item.len - d \in Nat /\ 1 \in 1..(item.len - d)
  BY DEF Items
<1>2. DOMAIN chunk = 1..(item.len - d)
  BY DEF TailFrom
<1>3. \A i \in 1..(item.len - d) : chunk[i] = ActionOf(item, d + i - 1)
  BY DEF TailFrom
<1>4. chunk # <<>>
  <2>1. DOMAIN <<>> = {}
    OBVIOUS
  <2> QED
    BY <1>1, <1>2, <2>1
<1>5. MadeOf(chunk[1], item)
  <2>1. chunk[1] = ActionOf(item, d + 1 - 1)
    BY <1>1, <1>3
  <2> QED
    BY <2>1 DEF MadeOf, ActionOf
<1>6. ASSUME NEW i \in DOMAIN chunk
      PROVE  chunk[i] = [chunk[1] EXCEPT !.idx = @ + i - 1]
  <2>1. i \in 1..(item.len - d)
    BY <1>2
  <2>2. chunk[i] = ActionOf(item, d + i - 1) /\ chunk[1] = ActionOf(item, d)
    <3>1. d + 1 - 1 = d
      OBVIOUS
    <3> QED
      BY <1>1, <1>3, <2>1, <3>1
  <2>3. [ActionOf(item, d) EXCEPT !.idx = @ + i - 1] = ActionOf(item,
       d + i - 1)
    BY <2>1 DEF ActionOf
  <2> QED
    BY <2>2, <2>3
<1> QED
  BY <1>4, <1>5, <1>6

LEMMA ContractMerge ==
    ASSUME TypeOK, NEW item \in Items, NEW C, AlignAndCommit(item, C),
           GateOpen, GateOpen', UNCHANGED epoch, item.epoch = epoch,
           item.len > 0,
           \A a \in Committed : Contract!Newer(a, item)
    PROVE  [Contract!Next]_(Contract!vars)
<1>1. CASE RejectStale(item, C)
  <2>1. UNCHANGED <<epoch, queue, lastAction, hold>>
    BY <1>1 DEF RejectStale, actionVars
  <2> QED
    BY <2>1, ContractStutter
<1>2. CASE CommitAligned(item, C) \/ CommitFallback(item, C)
  <2>1. PICK d \in Nat : /\ d < item.len /\ queue' = TailFrom(item, d)
                         /\ hold' = 0 /\ lastAction' = lastAction
    <3>1. Age(item) \in Nat /\ item.len \in Nat
      BY AgeType DEF Items
    <3>2. CASE CommitAligned(item, C)
      BY <3>1, <3>2 DEF CommitAligned, Replace
    <3>3. CASE CommitFallback(item, C)
      BY <3>1, <3>3 DEF CommitFallback, Replace
    <3> QED
      BY <1>2, <3>2, <3>3
  <2>2. /\ queue' # <<>>
        /\ MadeOf(queue'[1], item)

             /\ \A i \in DOMAIN queue' : queue'[i] = [queue'[1] EXCEPT !.idx = @ + i - 1]
    BY <2>1, MergedChunk
  <2>3. \A i \in DOMAIN queue : Contract!Newer(queue[i], queue'[1])
    <3>1. queue \in Seq(Actions)
      BY DEF TypeOK, ActionType
    <3>2. \A i \in DOMAIN queue : queue[i] \in Committed
      BY <3>1 DEF Committed, Queued
    <3> QED
      BY <2>2, <3>2 DEF MadeOf, Contract!Newer
  <2>4. lastAction # NoAction => Contract!Newer(lastAction, queue'[1])
    BY <2>2 DEF Committed, MadeOf, Contract!Newer
  <2>5. queue'[1].epoch = epoch
    BY <2>2 DEF MadeOf
  <2>6. Contract!Commit
    BY <2>1, <2>2, <2>3, <2>4, <2>5 DEF Contract!Commit, GateOpen
  <2> QED
    BY <2>6 DEF Contract!Next
<1> QED
  BY <1>1, <1>2 DEF AlignAndCommit

-----------------------------------------------------------------------------
(* One engine step is at most one contract step. *)

LEMMA RefineLifecycle ==
    ASSUME InductiveInv, LifecycleCall \/ LifecycleStep
    PROVE  [Contract!Next]_(Contract!vars)
<1> USE DEF gateVars, episodeVars, workVars, deliverVars, metricVars,
        actionVars, heapVars
<1>1. CASE Start
  <2>1. UNCHANGED <<epoch, queue, lastAction, hold>>
    BY <1>1 DEF Start
  <2>2. queue = <<>> /\ lastAction = NoAction
    BY <1>1 DEF Start, InductiveInv, GateInv
  <2> QED
    BY <2>1, <2>2, ContractOpen
<1>2. CASE StopBegin \/ ResetBegin
  <2>1. ~GateOpen'
    BY <1>2 DEF StopBegin, ResetBegin, GateOpen, EpochIsCurrent
  <2>2. Contract!EndEpisode
    BY <1>2, <2>1 DEF StopBegin, ResetBegin, Invalidate, ForgetActions,
         Contract!EndEpisode,
       GateOpen
  <2> QED
    BY <2>2 DEF Contract!Next
<1>3. CASE LifecycleStep
  <2>1. /\ UNCHANGED <<epoch, queue, lastAction, hold>>
        /\ life # "idle"
    BY <1>3 DEF LifecycleStep, StopCancel, StopJoin, StopClose, StopRelease,
       ResetTransport, OpenGate, TransportCall, lifeFrame
  <2>2. queue = <<>> /\ lastAction = NoAction
    BY <2>1 DEF InductiveInv, GateInv, TeardownHoldsNoActions
  <2> QED
    BY <2>1, <2>2, ContractOpen
<1> QED
  BY <1>1, <1>2, <1>3 DEF LifecycleCall

LEMMA RefineControl ==
    ASSUME ControlCall
    PROVE  [Contract!Next]_(Contract!vars)
<1> USE DEF gateVars, episodeVars, actionVars
<1>1. UNCHANGED <<epoch, started, shutdown, resetting, fatal>>
      /\ (GateOpen' <=> GateOpen)
  BY DEF ControlCall, Pause, Resume, SetTask, NotifyObservation, GetAction,
       MayHold,
     callerFrame, GateOpen, EpochIsCurrent
<1>2. CASE Pause \/ Resume \/ SetTask \/ NotifyObservation
  <2>1. UNCHANGED <<queue, lastAction, hold>>
    BY <1>2 DEF Pause, Resume, SetTask, NotifyObservation
  <2> QED
    BY <1>1, <2>1, ContractStutter
<1>3. CASE GetAction
  <2>1. GateOpen
    BY <1>3 DEF GetAction, MayHold, GateOpen
  <2>2. CASE queue # <<>>
    <3>1. Contract!Take
      BY <1>1, <1>3, <2>1, <2>2 DEF GetAction, MayHold, Contract!Take, GateOpen
    <3> QED
      BY <3>1 DEF Contract!Next
  <2>3. CASE queue = <<>> /\ hold' = hold
    <3>1. UNCHANGED <<queue, lastAction, hold>>
      BY <1>3, <2>3 DEF GetAction, MayHold
    <3> QED
      BY <1>1, <3>1, ContractStutter
  <2>4. CASE queue = <<>> /\ hold' # hold
    <3>1. /\ lastAction # NoAction /\ hold < BoundedHold /\ hold' = hold + 1
          /\ UNCHANGED <<queue, lastAction>>
      BY <1>3, <2>4 DEF GetAction, MayHold
    <3>2. Contract!Repeat
      BY <1>1, <2>1, <2>4, <3>1 DEF Contract!Repeat, GateOpen
    <3> QED
      BY <3>2 DEF Contract!Next
  <2> QED
    BY <2>2, <2>3, <2>4
<1> QED
  BY <1>2, <1>3 DEF ControlCall

LEMMA RefineWorker ==
    ASSUME TypeOK, InductiveInv, WorkerStep
    PROVE  [Contract!Next]_(Contract!vars)
<1> USE DEF actionVars
<1>1. UNCHANGED <<epoch, started, shutdown, resetting>>
  BY DEF WorkerStep, WorkerExit, Admit, ResetProvider, CommitProviderReset,
     EnterTransport, TransportReturns, CompleteInference, MergeOwn,
     ScheduleDelivery, WorkerObserve, RecordFailure, GiveUp, Crash, Retry,
     workerFrame
<1>2. fatal => fatal'
  BY DEF WorkerStep, WorkerExit, Admit, ResetProvider, CommitProviderReset,
     EnterTransport, TransportReturns, CompleteInference, MergeOwn,
     ScheduleDelivery, WorkerObserve, RecordFailure, GiveUp, Crash, Retry,
     Observed, FatalFor
<1>3. GateOpen' => GateOpen
  BY <1>1, <1>2 DEF GateOpen, EpochIsCurrent
<1>4. CASE MergeOwn /\ EpochIsCurrent(work.epoch)
  <2>1. /\ wpc = "merge" /\ fatal' = fatal
        /\ AlignAndCommit(work, {})
    BY <1>4 DEF MergeOwn, MergeDirect
  <2>2. work \in Items /\ work.epoch = epoch
    BY <1>4, CurrentWorkIsItem DEF EpochIsCurrent
  <2>3. GateOpen /\ GateOpen'
    BY <1>1, <1>4, <2>1, <2>2 DEF GateOpen, EpochIsCurrent, InductiveInv,
       ThreadInv, SingleOwner
  <2>4. \A a \in Committed : Contract!Newer(a, work)
    BY <2>1, <2>2 DEF InductiveInv, OrderInv, Attempting, Past
  <2>5. work.len > 0
    BY <2>1 DEF InductiveInv, ThreadInv
  <2> QED
    BY <1>1, <2>1, <2>2, <2>3, <2>4, <2>5, ContractMerge
<1>5. CASE ~(MergeOwn /\ EpochIsCurrent(work.epoch))
  <2>1. UNCHANGED <<queue, lastAction, hold>>
    BY <1>5 DEF WorkerStep, WorkerExit, Admit, ResetProvider,
       CommitProviderReset, EnterTransport, TransportReturns,
       CompleteInference, MergeOwn, MergeDirect, ScheduleDelivery,
       WorkerObserve, RecordFailure, GiveUp, Crash, Retry
  <2> QED
    BY <1>1, <1>3, <2>1, ContractFail
<1> QED
  BY <1>4, <1>5

LEMMA RefineDelivery ==
    ASSUME TypeOK, InductiveInv, DeliveryStep
    PROVE  [Contract!Next]_(Contract!vars)
<1> USE DEF actionVars
<1>1. UNCHANGED <<epoch, started, shutdown, resetting>>
  BY DEF DeliveryStep, DeliveryExit, PopDelivery, MergeDelivery,
     DeliveryObserve, deliveryFrame
<1>2. fatal => fatal'
  BY DEF DeliveryStep, DeliveryExit, PopDelivery, MergeDelivery,
     DeliveryObserve, Observed, FatalFor
<1>3. GateOpen' => GateOpen
  BY <1>1, <1>2 DEF GateOpen, EpochIsCurrent
<1> DEFINE merges == MergeDelivery /\ EpochIsCurrent(delivery.epoch)
                        /\ delivery.src > latestDelivered
<1>4. CASE merges
  <2>1. dpc = "merge" /\ fatal' = fatal
    BY <1>4 DEF MergeDelivery
  <2>2. delivery \in Items /\ delivery.epoch = epoch
    BY <1>4, CurrentWorkIsItem DEF EpochIsCurrent
  <2>3. delivery \in Past
    BY <2>1, <2>2 DEF Past, Answers
  <2>4. delivery.src \in Int /\ latestDelivered \in Int
    BY <2>3, OrderTypes
  <2>5. AlignAndCommit(delivery, {"delivered"})
    BY <1>4, <2>4 DEF MergeDelivery, MergeScheduled
  <2>6. Scheduler /\ delivery.len > 0
    BY <2>1 DEF InductiveInv, ThreadInv
  <2>7. GateOpen /\ GateOpen'
    BY <1>1, <1>4, <2>1, <2>2 DEF GateOpen, EpochIsCurrent, InductiveInv,
       ThreadInv, SingleOwner

       <2>8. \A a \in Committed : a.src <= latestDelivered /\ a.src \in Int /\ a \in Past
    BY <2>6, OrderTypes DEF InductiveInv, OrderInv, Past
  <2>9. \A a \in Committed : a.src < delivery.src
    BY <1>4, <2>4, <2>8
  <2>10. \A a \in Committed : Contract!Newer(a, delivery)
    BY <2>3, <2>8, <2>9 DEF InductiveInv, OrderInv
  <2> QED
    BY <1>1, <2>2, <2>5, <2>6, <2>7, <2>10, ContractMerge
<1>5. CASE ~merges
  <2>1. UNCHANGED <<queue, lastAction, hold>>
    BY <1>5 DEF DeliveryStep, DeliveryExit, PopDelivery, MergeDelivery,
       MergeScheduled, DeliveryObserve
  <2> QED
    BY <1>1, <1>3, <2>1, ContractFail
<1> QED
  BY <1>4, <1>5

LEMMA RefineNext ==
    TypeOK /\ InductiveInv /\ [Next]_vars => [Contract!Next]_(Contract!vars)
<1>1. ASSUME UNCHANGED vars PROVE UNCHANGED Contract!vars
  <2>1. /\ UNCHANGED <<epoch, queue, lastAction, hold>>
        /\ UNCHANGED <<started, shutdown, resetting, fatal>>
    BY <1>1 DEF vars, actionVars, gateVars
  <2> QED
    BY <2>1, ContractStutter DEF GateOpen, EpochIsCurrent
<1> QED
  BY <1>1, RefineLifecycle, RefineControl, RefineWorker, RefineDelivery
     DEF Next

(* The threaded engine offers the control loop nothing but the contract.    *)
THEOREM EngineImplementsContract == Spec => ImplementsContract
<1>1. Init => Contract!Init
  BY DEF Init, Contract!Init
<1>2. TypeOK /\ InductiveInv /\ [Next]_vars => [Contract!Next]_(Contract!vars)
  BY RefineNext
<1> QED
  BY <1>1, <1>2, TypeCorrect, InductiveInvariant, PTL
     DEF Spec, ImplementsContract, Contract!Spec

(* A contract step that changes the queue's head to something not queued is *)
(* a commit, hence newer than all that was queued or dispatched.            *)
LEMMA NewerStep ==
    ASSUME TypeOK, TypeOK', [Contract!Next]_(Contract!vars), Commit
    PROVE  \A old \in Queued \cup {lastAction} :
               /\ old.src < queue'[1].src /\ old.rev <= queue'[1].rev
               /\ old.ord < queue'[1].ord
<1>1. queue \in Seq(Actions) /\ queue' \in Seq(Actions)
  BY DEF TypeOK, ActionType
<1>2. queue'[1] \in Actions
  BY <1>1 DEF Commit
<1>3. Contract!Commit
  <2>1. ASSUME Contract!Take PROVE FALSE
    <3>1. queue # <<>> /\ queue' = Tail(queue)
      BY <2>1 DEF Contract!Take
    <3>2. 2 \in 1..Len(queue) /\ queue'[1] = queue[2]
      BY <1>1, <3>1 DEF Commit
    <3> QED
      BY <3>2 DEF Commit, Queued
  <2>2. ASSUME queue' = queue PROVE FALSE
    BY <1>1, <2>2 DEF Commit, Queued
  <2>3. ASSUME Contract!EndEpisode PROVE FALSE
    BY <2>3 DEF Contract!EndEpisode, Commit
  <2> QED
    BY <2>1, <2>2, <2>3 DEF Contract!Next, Contract!OpenGate, Contract!Fail,
       Contract!Repeat, Contract!vars
<1>4. \A old \in Queued : Contract!Newer(old, queue'[1])
  BY <1>1, <1>3 DEF Contract!Commit, Queued
<1>5. CASE lastAction # NoAction
  BY <1>3, <1>4, <1>5 DEF Contract!Commit, Contract!Newer
<1>6. CASE lastAction = NoAction
  <2>1. /\ lastAction.src < queue'[1].src /\ lastAction.ord < queue'[1].ord
        /\ lastAction.rev <= queue'[1].rev
    BY <1>2, <1>6, BoundAssumption
       DEF NoAction, Actions, Steps, Revisions, BoundAssumption
  <2> QED
    BY <1>4, <2>1 DEF Contract!Newer
<1> QED
  BY <1>5, <1>6

(* Commits never go back: not in observation, attempt, or task revision.    *)
THEOREM CommitsNewer == Spec => CommitsAreNewer
<1> DEFINE Step == Commit => LET new == queue'[1] IN
               \A old \in Queued \cup {lastAction} :
                   old.src < new.src /\ old.rev <= new.rev /\ old.ord < new.ord
<1>1. TypeOK /\ TypeOK' /\ InductiveInv /\ [Next]_vars => [Step]_vars
  BY RefineNext, NewerStep
<1> QED
  BY <1>1, TypeCorrect, InductiveInvariant, PTL DEF Spec, CommitsAreNewer

-----------------------------------------------------------------------------
(* The clients: the robot's writer and the loop of an episode run over the   *)
(* whole engine.                                                             *)

-----------------------------------------------------------------------------
(* The writer and the operator share a lock: the writer is at its check, its *)
(* write or its unlock exactly while it holds it, the operator at a goal or  *)
(* a lifecycle call exactly while it does.  So what was true at the check is *)
(* true at the write.                                                        *)
PacketIsCurrent ==
    /\ packet.epoch = epoch /\ packet.rev = revision
    /\ started /\ ~shutdown /\ ~resetting

DispatchInv ==
    /\ life # "idle" => opc = "return"
    /\ opc # "idle" <=> holder = "operator"
    /\ tpc \in {"check", "write", "unlock"} <=> holder = "writer"
    /\ tpc = "write" => PacketIsCurrent

-----------------------------------------------------------------------------
(* The loop of an episode: where it is says which episode runs and for which *)
(* instruction.                                                              *)
BeforeReset == {"start", "resume", "reset"}
BeforePublication == BeforeReset \cup {"resetting", "environment", "instruct"}
Controlling == {"observe", "poll", "fetch", "act"}
Ending == {"stopping", "done"}

LoopInv ==
    /\ lpc \in BeforeReset => epoch = 0
    /\ lpc \in BeforePublication => revision = 0 /\ currentStep = -1
    /\ lpc \in {"resetting", "environment", "instruct"} \cup Controlling => epoch = 1
    /\ lpc \in Controlling => revision = 1
    /\ lpc \notin {"stop"} \cup Ending => controlSteps <= MaxStep
    /\ lpc \in Ending => shutdown

(* In a control step all there is was computed for the instruction.          *)
InstructedInv ==
    lpc \in Controlling =>
        /\ \A a \in Past : a.rev = revision
        /\ Attempting => work.rev = revision

(* What was sent last is what the engine dispatched last.                    *)
SentInv ==
    lpc = "act" => sent.action = lastAction /\ lastAction # NoAction

(* The queue is one chunk, in order, and without the fallback its first      *)
(* action is planned for the control step that is published, the one before  *)
(* it or, once that step has been served, for the next one.                  *)
OneChunk ==
    \A i \in DOMAIN queue : queue[i] = [queue[1] EXCEPT !.idx = @ + i - 1]
LagInv ==
    ~LatestOnlyFallback =>
        /\ queue # <<>> /\ lpc \in {"poll", "fetch"} =>
             PlannedFor(queue[1]) \in {currentStep - 1, currentStep}
        /\ queue # <<>> /\ lpc \in {"observe", "act"} =>
             PlannedFor(queue[1]) \in {currentStep, currentStep + 1}
        /\ lpc = "act" /\ ~sent.held =>
             PlannedFor(lastAction) \in {currentStep - 1, currentStep}

EpisodeInv ==
    /\ EpisodeTypeOK /\ InductiveInv
    /\ LoopInv /\ InstructedInv /\ SentInv /\ OneChunk /\ LagInv

-----------------------------------------------------------------------------
(* The robot's writer *)

(* What the threads beside the caller leave alone. *)
LEMMA EngineSideFrame ==
    ASSUME WorkerStep \/ Resume \/ NotifyObservation
    PROVE  UNCHANGED <<life, started, shutdown, resetting, epoch, revision>>
<1>1. CASE WorkerExit \/ Admit \/ ResetProvider \/ CommitProviderReset
  BY <1>1, Zenon DEF WorkerExit, Admit, ResetProvider, CommitProviderReset, workerFrame
<1>2. CASE EnterTransport \/ TransportReturns \/ CompleteInference \/ MergeOwn
  BY <1>2, Zenon DEF EnterTransport, TransportReturns, CompleteInference, MergeOwn, workerFrame
<1>3. CASE ScheduleDelivery \/ WorkerObserve \/ RecordFailure \/ GiveUp \/ Crash \/ Retry
  BY <1>3, Zenon DEF ScheduleDelivery, WorkerObserve, RecordFailure, GiveUp, Crash, Retry,
     workerFrame
<1>4. CASE Resume \/ NotifyObservation
  BY <1>4, Zenon DEF Resume, NotifyObservation, callerFrame
<1> QED
  BY <1>1, <1>2, <1>3, <1>4 DEF WorkerStep

LEMMA DispatchStarts == DispatchInit => DispatchInv
BY DEF DispatchInit, Init, DispatchInv

LEMMA DispatchKeeps == DispatchInv /\ [DispatchNext]_dvars => DispatchInv'
<1> SUFFICES ASSUME DispatchInv, [DispatchNext]_dvars PROVE DispatchInv'
  OBVIOUS
<1> USE DEF DispatchInv
<1>1. CASE Lock
  <2>1. UNCHANGED <<life, started, shutdown, resetting, epoch, revision>>
    BY <1>1, Zenon DEF Lock, vars, gateVars
  <2>2. UNCHANGED <<tpc, packet>>
    BY <1>1 DEF Lock, operatorFrame
  <2> QED
    BY <1>1, <2>1, <2>2 DEF Lock, PacketIsCurrent
<1>2. CASE ChangeGoal
  <2>1. UNCHANGED life
    BY <1>2, Zenon DEF ChangeGoal, SetTask, callerFrame
  <2>2. UNCHANGED <<tpc, packet, holder>>
    BY <1>2 DEF ChangeGoal, operatorFrame
  <2> QED
    BY <1>2, <2>1, <2>2 DEF ChangeGoal
<1>3. CASE Call
  <2>1. UNCHANGED <<tpc, packet, holder>>
    BY <1>3 DEF Call, operatorFrame
  <2> QED
    BY <1>3, <2>1 DEF Call
<1>4. CASE Return
  <2>1. UNCHANGED <<tpc, packet, holder>>
    BY <1>4 DEF Return, operatorFrame
  <2>2. life' # "idle" => opc' = "return"
    BY <1>4, Zenon DEF Return, vars
  <2> QED
    BY <1>4, <2>1, <2>2 DEF Return
<1>5. CASE Unlock
  <2>1. UNCHANGED <<life, tpc, packet>>
    BY <1>5, Zenon DEF Unlock, vars, operatorFrame
  <2> QED
    BY <1>5, <2>1 DEF Unlock
<1>6. CASE FetchPacket
  <2>1. UNCHANGED <<life, holder, opc>>
    BY <1>6, Zenon DEF FetchPacket, GetAction, callerFrame, writerFrame
  <2> QED
    BY <1>6, <2>1 DEF FetchPacket
<1>7. CASE LockToWrite
  <2>1. UNCHANGED life
    BY <1>7, Zenon DEF LockToWrite, vars
  <2> QED
    BY <1>7, <2>1 DEF LockToWrite
<1>8. CASE CheckPacket
  <2>1. UNCHANGED <<life, started, shutdown, resetting, epoch, revision>>
    BY <1>8, Zenon DEF CheckPacket, vars, gateVars
  <2>2. UNCHANGED <<holder, opc, packet>>
    BY <1>8, Zenon DEF CheckPacket, writerFrame
  <2>3. tpc' = "write" => PacketIsCurrent
    BY <1>8 DEF CheckPacket, IsActionCurrent, EpochIsCurrent, PacketIsCurrent
  <2> QED
    BY <1>8, <2>1, <2>2, <2>3 DEF CheckPacket, PacketIsCurrent
<1>9. CASE Write
  <2>1. UNCHANGED life
    BY <1>9, Zenon DEF Write, vars
  <2> QED
    BY <1>9, <2>1 DEF Write
<1>10. CASE UnlockWritten
  <2>1. UNCHANGED life
    BY <1>10, Zenon DEF UnlockWritten, vars
  <2> QED
    BY <1>10, <2>1 DEF UnlockWritten
<1>11. CASE EngineSide
  <2>1. UNCHANGED <<life, started, shutdown, resetting, epoch, revision>>
    BY <1>11, EngineSideFrame DEF EngineSide
  <2>2. UNCHANGED <<holder, opc, tpc, packet>>
    BY <1>11 DEF EngineSide, callerVars
  <2> QED
    BY <2>1, <2>2 DEF PacketIsCurrent
<1>12. CASE UNCHANGED dvars
  <2>1. UNCHANGED <<life, started, shutdown, resetting, epoch, revision>>
    BY <1>12, Zenon DEF dvars, vars, gateVars
  <2>2. UNCHANGED <<holder, opc, tpc, packet>>
    BY <1>12, Zenon DEF dvars, callerVars
  <2> QED
    BY <2>1, <2>2 DEF PacketIsCurrent
<1> QED
  BY <1>1, <1>2, <1>3, <1>4, <1>5, <1>6, <1>7, <1>8, <1>9, <1>10, <1>11, <1>12
     DEF DispatchNext, Operator, Writer

(* What the robot gets is of the running episode and of the task requested   *)
(* last, and nothing leaves during a reset or a stop, whatever happens       *)
(* between the fetch, the check and the write.                               *)
THEOREM RobotIsCurrent == DispatchSpec => WrittenIsCurrent
<1>1. DispatchInv => (Writing => PacketIsCurrent)
  BY DEF DispatchInv, Writing
<1> QED
  BY <1>1, DispatchStarts, DispatchKeeps, PTL
     DEF DispatchSpec, WrittenIsCurrent, PacketIsCurrent

-----------------------------------------------------------------------------
(* The loop of an episode drives the engine *)

LEMMA EngineMoves == [EpisodeNext]_evars => [Next]_vars
<1> SUFFICES ASSUME [EpisodeNext]_evars PROVE [Next]_vars
  OBVIOUS
<1>1. CASE StartEngine \/ ResumeEngine \/ ResetEngine \/ AwaitReset
  BY <1>1, Zenon DEF StartEngine, ResumeEngine, ResetEngine, AwaitReset, Next, LifecycleCall,
     LifecycleStep, ControlCall
<1>2. CASE ResetEnvironment \/ CheckFailed \/ Act
  BY <1>2, Zenon DEF ResetEnvironment, CheckFailed, Act
<1>3. CASE Instruct \/ Publish \/ Fetch
  BY <1>3, Zenon DEF Instruct, Publish, Fetch, Next, ControlCall
<1>4. CASE FetchAgain \/ WaitTimesOut
  BY <1>4, Zenon DEF FetchAgain, WaitTimesOut, FetchNothing, Next, ControlCall
<1>5. CASE StopEngine \/ AwaitStop
  BY <1>5, Zenon DEF StopEngine, AwaitStop, Next, LifecycleCall, LifecycleStep
<1>6. CASE Owner
  BY <1>6 DEF Owner, Next
<1>7. CASE UNCHANGED evars
  BY <1>7, Zenon DEF evars
<1> QED
  BY <1>1, <1>2, <1>3, <1>4, <1>5, <1>6, <1>7 DEF EpisodeNext, Client

LEMMA EngineKeeps ==
    TypeOK /\ InductiveInv /\ [EpisodeNext]_evars => TypeOK' /\ InductiveInv'
<1> SUFFICES ASSUME TypeOK, InductiveInv, [EpisodeNext]_evars
             PROVE  TypeOK' /\ InductiveInv'
  OBVIOUS
<1>1. [Next]_vars
  BY EngineMoves
<1>2. TypeOK'
  BY <1>1, FlagTypeNext, LifecycleTypeNext, ObservationTypeNext, ActionTypeNext,
     MetricTypeNext, ThreadTypeNext DEF TypeOK
<1> QED
  BY <1>1, <1>2, InductiveNext

(* What the loop does to the engine during a control step. *)
ControlFrame == UNCHANGED <<epoch, revision, pending, dpc, delivery, wpc, work, shutdown>>
Published ==
    /\ lpc = "observe" /\ lpc' = "poll"
    /\ currentStep' = currentStep + 1 /\ UNCHANGED <<queue, lastAction>>
Waited ==
    /\ \/ lpc \in {"poll", "fetch"} /\ lpc' \in {"poll", "fetch"}
       \/ lpc = "act" /\ lpc' = "observe"
    /\ UNCHANGED <<currentStep, queue, lastAction>>
Popped ==
    /\ lpc = "fetch" /\ lpc' = "act" /\ queue # <<>>
    /\ lastAction' = Head(queue) /\ queue' = Tail(queue)
    /\ sent' = [action |-> lastAction', held |-> FALSE] /\ UNCHANGED currentStep
Held ==
    /\ lpc = "fetch" /\ lpc' = "act" /\ queue = <<>> /\ lastAction # NoAction
    /\ sent' = [action |-> lastAction', held |-> TRUE]
    /\ UNCHANGED <<currentStep, queue, lastAction>>

LEMMA ControlStep ==
    ASSUME Client, lpc \in Controlling, lpc' \in Controlling
    PROVE  ControlFrame /\ (Published \/ Waited \/ Popped \/ Held)
<1>1. lpc \in {"observe", "poll", "fetch", "act"} /\ lpc' \notin {"stop", "stopping", "done"}
  BY DEF Controlling
<1>2. Publish \/ CheckFailed \/ Fetch \/ FetchAgain \/ Act
  BY <1>1 DEF Client, StartEngine, ResumeEngine, ResetEngine, AwaitReset, ResetEnvironment,
     Instruct, WaitTimesOut, Raise, StopEngine, AwaitStop
<1>3. CASE Publish
  <2>1. ControlFrame /\ UNCHANGED <<queue, lastAction>>
    BY <1>3, Zenon DEF Publish, NotifyObservation, callerFrame, heapVars, workVars,
       deliverVars, actionVars, ControlFrame
  <2>2. currentStep' = currentStep + 1 /\ lpc = "observe" /\ lpc' = "poll"
    BY <1>3, Zenon DEF Publish, NotifyObservation, GoTo
  <2> QED
    BY <2>1, <2>2 DEF Published
<1>4. CASE CheckFailed \/ Act
  <2>1. ControlFrame /\ UNCHANGED <<currentStep, queue, lastAction>>
    BY <1>4, Zenon DEF CheckFailed, Act, vars, gateVars, heapVars, workVars, deliverVars,
       actionVars, episodeVars, ControlFrame
  <2>2. \/ lpc = "poll" /\ lpc' = "fetch"
        \/ lpc = "act" /\ lpc' = "observe"
    BY <1>1, <1>4 DEF CheckFailed, Act, GoTo, Raise
  <2> QED
    BY <2>1, <2>2 DEF Waited
<1>5. CASE Fetch
  <2>1. ControlFrame /\ UNCHANGED currentStep
    BY <1>5, Zenon DEF Fetch, GetAction, callerFrame, heapVars, workVars, deliverVars,
       episodeVars, ControlFrame
  <2>2. /\ lpc = "fetch" /\ lpc' = "act"
        /\ sent' = [action |-> lastAction', held |-> queue = <<>>]
    BY <1>5 DEF Fetch
  <2>3. CASE queue # <<>>
    <3>1. lastAction' = Head(queue) /\ queue' = Tail(queue)
      BY <1>5, <2>3, Zenon DEF Fetch, GetAction
    <3>2. (queue = <<>>) = FALSE
      BY <2>3
    <3> QED
      BY <2>1, <2>2, <2>3, <3>1, <3>2 DEF Popped
  <2>4. CASE queue = <<>>
    <3>1. lastAction # NoAction /\ UNCHANGED <<queue, lastAction>>
      BY <1>5, <2>4, Zenon DEF Fetch, GetAction, Returned, MayHold
    <3>2. (queue = <<>>) = TRUE
      BY <2>4
    <3> QED
      BY <2>1, <2>2, <2>4, <3>1, <3>2 DEF Held
  <2> QED
    BY <2>3, <2>4
<1>6. CASE FetchAgain
  <2>1. ControlFrame /\ UNCHANGED <<currentStep, queue, lastAction>>
    <3>1. CASE EpochIsCurrent(epoch)
      BY <1>6, <3>1, Zenon DEF FetchAgain, FetchNothing, Returned, GetAction, callerFrame,
         heapVars, workVars, deliverVars, episodeVars, ControlFrame
    <3>2. CASE ~EpochIsCurrent(epoch)
      BY <1>6, <3>2, Zenon DEF FetchAgain, FetchNothing, vars, gateVars, heapVars, workVars,
         deliverVars, actionVars, episodeVars, ControlFrame
    <3> QED
      BY <3>1, <3>2
  <2>2. lpc = "fetch" /\ lpc' = "poll"
    BY <1>6 DEF FetchAgain, GoTo
  <2> QED
    BY <2>1, <2>2 DEF Waited
<1> QED
  BY <1>2, <1>3, <1>4, <1>5, <1>6

LEMMA OwnerKeepsStep == WorkerStep => UNCHANGED currentStep
<1>1. CASE WorkerExit \/ Admit \/ ResetProvider \/ CommitProviderReset \/ EnterTransport
  BY <1>1, Zenon DEF WorkerExit, Admit, ResetProvider, CommitProviderReset, EnterTransport,
     workerFrame
<1>2. CASE TransportReturns \/ CompleteInference \/ MergeOwn \/ ScheduleDelivery
  BY <1>2, Zenon DEF TransportReturns, CompleteInference, MergeOwn, ScheduleDelivery,
     workerFrame
<1>3. CASE WorkerObserve \/ RecordFailure \/ GiveUp \/ Crash \/ Retry
  BY <1>3, Zenon DEF WorkerObserve, RecordFailure, GiveUp, Crash, Retry, workerFrame
<1> QED
  BY <1>1, <1>2, <1>3 DEF WorkerStep

(* What the policy owner does to what a control step looks at: at most one   *)
(* commit of its own answer, which is dropped to the step published last,    *)
(* or the admission of the observation under the task in force.              *)
OwnerFrame ==
    UNCHANGED <<life, shutdown, epoch, revision, currentStep, pending, dpc, delivery,
                lastAction>>
OwnerCommits ==
    /\ wpc = "merge" /\ work.epoch = epoch /\ wpc' = "wait"
    /\ \E d \in Nat :
         /\ d < work.len /\ queue' = TailFrom(work, d)
         /\ ~LatestOnlyFallback => d = Age(work)
OwnerGoesOn ==
    /\ UNCHANGED queue
    /\ \/ Attempting' => Attempting /\ work'.rev = work.rev
       \/ work'.rev = revision

LEMMA OwnerStep ==
    ASSUME TypeOK, InductiveInv, ~Scheduler, WorkerStep
    PROVE  OwnerFrame /\ (OwnerCommits \/ OwnerGoesOn)
<1>1. UNCHANGED <<life, shutdown, epoch, revision>>
  BY EngineSideFrame
<1>2. CASE Admit
  <2>1. UNCHANGED <<currentStep, pending, dpc, delivery, queue, lastAction>>
    BY <1>2, Zenon DEF Admit, workerFrame, heapVars, actionVars, deliverVars
  <2>2. work'.rev = revision
    BY <1>2 DEF Admit
  <2> QED
    BY <1>1, <2>1, <2>2 DEF OwnerFrame, OwnerGoesOn
<1>3. CASE WorkerExit \/ ResetProvider \/ CommitProviderReset \/ EnterTransport
  <2>1. UNCHANGED <<currentStep, pending, dpc, delivery, queue, lastAction>>
    BY <1>3, Zenon DEF WorkerExit, ResetProvider, CommitProviderReset, EnterTransport,
       workerFrame, heapVars, actionVars, deliverVars
  <2>2. wpc' \notin {"dead", "wait"} => wpc \in {"reset", "resetDone", "check"} /\ work' = work
    BY <1>3, Zenon DEF WorkerExit, ResetProvider, CommitProviderReset, EnterTransport
  <2> QED
    BY <1>1, <2>1, <2>2 DEF OwnerFrame, OwnerGoesOn, Attempting
<1>4. CASE TransportReturns
  <2>1. UNCHANGED <<currentStep, pending, dpc, delivery, queue, lastAction>>
    BY <1>4, Zenon DEF TransportReturns, workerFrame, heapVars, actionVars, deliverVars
  <2>2. wpc = "infer" /\ (work' = work \/ \E n \in ChunkLens : work' = [work EXCEPT !.len = n])
    BY <1>4, Zenon DEF TransportReturns
  <2>3. work \in Items
    BY <2>2 DEF TypeOK, ThreadType, WorkerBusy
  <2>4. work'.rev = work.rev /\ work'.epoch = work.epoch
    BY <2>2, <2>3 DEF Items
  <2> QED
    BY <1>1, <2>1, <2>2, <2>4 DEF OwnerFrame, OwnerGoesOn, Attempting
<1>5. CASE CompleteInference \/ RecordFailure \/ GiveUp \/ Crash \/ Retry
  <2>1. UNCHANGED <<currentStep, pending, dpc, delivery, queue, lastAction>>
    BY <1>5, Zenon DEF CompleteInference, RecordFailure, GiveUp, Crash, Retry, workerFrame,
       heapVars, actionVars, deliverVars
  <2>2. /\ wpc' \notin {"dead", "wait"} => work' = work
        /\ wpc \in {"answered", "failed", "giveUp", "crashed", "retry"}
    BY <1>5, Zenon DEF CompleteInference, RecordFailure, GiveUp, Crash, Retry
  <2> QED
    BY <1>1, <2>1, <2>2 DEF OwnerFrame, OwnerGoesOn, Attempting
<1>6. CASE WorkerObserve
  <2>1. UNCHANGED <<currentStep, pending, dpc, delivery, queue, lastAction>>
    BY <1>6, Zenon DEF WorkerObserve, workerFrame, heapVars, actionVars, deliverVars
  <2>2. wpc' = "wait"
    BY <1>6 DEF WorkerObserve
  <2> QED
    BY <1>1, <2>1, <2>2 DEF OwnerFrame, OwnerGoesOn, Attempting
<1>7. CASE ScheduleDelivery
  BY <1>7 DEF ScheduleDelivery, InductiveInv, ThreadInv
<1>8. CASE MergeOwn
  <2>1. UNCHANGED <<currentStep, dpc, delivery>> /\ wpc = "merge" /\ wpc' = "wait"
    BY <1>8, Zenon DEF MergeOwn, workerFrame, deliverVars
  <2>2. CASE ~EpochIsCurrent(work.epoch)
    <3>1. UNCHANGED <<pending, queue, lastAction>>
      BY <1>8, <2>2, Zenon DEF MergeOwn, MergeDirect, heapVars, actionVars
    <3> QED
      BY <1>1, <2>1, <3>1 DEF OwnerFrame, OwnerGoesOn, Attempting
  <2>3. CASE EpochIsCurrent(work.epoch)
    <3>1. AlignAndCommit(work, {}) /\ UNCHANGED pending
      BY <1>8, <2>3, Zenon DEF MergeOwn, MergeDirect, heapVars
    <3>2. work \in Items /\ work.len > 0
      BY <2>1 DEF TypeOK, ThreadType, WorkerBusy, InductiveInv, ThreadInv
    <3>3. Age(work) \in Nat /\ work.len \in Nat
      BY <3>2, AgeType DEF Items
    <3>4. CASE CommitAligned(work, {})
      <4>1. queue' = TailFrom(work, Age(work)) /\ Age(work) < work.len
            /\ lastAction' = lastAction
        BY <3>4, Zenon DEF CommitAligned, Replace
      <4> QED
        BY <1>1, <2>1, <2>3, <3>1, <3>3, <4>1 DEF OwnerFrame, OwnerCommits, EpochIsCurrent
    <3>5. CASE CommitFallback(work, {})
      <4>1. queue' = TailFrom(work, 0) /\ LatestOnlyFallback /\ lastAction' = lastAction
        BY <3>5, Zenon DEF CommitFallback, Replace, FallbackAllowed
      <4>2. 0 \in Nat /\ 0 < work.len
        BY <3>2, <3>3
      <4> QED
        BY <1>1, <2>1, <2>3, <3>1, <4>1, <4>2 DEF OwnerFrame, OwnerCommits, EpochIsCurrent
    <3>6. CASE RejectStale(work, {})
      <4>1. UNCHANGED <<queue, lastAction>>
        BY <3>6, Zenon DEF RejectStale, actionVars
      <4> QED
        BY <1>1, <2>1, <3>1, <4>1 DEF OwnerFrame, OwnerGoesOn, Attempting
    <3> QED
      BY <3>1, <3>4, <3>5, <3>6 DEF AlignAndCommit
  <2> QED
    BY <2>2, <2>3
<1> QED
  BY <1>2, <1>3, <1>4, <1>5, <1>6, <1>7, <1>8 DEF WorkerStep

-----------------------------------------------------------------------------
(* The episode and the instruction of a control step *)

Unobserved == currentStep = -1
NothingHeld == Past = {} /\ ~Attempting /\ queue = <<>>

LEMMA NothingBeforePublication == TypeOK /\ InductiveInv /\ Unobserved => NothingHeld
<1> SUFFICES ASSUME TypeOK, InductiveInv, currentStep = -1
             PROVE  Past = {} /\ ~Attempting /\ queue = <<>>
  BY DEF Unobserved, NothingHeld
<1>1. \A a \in Past : a.src \in Steps
  <2>1. \A a \in Committed : a \in Actions
    BY DEF TypeOK, ActionType, Committed, Queued
  <2>2. \A a \in Answers : a \in Items
    BY DEF TypeOK, ActionType, ThreadType, DeliveryBusy, Answers
  <2> QED
    BY <2>1, <2>2 DEF Past, Actions, Items
<1>2. \A a \in Past : a.src <= -1
  BY DEF InductiveInv, OrderInv
<1>3. Past = {}
  BY <1>1, <1>2, BoundAssumption DEF Steps, BoundAssumption
<1>4. ~Attempting
  <2>1. ASSUME Attempting PROVE FALSE
    <3>1. work.src <= -1
      BY <2>1 DEF InductiveInv, OrderInv
    <3>2. work \in Items
      BY <2>1 DEF Attempting, TypeOK, ThreadType, WorkerBusy
    <3> QED
      BY <3>1, <3>2, BoundAssumption DEF Items, Steps, BoundAssumption
  <2> QED
    BY <2>1
<1>5. queue = <<>>
  <2>1. queue \in Seq(Actions) /\ Queued = {}
    BY <1>3 DEF TypeOK, ActionType, Past, Committed
  <2> QED
    BY <2>1 DEF Queued
<1> QED
  BY <1>3, <1>4, <1>5

LEMMA EpisodeStarts == ClientAssumption /\ EpisodeInit => EpisodeInv
<1> SUFFICES ASSUME EpisodeInit PROVE EpisodeInv
  OBVIOUS
<1>1. TypeOK /\ InductiveInv
  BY TypeInit, InductiveInit DEF EpisodeInit
<1>2. /\ lpc = "start" /\ status = "NOT_RUN" /\ controlSteps = 0 /\ sent = NothingSent
      /\ epoch = 0 /\ revision = 0 /\ currentStep = -1 /\ queue = <<>>
  BY DEF EpisodeInit, Init
<1>3. 0 \in 0..(MaxStep + 1) /\ 0 <= MaxStep
  BY BoundAssumption DEF BoundAssumption
<1>4. EpisodeTypeOK
  BY <1>1, <1>2, <1>3 DEF EpisodeTypeOK, NothingSent
<1>5. LoopInv /\ InstructedInv /\ SentInv /\ LagInv
  BY <1>2, <1>3 DEF LoopInv, InstructedInv, SentInv, LagInv, BeforeReset, BeforePublication,
     Controlling, Ending
<1>6. OneChunk
  BY <1>2 DEF OneChunk
<1> QED
  BY <1>1, <1>4, <1>5, <1>6 DEF EpisodeInv

(* The parts that are the loop's own: where it is and what it counts.        *)
LEMMA LoopKeeps ==
    ASSUME EpisodeInv, [EpisodeNext]_evars
    PROVE  LoopInv'
<1> USE DEF EpisodeInv, LoopInv, BeforeReset, BeforePublication, Controlling, Ending
<1>1. CASE StartEngine
  <2>1. UNCHANGED <<epoch, revision, currentStep>>
    BY <1>1, Zenon DEF StartEngine, Start
  <2> QED
    BY <1>1, <2>1 DEF StartEngine, GoTo
<1>2. CASE ResumeEngine
  <2>1. UNCHANGED <<epoch, revision, currentStep>>
    BY <1>2, Zenon DEF ResumeEngine, Resume, callerFrame, episodeVars
  <2> QED
    BY <1>2, <2>1 DEF ResumeEngine, GoTo
<1>3. CASE ResetEngine
  <2>1. epoch' = epoch + 1 /\ currentStep' = -1 /\ revision' = revision
    BY <1>3, Zenon DEF ResetEngine, ResetBegin, Invalidate
  <2> QED
    BY <1>3, <2>1 DEF ResetEngine, GoTo
<1>4. CASE AwaitReset
  <2>1. UNCHANGED <<epoch, revision, currentStep>>
    BY <1>4, Zenon DEF AwaitReset, ResetTransport, OpenGate, lifeFrame, episodeVars
  <2>2. lpc = "resetting" /\ lpc' \in {"resetting", "environment", "stop"}
        /\ controlSteps' = controlSteps
    BY <1>4, Zenon DEF AwaitReset, GoTo, Raise
  <2> QED
    BY <2>1, <2>2
<1>5. CASE ResetEnvironment
  <2>1. UNCHANGED <<epoch, revision, currentStep>>
    BY <1>5, Zenon DEF ResetEnvironment, vars, episodeVars
  <2> QED
    BY <1>5, <2>1 DEF ResetEnvironment, GoTo, Raise
<1>6. CASE Instruct
  <2>1. revision' = revision + 1 /\ UNCHANGED epoch
    BY <1>6, Zenon DEF Instruct, SetTask, callerFrame
  <2> QED
    BY <1>6, <2>1 DEF Instruct, GoTo
<1>7. CASE lpc \in Controlling /\ Client
  <2>1. UNCHANGED <<epoch, revision>>
    BY <1>7, Zenon DEF Client, StartEngine, ResumeEngine, ResetEngine, AwaitReset,
       ResetEnvironment, Instruct, Publish, CheckFailed, Fetch, FetchAgain, WaitTimesOut, Act,
       StopEngine, AwaitStop, FetchNothing, NotifyObservation, GetAction, callerFrame, vars
  <2>2. /\ lpc' \in Controlling \cup {"stop"}
        /\ controlSteps' = controlSteps \/ lpc' = "stop" \/ controlSteps' <= MaxStep
    BY <1>7 DEF Client, StartEngine, ResumeEngine, ResetEngine, AwaitReset,
       ResetEnvironment, Instruct, Publish, CheckFailed, Fetch, FetchAgain, WaitTimesOut, Act,
       StopEngine, AwaitStop, GoTo, Raise
  <2> QED
    BY <1>7, <2>1, <2>2
<1>8. CASE StopEngine
  <2>1. shutdown' = TRUE
    BY <1>8 DEF StopEngine, StopBegin
  <2> QED
    BY <1>8, <2>1 DEF StopEngine, GoTo
<1>9. CASE AwaitStop
  <2>1. UNCHANGED shutdown
    BY <1>9, Zenon DEF AwaitStop, StopCancel, StopJoin, StopClose, StopRelease, TransportCall,
       OpenGate, lifeFrame
  <2> QED
    BY <1>9, <2>1 DEF AwaitStop, GoTo
<1>10. CASE Owner
  <2>1. UNCHANGED <<shutdown, epoch, revision, currentStep, lpc, controlSteps>>
    BY <1>10, EngineSideFrame, OwnerKeepsStep DEF Owner, clientVars
  <2> QED
    BY <2>1
<1>11. CASE UNCHANGED evars
  <2>1. UNCHANGED <<shutdown, epoch, revision, currentStep, lpc, controlSteps>>
    BY <1>11, Zenon DEF evars, vars, gateVars, episodeVars, clientVars
  <2> QED
    BY <2>1
<1>12. CASE Client /\ lpc \notin Controlling
  <2>1. ~(Publish \/ CheckFailed \/ Fetch \/ FetchAgain \/ WaitTimesOut \/ Act)
    BY <1>12 DEF Publish, CheckFailed, Fetch, FetchAgain, WaitTimesOut, Act
  <2> QED
    BY <1>1, <1>2, <1>3, <1>4, <1>5, <1>6, <1>8, <1>9, <1>12, <2>1 DEF Client
<1> QED
  BY <1>7, <1>10, <1>11, <1>12 DEF EpisodeNext

LEMMA EpisodeTypeKeeps ==
    ASSUME EpisodeInv, [EpisodeNext]_evars
    PROVE  EpisodeTypeOK'
<1>1. TypeOK'
  BY EngineKeeps DEF EpisodeInv, EpisodeTypeOK
<1> USE DEF EpisodeInv, EpisodeTypeOK
<1>2. lpc' \in {"start", "resume", "reset", "resetting", "environment", "instruct", "observe",
                "poll", "fetch", "act", "stop", "stopping", "done"}
      /\ status' \in {"NOT_RUN", "COMPLETED", "ERROR"}
  BY DEF EpisodeNext, evars, clientVars, Client, Owner, StartEngine, ResumeEngine, ResetEngine,
     AwaitReset, ResetEnvironment, Instruct, Publish, CheckFailed, Fetch, FetchAgain,
     WaitTimesOut, Act, StopEngine, AwaitStop, GoTo, Raise
<1>3. \/ controlSteps' = controlSteps
      \/ lpc = "act" /\ controlSteps' = controlSteps + 1
  BY DEF EpisodeNext, evars, clientVars, Client, Owner, StartEngine, ResumeEngine, ResetEngine,
     AwaitReset, ResetEnvironment, Instruct, Publish, CheckFailed, Fetch, FetchAgain,
     WaitTimesOut, Act, StopEngine, AwaitStop, GoTo, Raise
<1>4. controlSteps' \in 0..(MaxStep + 1)
  <2>1. lpc = "act" => controlSteps <= MaxStep
    BY DEF LoopInv, Ending
  <2> QED
    BY <1>3, <2>1, BoundAssumption DEF BoundAssumption
<1>5. \/ sent' = sent
      \/ sent'.action = lastAction' /\ sent'.held \in BOOLEAN
  <2>1. CASE Fetch
    <3>1. sent' = [action |-> lastAction', held |-> queue = <<>>]
      BY <2>1 DEF Fetch
    <3>2. (queue = <<>>) \in BOOLEAN
      OBVIOUS
    <3> QED
      BY <3>1, <3>2
  <2>2. CASE ~Fetch
    BY <2>2, Zenon DEF EpisodeNext, evars, clientVars, Client, Owner, StartEngine,
       ResumeEngine, ResetEngine, AwaitReset, ResetEnvironment, Instruct, Publish, CheckFailed,
       FetchAgain, WaitTimesOut, Act, StopEngine, AwaitStop, GoTo, Raise
  <2> QED
    BY <2>1, <2>2
<1>6. sent'.action \in Actions \cup {NoAction} /\ sent'.held \in BOOLEAN
  BY <1>1, <1>5 DEF TypeOK, ActionType
<1> QED
  BY <1>1, <1>2, <1>4, <1>6

(* Which steps lead into a control step or from one to the next. *)
LEMMA ControllingStep ==
    ASSUME EpisodeInv, [EpisodeNext]_evars, lpc' \in Controlling
    PROVE  \/ Instruct
           \/ lpc \in Controlling /\ Client
           \/ UNCHANGED clientVars /\ WorkerStep
           \/ UNCHANGED clientVars /\ UNCHANGED vars
<1>1. CASE Owner
  BY <1>1 DEF Owner
<1>2. CASE UNCHANGED evars
  BY <1>2 DEF evars
<1>3. CASE Client
  BY <1>3 DEF Client, StartEngine, ResumeEngine, ResetEngine, AwaitReset, ResetEnvironment,
     Publish, CheckFailed, Fetch, FetchAgain, WaitTimesOut, Act, StopEngine, AwaitStop, GoTo,
     Raise, Controlling
<1> QED
  BY <1>1, <1>2, <1>3 DEF EpisodeNext

(* Of the queue, the loop only ever takes the first action.                  *)
LEMMA PastShrinks ==
    ASSUME TypeOK, ControlFrame, Published \/ Waited \/ Popped \/ Held
    PROVE  Past' \subseteq Past /\ (Attempting' <=> Attempting) /\ work' = work
<1>1. CASE Popped
  <2>1. queue \in Seq(Actions) /\ queue # <<>> /\ queue' = Tail(queue)
        /\ lastAction' = queue[1]
    BY <1>1 DEF Popped, TypeOK, ActionType
  <2>2. Queued' \subseteq Queued
    BY <2>1 DEF Queued
  <2>3. lastAction' \in Queued
    BY <2>1 DEF Queued
  <2>4. Committed' \subseteq Committed
    BY <2>2, <2>3 DEF Committed
  <2>5. Answers' = Answers
    BY DEF Answers, ControlFrame
  <2> QED
    BY <2>4, <2>5 DEF Past, ControlFrame, Attempting
<1>2. CASE Published \/ Waited \/ Held
  <2>1. queue' = queue /\ lastAction' = lastAction
    BY <1>2 DEF Published, Waited, Held
  <2>2. Committed' = Committed
    BY <2>1 DEF Committed, Queued
  <2>3. Answers' = Answers
    BY DEF Answers, ControlFrame
  <2> QED
    BY <2>2, <2>3 DEF Past, ControlFrame, Attempting
<1> QED
  BY <1>1, <1>2

LEMMA InstructedKeeps ==
    ASSUME ClientAssumption, EpisodeInv, [EpisodeNext]_evars
    PROVE  InstructedInv'
<1> SUFFICES ASSUME lpc' \in Controlling
             PROVE  /\ \A a \in Past' : a.rev = revision'
                    /\ Attempting' => work'.rev = revision'
  BY DEF InstructedInv
<1>0. TypeOK /\ InductiveInv /\ TypeOK' /\ InductiveInv'
  BY EngineKeeps DEF EpisodeInv, EpisodeTypeOK
<1>1. CASE Instruct
  <2>1. UNCHANGED currentStep
    BY <1>1, Zenon DEF Instruct, SetTask, episodeVars
  <2>2. currentStep' = -1
    BY <1>1, <2>1 DEF Instruct, EpisodeInv, LoopInv, BeforePublication
  <2>3. Unobserved'
    BY <2>2 DEF Unobserved
  <2>4. NothingHeld'
    BY <1>0, <2>3, NothingBeforePublication, PTL
  <2> QED
    BY <2>4 DEF NothingHeld
<1>2. CASE lpc \in Controlling /\ Client
  <2>1. ControlFrame /\ (Published \/ Waited \/ Popped \/ Held)
    BY <1>2, ControlStep
  <2>2. Past' \subseteq Past /\ (Attempting' <=> Attempting) /\ work' = work
    BY <1>0, <2>1, PastShrinks
  <2> QED
    BY <1>2, <2>1, <2>2 DEF EpisodeInv, InstructedInv, ControlFrame
<1>3. CASE UNCHANGED clientVars /\ WorkerStep
  <2>1. OwnerFrame /\ (OwnerCommits \/ OwnerGoesOn)
    BY <1>0, <1>3, OwnerStep DEF ClientAssumption
  <2>2. lpc \in Controlling
    BY <1>3 DEF clientVars
  <2>3. /\ \A a \in Past : a.rev = revision
        /\ Attempting => work.rev = revision
    BY <2>2 DEF EpisodeInv, InstructedInv
  <2>4. Answers' = Answers
    BY <2>1 DEF Answers, OwnerFrame
  <2>5. CASE OwnerGoesOn
    <3>1. Past' = Past
      BY <2>1, <2>4, <2>5 DEF Past, Committed, Queued, OwnerFrame, OwnerGoesOn
    <3> QED
      BY <2>1, <2>3, <2>5, <3>1 DEF OwnerFrame, OwnerGoesOn
  <2>6. CASE OwnerCommits
    <3>1. PICK d \in Nat : d < work.len /\ queue' = TailFrom(work, d)
      BY <2>6 DEF OwnerCommits
    <3>2. work \in Items /\ work.rev = revision
      BY <1>0, <2>3, <2>6 DEF TypeOK, ThreadType, WorkerBusy, OwnerCommits, Attempting
    <3>3. \A i \in 1..Len(queue') : queue'[i] = ActionOf(work, d + i - 1)
      <4>1. \A i \in 1..Len(TailFrom(work, d)) :
              TailFrom(work, d)[i] = ActionOf(work, d + i - 1)
        BY <3>2, TailFromElements
      <4> QED
        BY <3>1, <4>1
    <3>4. \A i \in 1..Len(queue') : queue'[i].rev = revision
      <4>1. \A k : ActionOf(work, k).rev = revision
        BY <3>2 DEF ActionOf
      <4> QED
        BY <3>3, <4>1, Zenon
    <3>5. \A a \in Queued' : a.rev = revision
      BY <3>4 DEF Queued
    <3>6. \A a \in Past' : a \in Queued' \/ a \in Past
      BY <2>1, <2>4 DEF Past, Committed, OwnerFrame
    <3> QED
      BY <2>1, <2>3, <2>6, <3>5, <3>6 DEF OwnerCommits, OwnerFrame, Attempting
  <2> QED
    BY <2>1, <2>5, <2>6
<1>4. CASE UNCHANGED clientVars /\ UNCHANGED vars
  <2>1. UNCHANGED <<lpc, epoch, revision, pending, dpc, delivery, queue, lastAction, wpc, work>>
    BY <1>4, Zenon DEF clientVars, vars, heapVars, deliverVars, actionVars, workVars
  <2>2. Past' = Past /\ (Attempting' <=> Attempting)
    BY <2>1 DEF Past, Committed, Queued, Answers, Attempting
  <2> QED
    BY <2>1, <2>2 DEF EpisodeInv, InstructedInv
<1> QED
  BY <1>1, <1>2, <1>3, <1>4, ControllingStep

-----------------------------------------------------------------------------
(* What was sent, and for which control step *)

LEMMA SentKeeps ==
    ASSUME ClientAssumption, EpisodeInv, [EpisodeNext]_evars
    PROVE  SentInv'
<1> SUFFICES ASSUME lpc' = "act"
             PROVE  sent'.action = lastAction' /\ lastAction' # NoAction
  BY DEF SentInv
<1>0. TypeOK /\ InductiveInv
  BY DEF EpisodeInv, EpisodeTypeOK
<1>1. CASE lpc \in Controlling /\ Client
  <2>1. Published \/ Waited \/ Popped \/ Held
    BY <1>1, ControlStep DEF Controlling
  <2>2. CASE Popped
    <3>1. lastAction' \in Actions /\ sent' = [action |-> lastAction', held |-> FALSE]
      BY <1>0, <2>2 DEF Popped, TypeOK, ActionType
    <3> QED
      BY <3>1, BoundAssumption DEF Actions, NoAction, Epochs, BoundAssumption
  <2>3. CASE Held
    BY <2>3 DEF Held
  <2> QED
    BY <2>1, <2>2, <2>3 DEF Published, Waited
<1>2. CASE UNCHANGED clientVars /\ WorkerStep
  <2>1. UNCHANGED lastAction
    BY <1>0, <1>2, OwnerStep DEF ClientAssumption, OwnerFrame
  <2>2. lpc = "act" /\ sent' = sent
    BY <1>2 DEF clientVars
  <2> QED
    BY <2>1, <2>2 DEF EpisodeInv, SentInv
<1>3. CASE UNCHANGED clientVars /\ UNCHANGED vars
  <2>1. UNCHANGED <<lpc, sent, lastAction>>
    BY <1>3, Zenon DEF clientVars, vars, actionVars
  <2> QED
    BY <2>1 DEF EpisodeInv, SentInv
<1> QED
  BY <1>1, <1>2, <1>3, ControllingStep DEF Instruct, GoTo, Controlling

(* Taking the first action of a chunk leaves a chunk that starts one later.  *)
LEMMA IndexOfAction == \A a \in Actions : a.idx \in Nat /\ a.src \in Int
BY BoundAssumption DEF Actions, Steps, BoundAssumption

LEMMA FirstToSecond ==
    ASSUME NEW a \in Actions
    PROVE  /\ [a EXCEPT !.idx = @ + (1 + 1) - 1] = [a EXCEPT !.idx = @ + 1]
           /\ PlannedFor([a EXCEPT !.idx = @ + 1]) = PlannedFor(a) + 1
<1>1. a.idx \in Nat /\ a.src \in Int
  BY IndexOfAction, Zenon
<1>2. a.idx + (1 + 1) - 1 = a.idx + 1 /\ a.src + (a.idx + 1) = (a.src + a.idx) + 1
  BY <1>1
<1>3. [a EXCEPT !.idx = @ + 1].src = a.src /\ [a EXCEPT !.idx = @ + 1].idx = a.idx + 1
  BY DEF Actions
<1> QED
  BY <1>2, <1>3, Zenon DEF PlannedFor

LEMMA OneFurther ==
    ASSUME NEW a \in Actions, NEW i \in Nat
    PROVE  [a EXCEPT !.idx = @ + (i + 1) - 1] = [[a EXCEPT !.idx = @ + 1] EXCEPT !.idx = @ + i - 1]
<1>1. a.idx + (i + 1) - 1 = (a.idx + 1) + i - 1
  <2>1. a.idx \in Nat
    BY IndexOfAction, Zenon
  <2> QED
    BY <2>1
<1>2. [a EXCEPT !.idx = @ + 1].idx = a.idx + 1
  BY DEF Actions
<1>3. \A k, m : [[a EXCEPT !.idx = k] EXCEPT !.idx = m] = [a EXCEPT !.idx = m]
  BY DEF Actions
<1> QED
  BY <1>1, <1>2, <1>3, Zenon

LEMMA TailShifts ==
    ASSUME NEW q \in Seq(Actions), q # <<>>
    PROVE  /\ q[1] \in Actions
           /\ \A i \in DOMAIN Tail(q) : i \in Nat /\ i + 1 \in DOMAIN q /\ Tail(q)[i] = q[i + 1]
           /\ Tail(q) # <<>> => 1 \in DOMAIN Tail(q)
           /\ DOMAIN Tail(q) # {} => 1 \in DOMAIN Tail(q)
OBVIOUS

LEMMA TailOfActions ==
    ASSUME NEW q \in Seq(Actions), q # <<>>,
           \A i \in DOMAIN q : q[i] = [q[1] EXCEPT !.idx = @ + i - 1]
    PROVE  /\ \A i \in DOMAIN Tail(q) : Tail(q)[i] = [Tail(q)[1] EXCEPT !.idx = @ + i - 1]
           /\ Tail(q) # <<>> => PlannedFor(Tail(q)[1]) = PlannedFor(q[1]) + 1
<1>1. ASSUME 1 \in DOMAIN Tail(q)
      PROVE  Tail(q)[1] = [q[1] EXCEPT !.idx = @ + 1]
  <2>1. Tail(q)[1] = [q[1] EXCEPT !.idx = @ + (1 + 1) - 1]
    BY <1>1, TailShifts, Zenon
  <2> QED
    BY <2>1, TailShifts, FirstToSecond, Zenon
<1>2. ASSUME NEW i \in DOMAIN Tail(q)
      PROVE  Tail(q)[i] = [Tail(q)[1] EXCEPT !.idx = @ + i - 1]
  <2>1. Tail(q)[i] = [q[1] EXCEPT !.idx = @ + (i + 1) - 1]
    BY TailShifts, Zenon
  <2>2. i \in Nat /\ 1 \in DOMAIN Tail(q) /\ q[1] \in Actions
    BY TailShifts, Zenon
  <2>3. [q[1] EXCEPT !.idx = @ + (i + 1) - 1] = [[q[1] EXCEPT !.idx = @ + 1] EXCEPT !.idx = @ + i - 1]
    BY <2>2, OneFurther, Zenon
  <2>4. Tail(q)[1] = [q[1] EXCEPT !.idx = @ + 1]
    BY <1>1, <2>2, Zenon
  <2> QED
    BY <2>1, <2>3, <2>4, Zenon
<1>3. ASSUME Tail(q) # <<>>
      PROVE  PlannedFor(Tail(q)[1]) = PlannedFor(q[1]) + 1
  BY <1>1, <1>3, TailShifts, FirstToSecond, Zenon
<1> QED
  BY <1>2, <1>3, Zenon

LEMMA TailOfChunk ==
    ASSUME TypeOK, OneChunk, queue # <<>>, queue' = Tail(queue)
    PROVE  /\ OneChunk'
           /\ queue' # <<>> => PlannedFor(queue'[1]) = PlannedFor(queue[1]) + 1
<1>1. queue \in Seq(Actions)
  BY Zenon DEF TypeOK, ActionType
<1> QED
  BY <1>1, TailOfActions, Zenon DEF OneChunk

(* A commit puts one chunk in the queue, which starts at the step it is      *)
(* dropped to.                                                               *)
LEMMA CommitIsChunk ==
    ASSUME TypeOK, InductiveInv, OwnerFrame, OwnerCommits
    PROVE  OneChunk' /\ (~LatestOnlyFallback => PlannedFor(queue'[1]) = currentStep)
<1>1. PICK d \in Nat : /\ d < work.len /\ queue' = TailFrom(work, d)
                       /\ ~LatestOnlyFallback => d = Age(work)
  BY DEF OwnerCommits
<1>2. work \in Items
  BY DEF TypeOK, ThreadType, WorkerBusy, OwnerCommits
<1>3. \A i \in DOMAIN queue' : queue'[i] = [queue'[1] EXCEPT !.idx = @ + i - 1]
  BY <1>1, <1>2, MergedChunk
<1>4. queue'[1] = ActionOf(work, d)
  <2>1. 1 \in 1..(work.len - d) /\ d + 1 - 1 = d
    BY <1>1, <1>2 DEF Items
  <2> QED
    BY <1>1, <2>1 DEF TailFrom
<1>5. work.src <= currentStep
  BY DEF InductiveInv, OrderInv, Attempting, OwnerCommits
<1>6. ~LatestOnlyFallback => work.src + d = currentStep
  BY <1>1, <1>2, <1>5, BoundAssumption
     DEF Age, Items, Steps, BoundAssumption, TypeOK, ObservationType
<1> QED
  BY <1>3, <1>4, <1>6 DEF OneChunk, PlannedFor, ActionOf

LEMMA ChunkAndLagKeep ==
    ASSUME ClientAssumption, EpisodeInv, [EpisodeNext]_evars
    PROVE  OneChunk' /\ LagInv'
<1>0. TypeOK /\ InductiveInv /\ TypeOK' /\ InductiveInv'
  BY EngineKeeps DEF EpisodeInv, EpisodeTypeOK
<1>1. OneChunk /\ LagInv
  BY DEF EpisodeInv
<1>2. CASE lpc \in Controlling /\ lpc' \in Controlling /\ Client
  <2>1. ControlFrame /\ (Published \/ Waited \/ Popped \/ Held)
    BY <1>2, ControlStep
  <2>2. currentStep \in Int
    BY <1>0, BoundAssumption DEF TypeOK, ObservationType, Steps, BoundAssumption
  <2>3. CASE Published
    <3>1. OneChunk'
      BY <1>1, <2>3 DEF Published, OneChunk
    <3>2. LagInv'
      BY <1>1, <2>2, <2>3 DEF Published, LagInv
    <3> QED
      BY <3>1, <3>2
  <2>4. CASE Waited
    <3>1. OneChunk'
      BY <1>1, <2>4 DEF Waited, OneChunk
    <3>2. LagInv'
      BY <1>1, <2>4 DEF Waited, LagInv
    <3> QED
      BY <3>1, <3>2
  <2>5. CASE Popped
    <3>1. /\ OneChunk'
          /\ queue' # <<>> => PlannedFor(queue'[1]) = PlannedFor(queue[1]) + 1
      BY <1>0, <1>1, <2>5, TailOfChunk DEF Popped
    <3>2. lastAction' = queue[1]
      BY <1>0, <2>5 DEF Popped, TypeOK, ActionType
    <3>3. ~LatestOnlyFallback => PlannedFor(queue[1]) \in {currentStep - 1, currentStep}
      BY <1>1, <2>5 DEF Popped, LagInv
    <3>4. LagInv'
      BY <2>2, <2>5, <3>1, <3>2, <3>3 DEF Popped, LagInv
    <3> QED
      BY <3>1, <3>4
  <2>6. CASE Held
    <3>1. queue' = <<>> /\ lpc' = "act" /\ sent'.held
      BY <2>6 DEF Held
    <3> QED
      BY <3>1 DEF OneChunk, LagInv
  <2> QED
    BY <2>1, <2>3, <2>4, <2>5, <2>6
<1>3. CASE Owner
  <2>1. UNCHANGED <<lpc, sent>> /\ WorkerStep
    BY <1>3 DEF Owner, clientVars
  <2>2. OwnerFrame /\ (OwnerCommits \/ OwnerGoesOn)
    BY <1>0, <2>1, OwnerStep DEF ClientAssumption
  <2>3. CASE OwnerGoesOn
    BY <1>1, <2>1, <2>2, <2>3 DEF OwnerFrame, OwnerGoesOn, OneChunk, LagInv
  <2>4. CASE OwnerCommits
    <3>1. OneChunk' /\ (~LatestOnlyFallback => PlannedFor(queue'[1]) = currentStep)
      BY <1>0, <2>2, <2>4, CommitIsChunk
    <3>2. currentStep' = currentStep /\ lastAction' = lastAction
      BY <2>2 DEF OwnerFrame
    <3> QED
      BY <1>1, <2>1, <3>1, <3>2 DEF LagInv
  <2> QED
    BY <2>2, <2>3, <2>4
<1>4. CASE UNCHANGED evars
  <2>1. UNCHANGED <<lpc, sent, currentStep, queue, lastAction>>
    BY <1>4, Zenon DEF evars, clientVars, vars, actionVars, episodeVars
  <2> QED
    BY <1>1, <2>1 DEF OneChunk, LagInv
<1>5. CASE Client /\ ~(lpc \in Controlling /\ lpc' \in Controlling)
  <2>1. queue' = queue \/ queue' = <<>>
    <3>1. CASE StartEngine \/ ResumeEngine \/ ResetEngine \/ AwaitReset \/ ResetEnvironment
      BY <3>1, Zenon DEF StartEngine, ResumeEngine, ResetEngine, AwaitReset, ResetEnvironment,
         Start, Resume, ResetBegin, Invalidate, ForgetActions, ResetTransport, OpenGate,
         lifeFrame, actionVars, vars
    <3>2. CASE Instruct \/ CheckFailed \/ Act \/ StopEngine \/ AwaitStop
      BY <3>2, Zenon DEF Instruct, CheckFailed, Act, StopEngine, AwaitStop, SetTask, StopBegin,
         Invalidate, ForgetActions, StopCancel, StopJoin, StopClose, StopRelease,
         TransportCall, OpenGate, lifeFrame, actionVars, vars
    <3>3. CASE WaitTimesOut
      BY <3>3, Zenon DEF WaitTimesOut, FetchNothing, GetAction, Returned, actionVars, vars
    <3>4. ~(Publish \/ Fetch \/ FetchAgain)
      BY <1>5 DEF Publish, Fetch, FetchAgain, GoTo, Controlling
    <3> QED
      BY <1>5, <3>1, <3>2, <3>3, <3>4 DEF Client
  <2>2. OneChunk'
    BY <1>1, <2>1 DEF OneChunk
  <2>3. CASE lpc' \notin Controlling
    BY <2>2, <2>3 DEF LagInv, Controlling
  <2>4. CASE lpc' \in Controlling
    <3>1. Instruct
      BY <1>5, <2>4, ControllingStep DEF Client, clientVars
    <3>2. UNCHANGED currentStep /\ lpc' = "observe"
      BY <3>1, Zenon DEF Instruct, SetTask, episodeVars, GoTo
    <3>3. Unobserved'
      BY <3>1, <3>2 DEF Unobserved, Instruct, EpisodeInv, LoopInv, BeforePublication
    <3>4. NothingHeld'
      BY <1>0, <3>3, NothingBeforePublication, PTL
    <3> QED
      BY <2>2, <3>2, <3>4 DEF LagInv, NothingHeld
  <2> QED
    BY <2>3, <2>4
<1> QED
  BY <1>2, <1>3, <1>4, <1>5 DEF EpisodeNext

LEMMA EpisodeKeeps ==
    ASSUME ClientAssumption
    PROVE  EpisodeInv /\ [EpisodeNext]_evars => EpisodeInv'
<1> SUFFICES ASSUME EpisodeInv, [EpisodeNext]_evars PROVE EpisodeInv'
  OBVIOUS
<1>1. InductiveInv'
  BY EngineKeeps DEF EpisodeInv, EpisodeTypeOK
<1> QED
  BY <1>1, EpisodeTypeKeeps, LoopKeeps, InstructedKeeps, SentKeeps, ChunkAndLagKeep
     DEF EpisodeInv

(* After the stop no late thread changes a counter. *)
LEMMA StoppedOwner ==
    ASSUME TypeOK, InductiveInv, ~Scheduler, shutdown, WorkerStep
    PROVE  UNCHANGED metrics
<1>1. ~EpochIsCurrent(work.epoch)
  BY DEF EpochIsCurrent
<1>2. ~Admit /\ ~ScheduleDelivery
  BY DEF Admit, ScheduleDelivery, InductiveInv, ThreadInv
<1>3. CASE WorkerExit \/ ResetProvider \/ CommitProviderReset \/ EnterTransport
             \/ TransportReturns \/ WorkerObserve \/ GiveUp \/ Crash \/ Retry
  BY <1>3, Zenon DEF WorkerExit, ResetProvider, CommitProviderReset, EnterTransport,
     TransportReturns, WorkerObserve, GiveUp, Crash, Retry, metricVars
<1>4. CASE CompleteInference \/ RecordFailure \/ MergeOwn
  BY <1>1, <1>4, Zenon DEF CompleteInference, RecordFailure, MergeOwn, MergeDirect, metricVars
<1> QED
  BY <1>2, <1>3, <1>4 DEF WorkerStep

LEMMA ReceiptStays ==
    ASSUME ClientAssumption, EpisodeInv, [EpisodeNext]_evars, lpc = "done"
    PROVE  UNCHANGED metrics
<1>1. ~Client
  BY DEF Client, StartEngine, ResumeEngine, ResetEngine, AwaitReset, ResetEnvironment, Instruct,
     Publish, CheckFailed, Fetch, FetchAgain, WaitTimesOut, Act, StopEngine, AwaitStop
<1>2. CASE Owner
  BY <1>2, StoppedOwner DEF Owner, ClientAssumption, EpisodeInv, EpisodeTypeOK, LoopInv, Ending
<1>3. CASE UNCHANGED evars
  BY <1>3, Zenon DEF evars, vars, metricVars
<1> QED
  BY <1>1, <1>2, <1>3 DEF EpisodeNext

LEMMA EpisodeSuffices ==
    EpisodeInv => EpisodeTypeOK /\ LagAtMostOne /\ OwnInstruction
<1> SUFFICES ASSUME EpisodeInv PROVE EpisodeTypeOK /\ LagAtMostOne /\ OwnInstruction
  OBVIOUS
<1>1. EpisodeTypeOK
  BY DEF EpisodeInv
<1>2. LagAtMostOne
  BY DEF EpisodeInv, SentInv, LagInv, LagAtMostOne
<1>3. ASSUME lpc = "act"
      PROVE  sent.action.rev = 1 /\ sent.action.epoch = 1
  <2>1. sent.action = lastAction /\ lastAction # NoAction /\ epoch = 1 /\ revision = 1
    BY <1>3 DEF EpisodeInv, SentInv, LoopInv, Controlling
  <2>2. lastAction \in Past
    BY <2>1 DEF Past, Committed
  <2>3. lastAction.rev = revision
    BY <1>3, <2>2 DEF EpisodeInv, InstructedInv, Controlling
  <2>4. lastAction.epoch = epoch
    BY <2>1 DEF EpisodeInv, InductiveInv, EpochOwnership
  <2> QED
    BY <2>1, <2>3, <2>4
<1> QED
  BY <1>1, <1>2, <1>3 DEF OwnInstruction

(* Whatever the engine's threads do between publication, fetch and use, an   *)
(* action the remote client executes is of its own episode and instruction   *)
(* and, without the fallback, planned for its step or the one before.        *)
THEOREM ExecutesInStep ==
    ASSUME ClientAssumption
    PROVE  EpisodeSpec => [](EpisodeTypeOK /\ LagAtMostOne /\ OwnInstruction)
<1>1. EpisodeInit => EpisodeInv
  BY EpisodeStarts
<1>2. EpisodeInv /\ [EpisodeNext]_evars => EpisodeInv'
  BY EpisodeKeeps
<1> QED
  BY <1>1, <1>2, EpisodeSuffices, PTL DEF EpisodeSpec

(* The counters a receipt quotes are the final ones. *)
THEOREM ReceiptFinal ==
    ASSUME ClientAssumption
    PROVE  EpisodeSpec => ReceiptIsFinal
<1>1. EpisodeInit => EpisodeInv
  BY EpisodeStarts
<1>2. EpisodeInv /\ [EpisodeNext]_evars => EpisodeInv'
  BY EpisodeKeeps
<1>3. EpisodeInv /\ [EpisodeNext]_evars => (lpc = "done" => UNCHANGED metrics)
  BY ReceiptStays
<1> QED
  BY <1>1, <1>2, <1>3, PTL DEF EpisodeSpec, ReceiptIsFinal
=============================================================================
