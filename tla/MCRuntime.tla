----------------------------- MODULE MCRuntime -----------------------------
(* What runs beside the engine and its RPC, side by side: the process and    *)
(* direct transports, the legacy worker with its benchmark loop and its      *)
(* record, the study of the delays that loop is benchmarked with, the        *)
(* synchronous baseline, the client of a remote episode and the robot's      *)
(* writer.  The parts share no state, so a behaviour in which one moves      *)
(* shows all there is to see of it; the others stay where they start.        *)
EXTENDS Integers, Sequences, TLAPS

VARIABLES part
VARIABLES lock, cancelEvent, inflight, generation, process, startSample, requestSample, child,
          pipe, requests, pc, call, op, born, settled, phase, resetGen
VARIABLES begun, sample, current, dpcs, calls
VARIABLES mail, inference, results, error, closed, ended, episode, count, mode, control, step,
          actions, last, requested, events, submitted, trace, asked, merges, counted
VARIABLES stage, now, scheduled, first, chunk, steps, missed, dispatched
VARIABLES life, started, shutdown, active, resetting, fatal, epoch, revision, currentStep,
          mailbox, lastSubmitted, ordinal, resetPending, pending, latestDelivered, queue,
          lastAction, hold, starved, failures, connected, metrics, wpc, work, dpc, delivery,
          provider
VARIABLES lpc, status, controlSteps, sent
VARIABLES holder, opc, tpc, packet, written
VARIABLES commit, plans, runs, selection, pressure

transport == <<lock, cancelEvent, inflight, generation, process, startSample, requestSample,
               child, pipe, requests, pc, call, op, born, settled, phase, resetGen>>
direct == <<begun, sample, current, dpcs, calls>>
loop == <<mail, inference, results, error, closed, ended, episode, count, mode, control, step,
          actions, last, requested, events, submitted>>
record == <<trace, asked, merges, counted>>
sync == <<stage, now, scheduled, first, chunk, steps, missed, dispatched>>
engine == <<life, started, shutdown, active, resetting, fatal, epoch, revision, currentStep,
            mailbox, lastSubmitted, ordinal, resetPending, pending, latestDelivered, queue,
            lastAction, hold, starved, failures, connected, metrics, wpc, work, dpc, delivery,
            provider>>
client == <<lpc, status, controlSteps, sent>>
robot == <<holder, opc, tpc, packet, written>>
study == <<commit, plans, runs, selection, pressure>>
allVars == <<part, transport, direct, loop, record, sync, engine, client, robot, study>>

(* The process transport under the engine, and under two plain callers.      *)
Isolated == INSTANCE TransportProofs WITH
    Callers <- {"w1"}, Controllers <- {"k1"}, Engine <- TRUE,
    MaxEpochs <- 3, MaxChildren <- 3, MaxRequests <- 2, epoch <- born
Plain == INSTANCE TransportProofs WITH
    Callers <- {"w1", "w2"}, Controllers <- {"k1"}, Engine <- FALSE,
    MaxEpochs <- 2, MaxChildren <- 3, MaxRequests <- 1, epoch <- born
Direct == INSTANCE DirectTransport WITH
    Callers <- {"w1", "w2"}, MaxGeneration <- 3,
    generation <- begun, epoch <- current, pc <- dpcs, call <- calls

(* What a calibration at one delay may show: no pressure, a late median with *)
(* one mode just below it, or only one mode; and the plans of control steps  *)
(* around the 50 ms of the controller, with deliveries of up to half a       *)
(* second.                                                                   *)
Headroom == 20
Calm == [age |-> 18, holds |-> 0, stale |-> 0]
StudySteps == [delays |-> {5}, plans |-> 40..60]
StudyBases == [delays |-> {0, 45}, plans |-> {10 * i : i \in 0..50}]
StudyPlans == [delays |-> 2, plans |-> 1]
StudyOutcomes ==
    [delays |->
        {[async_naive |-> Calm, async_aligned |-> Calm],
         [async_naive |-> [Calm EXCEPT !.age = 21], async_aligned |-> [Calm EXCEPT !.age = 19]],
         [async_naive |-> Calm]},
     plans |-> {}]

(* One run that is recorded, and one whose caller abandons episodes; the     *)
(* blocking baseline comes with the first.                                   *)
Legacy == INSTANCE LegacyProofs WITH
    ChunkLengths <- {1, 2, 4}, Modes <- {"sync", "sync_hold", "async_naive", "async_aligned"},
    Episodes <- 2, EpisodeLength <- 6, ReplanInterval <- 2, Abandons <- FALSE,
    pending <- mail, active <- inference, generation <- episode, queue <- actions,
    Period <- 3, Chunk <- 2, Horizon <- 5, Latencies <- {1, 7}, StepTimes <- {1, 3, 8},
    MaxJitter <- 1
Abandoned == INSTANCE LegacyProofs WITH
    ChunkLengths <- {1, 2}, Modes <- {"sync_hold", "async_naive", "async_aligned"},
    Episodes <- 3, EpisodeLength <- 3, ReplanInterval <- 1, Abandons <- TRUE,
    pending <- mail, active <- inference, generation <- episode, queue <- actions,
    Period <- 3, Chunk <- 2, Horizon <- 5, Latencies <- {1, 7}, StepTimes <- {1, 3, 8},
    MaxJitter <- 1

Remote == INSTANCE EngineProofs WITH
    Scheduler <- FALSE, LatestOnlyFallback <- FALSE, BoundedHold <- 1, MinInterval <- 1,
    MaxFailures <- 2, ChunkLens <- {1, 3}, MaxEpoch <- 2, MaxStep <- 3, MaxRevision <- 1
Robot == INSTANCE EngineProofs WITH
    Scheduler <- FALSE, LatestOnlyFallback <- FALSE, BoundedHold <- 1, MinInterval <- 1,
    MaxFailures <- 2, ChunkLens <- {2}, MaxEpoch <- 1, MaxStep <- 1, MaxRevision <- 1

Studies == {"delays", "plans"}

ASSUME RuntimeParameters ==
    /\ Isolated!TransportAssumption /\ Plain!TransportAssumption /\ Direct!DirectAssumption
    /\ Legacy!BenchmarkAssumption /\ Abandoned!BenchmarkAssumption
    /\ Legacy!WorkerAssumption /\ Abandoned!WorkerAssumption
    /\ Legacy!Baseline!SyncAssumption /\ Remote!ClientAssumption
    /\ Remote!ConfigAssumption /\ Remote!BoundAssumption
    /\ Robot!ConfigAssumption /\ Robot!BoundAssumption
    /\ \A kind \in Studies : Legacy!Study(kind)!M4Assumption

Init ==
    /\ part \in {"process", "plain", "direct", "legacy", "abandoned", "baseline",
               "remote", "robot"} \cup Studies
    /\ IF part = "plain" THEN Plain!Init ELSE Isolated!Init
    /\ Direct!Init
    /\ Legacy!AuditInit
    /\ part = "abandoned" => Abandoned!Init
    /\ part \notin {"legacy", "abandoned"} => mode = "sync"
    /\ Legacy!Baseline!Init /\ Remote!EpisodeInit /\ Robot!DispatchInit
    /\ Legacy!Study("delays")!Init

Transporting ==
    /\ \/ part = "process" /\ Isolated!Next
       \/ part = "plain" /\ Plain!Next
    /\ UNCHANGED <<part, direct, loop, record, sync, engine, client, robot, study>>
Calling ==
    /\ part = "direct" /\ Direct!Next
    /\ UNCHANGED <<part, transport, loop, record, sync, engine, client, robot, study>>
Recording ==
    /\ part = "legacy" /\ Legacy!AuditNext
    /\ UNCHANGED <<part, transport, direct, sync, engine, client, robot, study>>
Abandoning ==
    /\ part = "abandoned" /\ Abandoned!Next
    /\ UNCHANGED <<part, transport, direct, record, sync, engine, client, robot, study>>
Pacing ==
    /\ part = "baseline" /\ Legacy!Baseline!Next
    /\ UNCHANGED <<part, transport, direct, loop, record, engine, client, robot, study>>
Serving ==
    /\ part = "remote" /\ Remote!EpisodeNext
    /\ UNCHANGED <<part, transport, direct, loop, record, sync, robot, study>>
Writing ==
    /\ part = "robot" /\ Robot!DispatchNext
    /\ UNCHANGED <<part, transport, direct, loop, record, sync, client, study>>

Studying ==
    /\ \E kind \in Studies : part = kind /\ Legacy!Study(kind)!Next
    /\ UNCHANGED <<part, transport, direct, loop, record, sync, engine, client, robot>>

Next == Transporting \/ Calling \/ Recording \/ Abandoning \/ Pacing
          \/ Serving \/ Writing \/ Studying
Spec == Init /\ [][Next]_allVars

-----------------------------------------------------------------------------
(* The process transport answers a request from a child of its own epoch     *)
(* with nothing of another request in its pipe, starts or leaves no child    *)
(* for a request that an over epoch asked for, and never runs two; and what  *)
(* a transport shows are latencies of requests begun after its last reset:   *)
(* also when invalidations, hung children and timeouts overlap.              *)
TransportsAreCurrent ==
    /\ part = "process" => /\ Isolated!TypeOK /\ Isolated!OneChild
                           /\ Isolated!NoObsoleteChild /\ Isolated!ChildOfEpoch
                           /\ Isolated!Synchronised /\ Isolated!SamplesAfterReset
    /\ part = "plain" => Plain!TypeOK /\ Plain!OneChild /\ Plain!SamplesAfterReset
    /\ part = "direct" => Direct!SampleIsCurrent

(* The process transport is the isolated provider the engine counts on.      *)
ImplementsProvider ==
    /\ part = "process" => Isolated!Provider!Init
    /\ [][part = "process" => [Isolated!Provider!Next]_(Isolated!Provider!vars)]_allVars

(* Of an episode of the legacy loop every queued, held or waiting action is  *)
(* its own and meant for the coming steps, every request is accounted for    *)
(* once, and its record finds the worker idle: in all modes, with results    *)
(* late, dropped or replaced and, for the ownership, episodes abandoned.     *)
LegacyEpisodes ==
    /\ part = "legacy" =>
        /\ Legacy!TypeOK /\ Legacy!OwnActions /\ Legacy!IdleWhenRecorded
        /\ Legacy!RequestsAccounted /\ Legacy!Aligned /\ Legacy!OneHeldRequest
        /\ Legacy!AlwaysSafe /\ Legacy!PlansMoveForward
    /\ part = "abandoned" => Abandoned!OwnActions

(* A row a benchmark writes is true: what the asynchronous loop records      *)
(* passes the report's checks of a row and its trace, in sync_hold stop-and- *)
(* wait.  Every hold was asked for as it began; the report knows the request *)
(* by its event, which only the last one of an episode can lack, and only if *)
(* the end cancelled it in the mailbox (HoldsWereRequested).  The            *)
(* synchronous baseline acts on its ticks, in the order of its chunks, and   *)
(* counts every tick it missed.                                              *)
RowsAreTrue ==
    /\ part = "legacy" => Legacy!RecordedPasses /\ Legacy!RecordedStopAndWait
    /\ part = "baseline" =>
        /\ Legacy!Baseline!TypeOK /\ Legacy!Baseline!TicksAccounted
        /\ Legacy!Baseline!OnItsTick /\ Legacy!Baseline!OpenLoopInOrder

(* The report's check that a hold follows a request (m4_report.py:556-571),  *)
(* which the loop does not always pass: the request was made, but it was     *)
(* still in the mailbox when the episode ended, and no event tells of it.    *)
HoldsWereRequested == part = "legacy" => Legacy!RecordedHoldsPass

(* The delay the M4 report accepts was decided by the plan it shows, by runs *)
(* of all its delays and of no other; whoever follows a plan is accepted;    *)
(* and a plan's delays hit their targets.                                    *)
DelayIsDecided ==
    \A kind \in Studies : part = kind =>
        /\ Legacy!Study(kind)!TypeOK /\ Legacy!Study(kind)!AcceptedIsDecided
        /\ Legacy!Study(kind)!FollowingThePlanIsAccepted
        /\ Legacy!Study(kind)!DelaysHitTargets

(* What a client does with an action does not go stale between the fetch and *)
(* the use: a remote client executes actions planned for its step or the one *)
(* before, in its own episode and for its own instruction, the robot's       *)
(* writer sends packets of the goal and epoch still in force, and a receipt  *)
(* that is written stays true.                                               *)
ClientsAreCurrent ==
    /\ [](part = "remote" =>
            Remote!EpisodeTypeOK /\ Remote!LagAtMostOne /\ Remote!OwnInstruction)
    /\ Robot!WrittenIsCurrent /\ Remote!ReceiptIsFinal

-----------------------------------------------------------------------------
(* The invariant of the transports, each while it is the part that moves.    *)
CurrentInv ==
    /\ part = "process" => Isolated!TransportInv
    /\ part = "plain" => Plain!TransportInv
    /\ part = "direct" => Direct!SampleIsCurrent

LEMMA CurrentInit == Init => CurrentInv
<1> SUFFICES ASSUME Init PROVE CurrentInv
  OBVIOUS
<1>1. CASE part = "process"
  BY <1>1, Isolated!TransportInit, RuntimeParameters DEF Init, CurrentInv
<1>2. CASE part = "plain"
  BY <1>2, Plain!TransportInit, RuntimeParameters DEF Init, CurrentInv
<1>3. CASE part = "direct"
  BY <1>3 DEF Init, CurrentInv, Direct!Init, Direct!SampleIsCurrent
<1> QED
  BY <1>1, <1>2, <1>3 DEF CurrentInv

(* What a step of the whole is for the part that is looked at.               *)
LEMMA OnePartMoves ==
    ASSUME [Next]_allVars
    PROVE  /\ part' = part
           /\ part = "process" => [Isolated!Next]_(Isolated!vars)
           /\ part = "plain" => [Plain!Next]_(Plain!vars)
           /\ part = "direct" => [Direct!Next]_(Direct!vars)
<1> USE DEF Transporting, Calling, Recording, Abandoning, Pacing, Serving, Writing, Studying
<1>1. part' = part
  BY DEF Next, allVars
<1>2. part = "process" => [Isolated!Next]_(Isolated!vars)
  BY DEF Next, allVars, transport, Isolated!vars, Isolated!core, Isolated!samples, Isolated!engine
<1>3. part = "plain" => [Plain!Next]_(Plain!vars)
  BY DEF Next, allVars, transport, Plain!vars, Plain!core, Plain!samples, Plain!engine
<1>4. part = "direct" => [Direct!Next]_(Direct!vars)
  BY DEF Next, allVars, direct, Direct!vars
<1> QED
  BY <1>1, <1>2, <1>3, <1>4

LEMMA CurrentKeeps == CurrentInv /\ [Next]_allVars => CurrentInv'
<1> SUFFICES ASSUME CurrentInv, [Next]_allVars PROVE CurrentInv'
  OBVIOUS
<1>1. part = "process" => Isolated!TransportInv'
  BY OnePartMoves, Isolated!TransportKeeps, RuntimeParameters DEF CurrentInv
<1>2. part = "plain" => Plain!TransportInv'
  BY OnePartMoves, Plain!TransportKeeps, RuntimeParameters DEF CurrentInv
<1>3. part = "direct" => Direct!SampleIsCurrent'
  <2> SUFFICES ASSUME [Direct!Next]_(Direct!vars), Direct!SampleIsCurrent
               PROVE  Direct!SampleIsCurrent'
    BY OnePartMoves DEF CurrentInv
  <2> QED
    BY DEF Direct!Next, Direct!vars, Direct!SampleIsCurrent, Direct!Begin, Direct!Enter,
       Direct!Raises, Direct!Returns, Direct!Concludes, Direct!Invalidate, Direct!Reset
<1> QED
  BY <1>1, <1>2, <1>3, OnePartMoves DEF CurrentInv

(* On these instances too: with one caller under the engine, two without it  *)
(* and two of the direct transport, what a transport answers or shows is of  *)
(* a request begun after the last reset, from one child of its epoch.        *)
THEOREM TransportsStayCurrent == Spec => []TransportsAreCurrent
<1>1. CurrentInv => TransportsAreCurrent
  BY Isolated!OneLives, Plain!OneLives, Isolated!InStep
     DEF CurrentInv, TransportsAreCurrent, Isolated!TransportInv, Plain!TransportInv
<1> QED
  BY <1>1, CurrentInit, CurrentKeeps, PTL DEF Spec

(* Whenever the process transport under the engine is the part that moves,   *)
(* what it does is what the isolated provider may do.                        *)
THEOREM ProviderImplemented == Spec => ImplementsProvider
<1>1. Init => (part = "process" => Isolated!Provider!Init)
  BY Isolated!ProviderInit DEF Init
<1>2. CurrentInv /\ [Next]_allVars
        => (part = "process" => [Isolated!Provider!Next]_(Isolated!Provider!vars))
  BY OnePartMoves, Isolated!ProviderKeeps, RuntimeParameters DEF CurrentInv
<1> QED
  BY <1>1, <1>2, CurrentInit, CurrentKeeps, PTL DEF Spec, ImplementsProvider

-----------------------------------------------------------------------------
(* The invariant of the clients, each while it is the part that moves.       *)
ClientInv ==
    /\ part = "remote" => Remote!EpisodeInv
    /\ part # "remote" => lpc = "start"
    /\ part = "robot" => Robot!DispatchInv

LEMMA ClientInit == Init => ClientInv
<1> SUFFICES ASSUME Init PROVE ClientInv
  OBVIOUS
<1>1. Remote!EpisodeInit /\ Robot!DispatchInit
  BY DEF Init
<1>2. Remote!EpisodeInv
  BY <1>1, RuntimeParameters, Remote!EpisodeStarts
<1>3. Robot!DispatchInv
  BY <1>1, Robot!DispatchStarts
<1>4. lpc = "start"
  BY <1>1 DEF Remote!EpisodeInit
<1> QED
  BY <1>2, <1>3, <1>4 DEF ClientInv

(* What a step of the whole is for a client.                                 *)
LEMMA OneClientMoves ==
    ASSUME [Next]_allVars
    PROVE  /\ part' = part
           /\ part = "remote" => [Remote!EpisodeNext]_(Remote!evars)
           /\ part # "remote" => UNCHANGED lpc
           /\ part = "robot" => [Robot!DispatchNext]_(Robot!dvars)
           /\ part # "robot" => UNCHANGED tpc
<1>1. part' = part
  BY OnePartMoves
<1>2. CASE Transporting \/ Calling \/ Recording \/ Abandoning \/ Pacing \/ Studying
  <2>1. UNCHANGED <<engine, client, robot>> /\ part \notin {"remote", "robot"}
    BY <1>2, Zenon DEF Transporting, Calling, Recording, Abandoning, Pacing, Studying, Studies
  <2>2. UNCHANGED <<lpc, tpc>>
    BY <2>1, Zenon DEF client, robot
  <2> QED
    BY <1>1, <2>1, <2>2
<1>3. CASE Serving
  <2>1. UNCHANGED robot /\ part = "remote" /\ Remote!EpisodeNext
    BY <1>3, Zenon DEF Serving
  <2> QED
    BY <1>1, <2>1 DEF robot
<1>4. CASE Writing
  <2>1. UNCHANGED client /\ part = "robot" /\ Robot!DispatchNext
    BY <1>4, Zenon DEF Writing
  <2> QED
    BY <1>1, <2>1 DEF client
<1>5. CASE UNCHANGED allVars
  <2>1. UNCHANGED <<engine, client, robot>>
    BY <1>5, Zenon DEF allVars
  <2>2. UNCHANGED Remote!evars /\ UNCHANGED lpc
    BY <2>1, Zenon DEF engine, client, Remote!evars, Remote!vars, Remote!clientVars,
       Remote!gateVars, Remote!episodeVars, Remote!heapVars, Remote!actionVars,
       Remote!metricVars, Remote!workVars, Remote!deliverVars
  <2>3. UNCHANGED Robot!dvars /\ UNCHANGED tpc
    BY <2>1, Zenon DEF engine, robot, Robot!dvars, Robot!vars, Robot!callerVars,
       Robot!gateVars, Robot!episodeVars, Robot!heapVars, Robot!actionVars,
       Robot!metricVars, Robot!workVars, Robot!deliverVars
  <2> QED
    BY <1>1, <2>2, <2>3
<1> QED
  BY <1>2, <1>3, <1>4, <1>5 DEF Next

LEMMA ClientKeeps == ClientInv /\ [Next]_allVars => ClientInv'
<1> SUFFICES ASSUME ClientInv, [Next]_allVars PROVE ClientInv'
  OBVIOUS
<1>1. part = "remote" => Remote!EpisodeInv'
  BY OneClientMoves, Remote!EpisodeKeeps, RuntimeParameters DEF ClientInv
<1>2. part = "robot" => Robot!DispatchInv'
  BY OneClientMoves, Robot!DispatchKeeps DEF ClientInv
<1> QED
  BY <1>1, <1>2, OneClientMoves DEF ClientInv

(* A remote client executes what was computed in its episode, for its        *)
(* instruction and its step; its receipt stays true; and what the robot gets *)
(* is of the goal and the epoch in force.                                    *)
THEOREM ClientsStayCurrent == Spec => ClientsAreCurrent
<1> DEFINE InStep == part = "remote" =>
               Remote!EpisodeTypeOK /\ Remote!LagAtMostOne /\ Remote!OwnInstruction
           Current == Robot!Writing => Robot!PacketIsCurrent
           Final == lpc = "done" => UNCHANGED metrics
<1>1. ClientInv => InStep
  BY Remote!EpisodeSuffices DEF ClientInv
<1>2. ClientInv /\ [Next]_allVars => Current
  BY OneClientMoves DEF ClientInv, Robot!Writing, Robot!DispatchInv
<1>3. ClientInv /\ [Next]_allVars => Final
  BY OneClientMoves, Remote!ReceiptStays, RuntimeParameters DEF ClientInv
<1>4. Spec => []ClientInv
  BY ClientInit, ClientKeeps, PTL DEF Spec
<1>5. Spec => [][Current]_(Robot!dvars)
  BY <1>2, <1>4, PTL DEF Spec
<1>6. Spec => [][Final]_(Remote!evars)
  BY <1>3, <1>4, PTL DEF Spec
<1>7. Spec => []InStep
  BY <1>1, <1>4, PTL
<1> QED
  BY <1>5, <1>6, <1>7, PTL
     DEF ClientsAreCurrent, Robot!WrittenIsCurrent, Remote!ReceiptIsFinal,
         Robot!PacketIsCurrent

-----------------------------------------------------------------------------
(* The invariant of the legacy loop, while a run of it is the part that      *)
(* moves.                                                                    *)
LoopInv ==
    /\ part = "legacy" => Legacy!LegacyInv
    /\ part = "abandoned" => Abandoned!LegacyInv

LEMMA LoopInit == Init => LoopInv
<1> SUFFICES ASSUME Init PROVE LoopInv
  OBVIOUS
<1>1. Legacy!Init /\ (part = "abandoned" => Abandoned!Init)
  BY Zenon DEF Init, Legacy!AuditInit
<1>2. Legacy!Assumed /\ Abandoned!Assumed
  BY RuntimeParameters, Zenon DEF Legacy!Assumed, Abandoned!Assumed
<1> QED
  BY <1>1, <1>2, Legacy!LegacyInit, Abandoned!LegacyInit, Zenon DEF LoopInv

(* What a step of the whole is for a run of the loop.                        *)
LEMMA OneLoopMoves ==
    ASSUME [Next]_allVars
    PROVE  /\ part' = part
           /\ part = "legacy" => [Legacy!Next]_(Legacy!vars)
           /\ part = "abandoned" => [Abandoned!Next]_(Abandoned!vars)
<1>1. part' = part
  BY OnePartMoves
<1>2. CASE Recording
  <2>1. part = "legacy" /\ Legacy!AuditNext
    BY <1>2, Zenon DEF Recording
  <2> QED
    BY <1>1, <2>1, Legacy!RecordingWatches, Zenon
<1>3. CASE Abandoning
  <2>1. part = "abandoned" /\ Abandoned!Next
    BY <1>3, Zenon DEF Abandoning
  <2> QED
    BY <1>1, <2>1, Zenon
<1>4. CASE Transporting \/ Calling \/ Pacing \/ Serving \/ Writing \/ Studying
  BY <1>1, <1>4 DEF Transporting, Calling, Pacing, Serving, Writing, Studying, Studies
<1>5. CASE UNCHANGED allVars
  <2>1. UNCHANGED loop
    BY <1>5, Zenon DEF allVars
  <2>2. UNCHANGED Legacy!vars /\ UNCHANGED Abandoned!vars
    BY <2>1, Zenon DEF loop, Legacy!vars, Legacy!worker, Legacy!caller, Abandoned!vars,
       Abandoned!worker, Abandoned!caller
  <2> QED
    BY <1>1, <2>2, Zenon
<1> QED
  BY <1>2, <1>3, <1>4, <1>5, Zenon DEF Next

LEMMA LoopKeeps == LoopInv /\ [Next]_allVars => LoopInv'
<1> SUFFICES ASSUME LoopInv, [Next]_allVars PROVE LoopInv'
  OBVIOUS
<1>1. Legacy!Assumed /\ Abandoned!Assumed
  BY RuntimeParameters, Zenon DEF Legacy!Assumed, Abandoned!Assumed
<1>2. part = "legacy" => Legacy!LegacyInv'
  BY <1>1, OneLoopMoves, Legacy!LegacyKeeps, Zenon DEF LoopInv
<1>3. part = "abandoned" => Abandoned!LegacyInv'
  BY <1>1, OneLoopMoves, Abandoned!LegacyKeeps, Zenon DEF LoopInv
<1> QED
  BY <1>2, <1>3, OneLoopMoves, Zenon DEF LoopInv

(* Of a run of the legacy loop: its queued, held and waiting actions are of  *)
(* the running episode and planned for the coming steps, and its record      *)
(* accounts for every request; the ownership also when a caller abandons     *)
(* episodes.                                                                 *)
THEOREM LegacyEpisodesHold == Spec => []LegacyEpisodes
<1>1. LoopInv => LegacyEpisodes
  <2> SUFFICES ASSUME LoopInv PROVE LegacyEpisodes
    OBVIOUS
  <2>1. Legacy!Assumed /\ Abandoned!Assumed
    BY RuntimeParameters, Zenon DEF Legacy!Assumed, Abandoned!Assumed
  <2>2. part = "legacy" => Legacy!EpisodeHolds /\ Legacy!OneHeldRequest
    BY <2>1, Legacy!EpisodeFollows, Legacy!HeldFollows, Zenon DEF LoopInv
  <2>3. part = "abandoned" => Abandoned!EpisodeHolds
    BY <2>1, Abandoned!EpisodeFollows, Zenon DEF LoopInv
  <2> QED
    BY <2>2, <2>3, Zenon DEF LegacyEpisodes, Legacy!EpisodeHolds, Abandoned!EpisodeHolds
<1> QED
  BY <1>1, LoopInit, LoopKeeps, PTL DEF Spec

-----------------------------------------------------------------------------
(* The invariant of either study of delays.                                  *)
StudiesInv == \A kind \in Studies : part = kind => Legacy!StudyInv(kind)

LEMMA StudiesInit == Init => StudiesInv
<1> SUFFICES ASSUME Init, NEW kind \in Studies PROVE Legacy!StudyInv(kind)
  BY Zenon DEF StudiesInv
<1>1. Legacy!Study("delays")!Init
  BY Zenon DEF Init
<1>2. Legacy!Study(kind)!Init
  BY <1>1, Zenon DEF Legacy!Study!Init, Legacy!Study!NoSelection, Legacy!Study!NoPressure
<1> QED
  BY <1>2, RuntimeParameters, Legacy!StudyStarts, Zenon

LEMMA StudiesKeep == StudiesInv /\ [Next]_allVars => StudiesInv'
<1> SUFFICES ASSUME StudiesInv, [Next]_allVars, NEW kind \in Studies, part' = kind
             PROVE  Legacy!StudyInv(kind)'
  BY Zenon DEF StudiesInv
<1>1. part' = part
  BY OnePartMoves
<1>2. [Legacy!Study(kind)!Next]_(Legacy!Study(kind)!vars)
  <2>1. CASE \/ Transporting \/ Calling \/ Recording \/ Abandoning \/ Pacing \/ Serving
             \/ Writing \/ UNCHANGED allVars
    <3>1. UNCHANGED study
      BY <2>1, Zenon DEF Transporting, Calling, Recording, Abandoning, Pacing, Serving,
         Writing, allVars
    <3> QED
      BY <3>1, Zenon DEF study, Legacy!Study!vars
  <2>2. CASE Studying
    BY <1>1, <2>2, Zenon DEF Studying
  <2> QED
    BY <2>1, <2>2, Zenon DEF Next
<1> QED
  BY <1>1, <1>2, RuntimeParameters, Legacy!StudyKept, Zenon DEF StudiesInv

(* The delay the M4 report accepts was decided by its plan, and the delays   *)
(* of every plan hit their targets.                                          *)
THEOREM DelayStaysDecided == Spec => []DelayIsDecided
<1>1. StudiesInv => DelayIsDecided
  BY RuntimeParameters, Legacy!StudySays, Zenon DEF StudiesInv, DelayIsDecided
<1> QED
  BY <1>1, StudiesInit, StudiesKeep, PTL DEF Spec

-----------------------------------------------------------------------------
(* The invariant of what is written: the record of the loop, and the pacing. *)
RowsInv ==
    /\ part = "legacy" => Legacy!LegacyInv /\ Legacy!AuditInv
    /\ part = "baseline" => Legacy!PacingInv

LEMMA RowsInit == Init => RowsInv
<1> SUFFICES ASSUME Init PROVE RowsInv
  OBVIOUS
<1>1. Legacy!AuditInit /\ Legacy!Init /\ Legacy!Baseline!Init
  BY Zenon DEF Init, Legacy!AuditInit
<1>2. Legacy!Assumed /\ Legacy!Baseline!SyncAssumption
  BY RuntimeParameters, Zenon DEF Legacy!Assumed
<1> QED
  BY <1>1, <1>2, Legacy!LegacyInit, Legacy!AuditStarts, Legacy!PacingStarts, Zenon DEF RowsInv

(* What a step of the whole is for what is written.                          *)
LEMMA OneRecordMoves ==
    ASSUME [Next]_allVars
    PROVE  /\ part = "legacy" => [Legacy!AuditNext]_(Legacy!auditVars)
           /\ part = "baseline" => [Legacy!Baseline!Next]_(Legacy!Baseline!vars)
<1>1. CASE Recording
  <2>1. part = "legacy" /\ Legacy!AuditNext
    BY <1>1, Zenon DEF Recording
  <2> QED
    BY <2>1
<1>2. CASE Pacing
  <2>1. part = "baseline" /\ Legacy!Baseline!Next
    BY <1>2, Zenon DEF Pacing
  <2> QED
    BY <2>1
<1>3. CASE Transporting \/ Calling \/ Abandoning \/ Serving \/ Writing \/ Studying
  BY <1>3 DEF Transporting, Calling, Abandoning, Serving, Writing, Studying, Studies
<1>4. CASE UNCHANGED allVars
  <2>1. UNCHANGED <<loop, record, sync>>
    BY <1>4, Zenon DEF allVars
  <2>2. UNCHANGED Legacy!auditVars /\ UNCHANGED Legacy!Baseline!vars
    BY <2>1, Zenon DEF loop, record, sync, Legacy!auditVars, Legacy!vars, Legacy!worker,
       Legacy!caller, Legacy!written, Legacy!Baseline!vars
  <2> QED
    BY <2>2, Zenon
<1> QED
  BY <1>1, <1>2, <1>3, <1>4, Zenon DEF Next

LEMMA RowsKeep == RowsInv /\ [Next]_allVars => RowsInv'
<1> SUFFICES ASSUME RowsInv, [Next]_allVars PROVE RowsInv'
  OBVIOUS
<1>1. Legacy!Assumed /\ Legacy!Baseline!SyncAssumption /\ 6 > 0
  BY RuntimeParameters DEF Legacy!Assumed
<1>2. part = "legacy" => Legacy!LegacyInv' /\ Legacy!AuditInv'
  <2> SUFFICES ASSUME part = "legacy" PROVE Legacy!LegacyInv' /\ Legacy!AuditInv'
    OBVIOUS
  <2>1. Legacy!LegacyInv /\ Legacy!AuditInv /\ [Legacy!AuditNext]_(Legacy!auditVars)
    BY OneRecordMoves, Zenon DEF RowsInv
  <2>2. [Legacy!Next]_(Legacy!vars)
    BY <2>1, Legacy!RecordingWatches
  <2>3. Legacy!LegacyInv'
    BY <1>1, <2>1, <2>2, Legacy!LegacyKeeps, Zenon
  <2>4. Legacy!AuditInv'
    BY <1>1, <2>1, Legacy!AuditKeeps, Zenon
  <2> QED
    BY <2>3, <2>4
<1>3. part = "baseline" => Legacy!PacingInv'
  BY <1>1, OneRecordMoves, Legacy!PacingKeeps, Zenon DEF RowsInv
<1> QED
  BY <1>2, <1>3, OnePartMoves, Zenon DEF RowsInv

(* A row is true: what the loop writes of an episode passes the report that  *)
(* reads it, in sync_hold as stop-and-wait, with every hold asked for and    *)
(* the request listed unless it was the last and cancelled; and the blocking *)
(* baseline acts on its ticks, in the order of its chunks, and counts those  *)
(* it missed.                                                                *)
THEOREM RowsStayTrue == Spec => []RowsAreTrue
<1>1. ASSUME RowsInv PROVE RowsAreTrue
  <2>1. Legacy!Assumed /\ Legacy!Baseline!SyncAssumption /\ ~FALSE
    BY RuntimeParameters, Zenon DEF Legacy!Assumed
  <2>2. part = "legacy" => Legacy!RecordedPasses /\ Legacy!RecordedStopAndWait
    BY <1>1, <2>1, Legacy!RowsAddUp, Legacy!StopsAndWaits, Zenon
       DEF RowsInv, Legacy!RecordedPasses, Legacy!RecordedStopAndWait
  <2>3. part = "baseline" => /\ Legacy!Baseline!TypeOK /\ Legacy!Baseline!TicksAccounted
                             /\ Legacy!Baseline!OnItsTick /\ Legacy!Baseline!OpenLoopInOrder
    BY <1>1, <2>1, Legacy!PacingSays, Zenon DEF RowsInv
  <2> QED
    BY <2>2, <2>3, Zenon DEF RowsAreTrue
<1> QED
  BY <1>1, RowsInit, RowsKeep, PTL DEF Spec
=============================================================================
