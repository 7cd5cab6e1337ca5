---------------------------- MODULE MCCompletion ----------------------------
(* The programs about the completion model, side by side: the stages of its  *)
(* evidence, its confirmation, the trainings and the data they see; and, of  *)
(* the language VLA, the gates before its native runs, the runs of the       *)
(* native baseline and the execution of one task.  They share no state, so a *)
(* behaviour in which one part moves shows all there is to see of it; the    *)
(* others stay where they start.                                             *)
EXTENDS Integers, Sequences, TLAPS

CONSTANTS l1, l2, l3, l4, l5,   \* initial layouts of the simulator
          pilot, again          \* data directories

VARIABLES part
VARIABLES dirs, content, files, verdict
VARIABLES last, since, decided, claimed, truth
VARIABLES training, epoch, opinion, todo, events, postCache, key, best, selected, log, bestFile,
          predictions, lastFile, probed, kept
VARIABLES shard, manifest, preparer, preparations, copies, trainer, checkpoints, frozen, evaluation
VARIABLES receipts, scores, proc, calls
VARIABLES attempt, batch, spot, struck, doing, draft, record, actions, raising, journal, onDisk,
          episodeFile, worlds
VARIABLES interruptAt, place, execution, obs, boundary, physical, oracle, checks

chain == <<dirs, content, files, verdict>>
confirmation == <<last, since, decided, claimed, truth>>
selection == <<training, epoch, opinion, todo, events, postCache, key, best, selected, log,
               bestFile, predictions, lastFile, probed, kept>>
data == <<shard, manifest, preparer, preparations, copies, trainer, checkpoints, frozen,
          evaluation>>
gates == <<receipts, scores, proc, calls>>
native == <<attempt, batch, spot, struck, doing, draft, record, actions, raising, journal,
            onDisk, episodeFile, worlds>>
task == <<interruptAt, place, execution, obs, boundary, physical, oracle, checks>>
vars == <<part, chain, confirmation, selection, data, gates, native, task>>

(* The development half of the stages, and the acceptance half over two      *)
(* episodes after the first half is done.                                    *)
DevelopmentStages ==
    {"development", "training", "fresh", "evaluation", "collection", "nuisance", "temporal",
     "adapt_data", "adaptation", "dev_live"}
AcceptanceStages ==
    {"fresh", "collection", "freeze", "acceptance", "challenges", "paired", "live"}
Develop == INSTANCE EvidenceProofs WITH
    Layouts <- {l1, l2, l3}, Demos <- {l1}, Versions <- {1}, MaxDead <- 2,
    Seeds <- [fresh |-> 1, collection |-> 1, acceptance |-> 1],
    Started <- DevelopmentStages, Done <- {}
Accept == INSTANCE EvidenceProofs WITH
    Layouts <- {l1, l2, l3, l4, l5}, Demos <- {l1}, Versions <- {1, 2}, MaxDead <- 2,
    Seeds <- [fresh |-> 1, collection |-> 1, acceptance |-> 2],
    Started <- AcceptanceStages, Done <- DevelopmentStages \ AcceptanceStages

(* An episode that is done at control 2 and, having slipped back, at 4, and  *)
(* one that is never done; stopping the first at 2 does not last.            *)
Validation == {"placed", "dropped"}
Complete == [placed |-> [c \in 0..4 |-> c \in {2, 4}], dropped |-> [c \in 0..4 |-> FALSE]]
Lasting == [at \in Validation \X (0..4) |-> at = <<"placed", 4>>]
Networks == [placed : {{}, {0, 2}, {2}, {3, 4}, {4}}, dropped : {{}, {2}}]
Errors == [false : {0}, confident : {0, 1}]
Scores == (0..1) \X (0..1) \X (0..2)

(* Five controls with gaps.  Three demonstrations under two seeds that split *)
(* them differently.  A request to accept and one to refuse, and a shadow    *)
(* frame of either kind, both of which have to be decided: both gates can be *)
(* passed and missed by two processes among runners, scorers and native      *)
(* runs, which die anywhere; a request can also time out.  Two runs of the   *)
(* baseline, the second of two episodes that end or reach their cap of two   *)
(* steps.  A task of up to five controls in chunks of two.                   *)
Split(train, validation, test) ==
    [e \in {1, 2, 3} |-> IF e = train THEN "train"
                         ELSE IF e = validation THEN "validation" ELSE "test"]
Claims == INSTANCE CompletionProofs WITH
    Window <- 2, MaxControl <- 4, started <- since,
    Episodes <- {1, 2, 3}, SplitOf <- <<Split(1, 2, 3), Split(3, 1, 2)>>,
    Directories <- {pilot, again}, Renderings <- {1, 2},
    MaxPreparations <- 2, MaxCopies <- 1, MaxTrainings <- 1,
    Workers <- {"w1", "w2"}, TextGate <- {1, 2},
    Cases <- [comparison |-> <<"yes", "no">>, shadow |-> <<"yes", "no">>],
    Answers <- [comparison |-> {"accept", "reject", "timeout"},
                shadow |-> {"complete", "incomplete"}],
    MinCorrect <- 1, MaxFalse <- 0, MinDecided <- 2, Protocol <- 3,
    Epochs <- 3, MinCompleted <- 1, MaxDelay <- 2,
    Opinions <- Networks, Auxiliaries <- Errors, Keys <- Scores,
    MaxRuns <- 2, Development <- 2, Cap <- 2, Chunk <- 2, MaxSteps <- 5, Interval <- 2
Trainings == {"first", "adapted", "visual"}

ASSUME CompletionParameters ==
    /\ Develop!ChainAssumption /\ Accept!ChainAssumption
    /\ Claims!WindowAssumption
    /\ \A kind \in Trainings : Claims!Trained(kind)!SelectionAssumption
    /\ Claims!Data!VisualDataAssumption /\ Claims!Gate!GateAssumption
    /\ Claims!Baseline!NativeRunAssumption /\ Claims!Run!BudgetAssumption

Init ==
    /\ part \in {"develop", "accept", "confirm", "data", "gates", "native", "task"}
               \cup Trainings
    /\ IF part = "develop" THEN Develop!Init ELSE Accept!Init
    /\ Claims!Init
    /\ part # "confirm" => \A c \in DOMAIN truth : ~truth[c]
    /\ Claims!Trained("first")!Init
    /\ Claims!Data!Init /\ Claims!Gate!Init /\ Claims!Baseline!Init
    /\ Claims!Run!Init /\ (part # "task" => interruptAt = 0)

Chain ==
    /\ \/ part = "develop" /\ Develop!Next
       \/ part = "accept" /\ Accept!Next
    /\ UNCHANGED <<part, confirmation, selection, data, gates, native, task>>
Confirming ==
    /\ part = "confirm" /\ Claims!Next
    /\ UNCHANGED <<part, chain, selection, data, gates, native, task>>
Training ==
    /\ \E kind \in Trainings : part = kind /\ Claims!Trained(kind)!Next
    /\ UNCHANGED <<part, chain, confirmation, data, gates, native, task>>
Preparing ==
    /\ part = "data" /\ Claims!Data!Next
    /\ UNCHANGED <<part, chain, confirmation, selection, gates, native, task>>
Gating ==
    /\ part = "gates" /\ Claims!Gate!Next
    /\ UNCHANGED <<part, chain, confirmation, selection, data, native, task>>
Running ==
    /\ part = "native" /\ Claims!Baseline!Next
    /\ UNCHANGED <<part, chain, confirmation, selection, data, gates, task>>
Executing ==
    /\ part = "task" /\ Claims!Run!Next
    /\ UNCHANGED <<part, chain, confirmation, selection, data, gates, native>>

Next ==
    \/ Chain \/ Confirming \/ Training \/ Preparing \/ Gating \/ Running \/ Executing
Spec == Init /\ [][Next]_vars

-----------------------------------------------------------------------------
(* Acceptance is decided on layouts nobody has seen, every stage of it ran   *)
(* under the protocol and the sources of the freeze, a manifest stands on    *)
(* finished manifests, and GO is said of everything: whatever the order the  *)
(* stages were started in, and whichever of them failed on the way.          *)
EvidenceIsSound ==
    /\ part = "develop" => Develop!TypeOK /\ Develop!HeldOutIsNew /\ Develop!EvidenceStands
    /\ part = "accept" => /\ Accept!TypeOK /\ Accept!HeldOutIsNew /\ Accept!LockedThroughout
                          /\ Accept!EvidenceStands /\ Accept!GoIsOfEverything

(* A claim is made exactly at the end of an unbroken window of positive      *)
(* evidence, gaps, doubts and revocations notwithstanding, and a stop is     *)
(* premature exactly when the first claim was.                               *)
ClaimsAreContinuous ==
    part = "confirm" =>
        Claims!ClaimsAreContinuous /\ Claims!CandidateIsEvidence /\ Claims!SafetyOfFirstStop

(* A training freezes the first of its best epochs, whole and with its own   *)
(* predictions, also when two tie or a kill comes between its files; every   *)
(* stop was simulated once and counts for itself; one that passed is safe.   *)
FrozenIsTheBest ==
    \A kind \in Trainings : part = kind =>
        /\ Claims!Trained(kind)!TypeOK /\ Claims!Trained(kind)!FrozenIsTheBest
        /\ Claims!Trained(kind)!BestFollowsTheLog
        /\ Claims!Trained(kind)!StopsAreTheirOwn /\ Claims!Trained(kind)!FrozenPassIsSafe

(* A completed evaluation predicts every test episode once, and none the     *)
(* frozen checkpoint was trained or selected on; all shards read are those   *)
(* the manifest lists, in spite of kills, other splits and copied files.     *)
HeldOutStaysHeldOut ==
    part = "data" =>
        Claims!Data!TypeOK /\ Claims!Data!HeldOutStaysHeldOut /\ Claims!Data!OneRendering

(* Native runs and the interrupted episode in them stand on gates that were  *)
(* passed, by receipts nobody can change any more, of phases that asked the  *)
(* model everything once: though processes race each other and die.          *)
GatesHold ==
    /\ [](part = "gates" =>
            /\ Claims!Gate!TypeOK /\ Claims!Gate!AskedOnce /\ Claims!Gate!NoCallAfterTimeout
            /\ Claims!Gate!PassIsOfTheReceipt /\ Claims!Gate!NativeHasEvidence
            /\ Claims!Gate!InterruptionAfterTwoLogs)
    /\ Claims!Gate!FinalReceiptStays

(* The receipts of a native run tell what happened to its worlds: a verdict  *)
(* is the world's, an episode cut short has none, nothing is listed twice,   *)
(* and development stands on a smoke run that came to its end: whichever     *)
(* step raised, was interrupted or killed.  An episode that was played is    *)
(* missing only if it was the one under way and the run was killed, or the   *)
(* signal hit the "finally" of run_episode (native_baseline.py:540-544), the *)
(* "except" of main (650-665) or the final write.                            *)
ReceiptsAreTrue ==
    part = "native" =>
        /\ Claims!Baseline!TypeOK /\ Claims!Baseline!CompletedIsComplete
        /\ Claims!Baseline!VerdictIsTrue /\ Claims!Baseline!CutShortIsUndecided
        /\ Claims!Baseline!ListedOnce /\ Claims!Baseline!NothingIsLost
        /\ Claims!Baseline!SmokeCameFirst

(* A run pays for every control the robot really made, never goes further    *)
(* than a chunk without a verdict, and says complete only of the state it    *)
(* ends in; no control was planned before the last verdict or interruption,  *)
(* and none is issued after the end of the environment's episode: also when  *)
(* controls raise or an interruption shifts the chunks.                      *)
RunsAreHonest ==
    /\ [](part = "task" =>
            /\ Claims!Run!TypeOK /\ Claims!Run!PaidControls /\ Claims!Run!CheckedOften
            /\ Claims!Run!CompleteIsChecked /\ Claims!Run!EndsDecided
            /\ Claims!Run!PassIsHonest)
    /\ Claims!Run!PlannedSinceCheck /\ Claims!Run!NothingAfterTheEnd

-----------------------------------------------------------------------------
(* What is proved of the confirmation holds of it in these programs.         *)

ConfirmingInv == part = "confirm" => Claims!ConfirmationInv

LEMMA ConfirmingInit == Init => ConfirmingInv
BY Claims!ConfirmationInit DEF Init, ConfirmingInv, Claims!WindowAssumption

LEMMA ConfirmingKeeps == ConfirmingInv /\ [Next]_vars => ConfirmingInv'
<1> SUFFICES ASSUME ConfirmingInv, [Next]_vars, part' = "confirm"
             PROVE  Claims!ConfirmationInv'
  BY DEF ConfirmingInv
<1>1. part' = part
  BY Zenon DEF Next, Chain, Confirming, Training, Preparing, Gating, Running,
     Executing, vars
<1>2. [Claims!Next]_(Claims!vars)
  <2>1. CASE Chain \/ Training \/ Preparing \/ Gating \/ Running \/ Executing
    BY <2>1, Zenon DEF Chain, Training, Preparing, Gating, Running, Executing,
       confirmation, Claims!vars
  <2>2. CASE Confirming
    BY <2>2 DEF Confirming
  <2>3. CASE UNCHANGED vars
    BY <2>3, Zenon DEF vars, confirmation, Claims!vars
  <2> QED
    BY <2>1, <2>2, <2>3 DEF Next
<1>3. Claims!WindowAssumption
  BY DEF Claims!WindowAssumption
<1> QED
  BY <1>1, <1>2, <1>3, Claims!ConfirmationKeeps DEF ConfirmingInv

(* Every claim is made at the end of an unbroken window of positive          *)
(* evidence and every such window is claimed; the running interval lies in   *)
(* the history; and the metrics speak of the first stop.                     *)
THEOREM ClaimsStayContinuous == Spec => []ClaimsAreContinuous
<1>1. ConfirmingInv => ClaimsAreContinuous
  <2> SUFFICES ASSUME part = "confirm", Claims!ConfirmationInv
               PROVE  /\ Claims!ClaimsAreContinuous /\ Claims!CandidateIsEvidence
                      /\ Claims!SafetyOfFirstStop
    BY DEF ConfirmingInv, ClaimsAreContinuous
  <2>1. Claims!WindowAssumption
    BY DEF Claims!WindowAssumption
  <2>2. Claims!ConfirmationType /\ Claims!ClaimsAreContinuous /\ Claims!CandidateIsEvidence
    BY DEF Claims!ConfirmationInv
  <2>3. Claims!SafetyOfFirstStop
    BY <2>1, <2>2, Claims!StopIsFirst
  <2> QED
    BY <2>2, <2>3
<1> QED
  BY <1>1, ConfirmingInit, ConfirmingKeeps, PTL DEF Spec

-----------------------------------------------------------------------------
(* So does what is proved of either half of the stages, of the data, of the  *)
(* gates, of the baseline runs, of the task, and of each training.           *)
ChainPartsInv ==
    /\ part = "develop" => Develop!ChainInv
    /\ part = "accept" => Accept!ChainInv
DataPartInv == part = "data" => Claims!DataInv
GatesPartInv == part = "gates" => Claims!GateInv
NativePartInv == part = "native" => Claims!BaselineInv
TaskPartInv == part = "task" => Claims!ExecutionInv
TrainingPartInv == \A kind \in Trainings : part = kind => Claims!SelectionInv(kind)

LEMMA Together == [Next]_vars =>
    /\ part' = part
    /\ part = "develop" => [Develop!Next]_(Develop!vars)
    /\ part = "accept" => [Accept!Next]_(Accept!vars)
    /\ part = "data" => [Claims!Data!Next]_(Claims!Data!vars)
    /\ [part = "gates" /\ Claims!Gate!Next]_(Claims!Gate!vars)
    /\ part = "native" => [Claims!Baseline!Next]_(Claims!Baseline!vars)
    /\ [part = "task" /\ Claims!Run!Next]_(Claims!Run!vars)
<1> USE DEF Claims!Baseline!vars, Claims!Baseline!main, Claims!Baseline!episode
<1>1. CASE Chain
  BY <1>1, Zenon DEF Chain, data, gates, native, task, Claims!Data!vars, Claims!Gate!vars,
     Claims!Run!vars
<1>2. CASE Preparing
  BY <1>2, Zenon DEF Preparing, chain, gates, native, task, Develop!vars, Accept!vars,
     Claims!Gate!vars, Claims!Run!vars
<1>3. CASE Gating
  BY <1>3, Zenon DEF Gating, chain, data, native, task, Develop!vars, Accept!vars,
     Claims!Data!vars, Claims!Run!vars
<1>4. CASE Running
  BY <1>4, Zenon DEF Running, chain, data, gates, task, Develop!vars, Accept!vars,
     Claims!Data!vars, Claims!Gate!vars, Claims!Run!vars
<1>5. CASE Confirming \/ Training
  BY <1>5, Zenon DEF Confirming, Training, chain, data, gates, native, task,
     Develop!vars, Accept!vars, Claims!Data!vars, Claims!Gate!vars, Claims!Run!vars
<1>6. CASE Executing
  BY <1>6, Zenon DEF Executing, chain, data, gates, native, Develop!vars, Accept!vars,
     Claims!Data!vars, Claims!Gate!vars
<1>7. CASE UNCHANGED vars
  BY <1>7, Zenon DEF vars, chain, data, gates, native, task, Develop!vars, Accept!vars,
     Claims!Data!vars, Claims!Gate!vars, Claims!Run!vars
<1> QED
  BY <1>1, <1>2, <1>3, <1>4, <1>5, <1>6, <1>7, Zenon DEF Next

LEMMA PartsInit ==
    Init => ChainPartsInv /\ DataPartInv /\ GatesPartInv /\ NativePartInv /\ TaskPartInv
<1>1. Init => /\ part = "develop" => Develop!Init
              /\ part = "accept" => Accept!Init
              /\ Claims!Data!Init /\ Claims!Gate!Init /\ Claims!Baseline!Init
              /\ Claims!Run!Init
  BY DEF Init
<1> QED
  BY <1>1, CompletionParameters, Develop!NothingAtFirst, Accept!NothingAtFirst, Claims!Begins,
     Claims!GateStarted, Claims!BaselineStarts, Claims!ExecutionStarts, Zenon
     DEF ChainPartsInv, DataPartInv, GatesPartInv, NativePartInv, TaskPartInv

LEMMA PartsKeep ==
    ChainPartsInv /\ DataPartInv /\ [Next]_vars => ChainPartsInv' /\ DataPartInv'
BY Together, CompletionParameters, Develop!ChainKept, Accept!ChainKept, Claims!DataKept, Zenon
   DEF ChainPartsInv, DataPartInv

LEMMA GatesKeep == GatesPartInv /\ [Next]_vars => GatesPartInv'
BY Together, CompletionParameters, Claims!GateKeeps, Zenon DEF GatesPartInv

LEMMA NativeKeeps == NativePartInv /\ [Next]_vars => NativePartInv'
BY Together, CompletionParameters, Claims!BaselineKept, Zenon DEF NativePartInv

LEMMA TaskKeeps == TaskPartInv /\ [Next]_vars => TaskPartInv'
BY Together, CompletionParameters, Claims!ExecutionKept, Zenon DEF TaskPartInv

(* Nothing is decided on used layouts, on unfinished inputs, or under other  *)
(* sources than the frozen ones.                                             *)
THEOREM EvidenceStaysSound == Spec => []EvidenceIsSound
<1>1. ChainPartsInv => EvidenceIsSound
  BY CompletionParameters, Develop!ChainSays, Accept!ChainSays, Zenon
     DEF ChainPartsInv, EvidenceIsSound
<1> QED
  BY <1>1, PartsInit, PartsKeep, PTL DEF Spec

(* The held-out numbers are of episodes the frozen model never saw.          *)
THEOREM HeldOutStaysOut == Spec => []HeldOutStaysHeldOut
<1>1. DataPartInv => HeldOutStaysHeldOut
  BY CompletionParameters, Claims!DataSays, Zenon DEF DataPartInv, HeldOutStaysHeldOut
<1> QED
  BY <1>1, PartsInit, PartsKeep, PTL DEF Spec

(* Native runs stand on gates that were passed, and no final receipt ever    *)
(* changes.                                                                  *)
THEOREM GatesStayPassed == Spec => GatesHold
<1>1. GatesPartInv => (part = "gates" =>
        /\ Claims!Gate!TypeOK /\ Claims!Gate!AskedOnce /\ Claims!Gate!NoCallAfterTimeout
        /\ Claims!Gate!PassIsOfTheReceipt /\ Claims!Gate!NativeHasEvidence
        /\ Claims!Gate!InterruptionAfterTwoLogs)
  BY CompletionParameters, Claims!GateSays, Zenon DEF GatesPartInv, Claims!GateHolds
<1>2. GatesPartInv /\ [Next]_vars =>
        [\A p \in Claims!Gate!Phases :
            receipts[p].sealed => receipts'[p] = receipts[p]]_(Claims!Gate!vars)
  BY Together, CompletionParameters, Claims!FinalReceiptKept, Zenon DEF GatesPartInv
<1> QED
  BY <1>1, <1>2, PartsInit, GatesKeep, PTL DEF Spec, GatesHold, Claims!Gate!FinalReceiptStays

(* Whatever a native run leaves behind is true of its worlds.                *)
THEOREM ReceiptsStayTrue == Spec => []ReceiptsAreTrue
<1>1. NativePartInv => ReceiptsAreTrue
  BY CompletionParameters, Claims!BaselineSays, Zenon DEF NativePartInv, ReceiptsAreTrue
<1> QED
  BY <1>1, PartsInit, NativeKeeps, PTL DEF Spec

(* An execution pays for what it does, goes no further than a chunk without  *)
(* a verdict, plans on the last one, and claims what its logs bear out.      *)
THEOREM RunsStayHonest == Spec => RunsAreHonest
<1>1. TaskPartInv => (part = "task" =>
        /\ Claims!Run!TypeOK /\ Claims!Run!PaidControls /\ Claims!Run!CheckedOften
        /\ Claims!Run!CompleteIsChecked /\ Claims!Run!EndsDecided
        /\ Claims!Run!PassIsHonest)
  BY CompletionParameters, Claims!ExecutionSays, Zenon DEF TaskPartInv, Claims!ExecutionHolds
<1>2. TaskPartInv /\ [Next]_vars =>
        [physical' > physical => Claims!Run!MadeSince(Head(execution.pending))]_(Claims!Run!vars)
  BY Together, CompletionParameters, Claims!ControlSays, Zenon DEF TaskPartInv
<1>3. TaskPartInv /\ [Next]_vars =>
        [physical' > physical =>
           /\ ~boundary
           /\ checks # <<>> => Claims!Run!Last(checks).decision = "incomplete"
        ]_(Claims!Run!vars)
  BY Together, CompletionParameters, Claims!ControlSays, Zenon DEF TaskPartInv
<1> QED
  BY <1>1, <1>2, <1>3, PartsInit, TaskKeeps, PTL
     DEF Spec, RunsAreHonest, Claims!Run!PlannedSinceCheck, Claims!Run!NothingAfterTheEnd

-----------------------------------------------------------------------------
LEMMA TrainingInit == Init => TrainingPartInv
<1> SUFFICES ASSUME Init, NEW kind \in Trainings PROVE Claims!SelectionInv(kind)
  BY DEF TrainingPartInv
<1>1. Claims!Trained("first")!Init
  BY DEF Init
<1>2. Claims!Trained(kind)!Init
  BY <1>1, Zenon DEF Claims!Trained!Init, Claims!Trained!Nothing
<1> QED
  BY <1>2, CompletionParameters, Claims!SelectionStarts

LEMMA TrainingKeeps == TrainingPartInv /\ [Next]_vars => TrainingPartInv'
<1> SUFFICES ASSUME TrainingPartInv, [Next]_vars, NEW kind \in Trainings, part' = kind
             PROVE  Claims!SelectionInv(kind)'
  BY DEF TrainingPartInv
<1>1. part' = part
  BY Zenon, Together
<1>2. [Claims!Trained(kind)!Next]_(Claims!Trained(kind)!vars)
  <2>1. CASE \/ Chain \/ Confirming \/ Preparing \/ Gating \/ Running
             \/ Executing \/ UNCHANGED vars
    <3>1. UNCHANGED selection
      BY <2>1, Zenon DEF Chain, Confirming, Preparing, Gating, Running, Executing,
         vars
    <3> QED
      BY <3>1, Zenon DEF selection, Claims!Trained!vars, Claims!Trained!memory,
         Claims!Trained!disk
  <2>2. CASE Training
    BY <1>1, <2>2, Zenon DEF Training
  <2> QED
    BY <2>1, <2>2, Zenon DEF Next
<1> QED
  BY <1>1, <1>2, CompletionParameters, Claims!SelectionKept DEF TrainingPartInv

(* What is frozen is the first of the best epochs, and safe if it passed.    *)
THEOREM FrozenStaysBest == Spec => []FrozenIsTheBest
<1>1. TrainingPartInv => FrozenIsTheBest
  <2> SUFFICES ASSUME TrainingPartInv, NEW kind \in Trainings, part = kind
               PROVE  /\ Claims!Trained(kind)!TypeOK /\ Claims!Trained(kind)!FrozenIsTheBest
                      /\ Claims!Trained(kind)!BestFollowsTheLog
                      /\ Claims!Trained(kind)!StopsAreTheirOwn
                      /\ Claims!Trained(kind)!FrozenPassIsSafe
    BY Zenon DEF FrozenIsTheBest
  <2>1. Claims!SelectionInv(kind)
    BY DEF TrainingPartInv
  <2>2. Claims!SelectionHolds(kind)
    BY <2>1, CompletionParameters, Claims!SelectionSays
  <2> QED
    BY <2>2, Zenon DEF Claims!SelectionHolds
<1> QED
  BY <1>1, TrainingInit, TrainingKeeps, PTL DEF Spec
=============================================================================
