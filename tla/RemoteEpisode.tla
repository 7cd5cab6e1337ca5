---------------------------- MODULE RemoteEpisode ----------------------------
(***************************************************************************)
(* One episode of the remote LIBERO client, libero_rpc_client.py: the      *)
(* control loop of run_episode composed with the engine it drives.  The    *)
(* loop is the engine's only caller; the policy owner runs beside it.      *)
(* The environment is external: a call returns, ends the episode or raises.*)
(***************************************************************************)
EXTENDS ActionStreamEngine

ClientAssumption ==          \* the config run_episode builds
    /\ ~Scheduler
    /\ MaxEpoch >= 2 /\ MaxRevision >= 1

VARIABLES
    lpc,          \* where run_episode is
    status,       \* receipt["status"]
    controlSteps, \* receipt["control_steps"]
    sent          \* the action sent last, and whether it was held

clientVars == <<lpc, status, controlSteps, sent>>
evars == <<vars, clientVars>>

NothingSent == [action |-> NoAction, held |-> FALSE]

EpisodeInit ==
    /\ Init
    /\ lpc = "start" /\ status = "NOT_RUN"
    /\ controlSteps = 0 /\ sent = NothingSent

(* The loop's own next step; the except clause and the finally clause.      *)
GoTo(label) ==
    /\ lpc' = label
    /\ UNCHANGED <<status, controlSteps, sent>>
Raise ==
    /\ lpc' = "stop" /\ status' = "ERROR"
    /\ UNCHANGED <<controlSteps, sent>>

StartEngine  == lpc = "start" /\ Start /\ GoTo("resume")
ResumeEngine == lpc = "resume" /\ Resume /\ GoTo("reset")
ResetEngine  == lpc = "reset" /\ ResetBegin /\ GoTo("resetting")

(* engine.reset() makes the engine fatal exactly when it raises. *)
AwaitReset ==
    /\ lpc = "resetting"
    /\ \/ ResetTransport /\ GoTo("resetting")
       \/ OpenGate /\ IF fatal THEN Raise ELSE GoTo("environment")

(* env.reset(), and the checks of the environment it returns. *)
ResetEnvironment ==
    /\ lpc = "environment"
    /\ GoTo("instruct") \/ Raise
    /\ UNCHANGED vars

(* engine.set_task(instruction) *)
Instruct == lpc = "instruct" /\ SetTask /\ GoTo("observe")

(* The head of the control step: the observation is published. *)
Publish == lpc = "observe" /\ NotifyObservation /\ GoTo("poll")

CheckFailed ==
    /\ lpc = "poll"
    /\ IF fatal THEN Raise ELSE GoTo("fetch")
    /\ UNCHANGED vars

Returned == queue # <<>> \/ MayHold

Fetch ==
    /\ lpc = "fetch" /\ Returned /\ GetAction
    /\ sent' = [action |-> lastAction', held |-> queue = <<>>]
    /\ lpc' = "act"
    /\ UNCHANGED <<status, controlSteps>>

(* get_action returns None: the engine is closed, or it starves. *)
FetchNothing ==
    IF EpochIsCurrent(epoch) THEN ~Returned /\ GetAction ELSE UNCHANGED vars

FetchAgain == lpc = "fetch" /\ FetchNothing /\ GoTo("poll")

WaitTimesOut == lpc = "fetch" /\ FetchNothing /\ Raise

(* env.step(): it raises, or ends the episode, or the loop goes on. *)
Act ==
    /\ lpc = "act"
    /\ \/ Raise
       \/ /\ controlSteps' = controlSteps + 1
          /\ \/ lpc' = "stop" /\ status' = "COMPLETED"
             \/ /\ controlSteps' <= MaxStep
                /\ lpc' = "observe" /\ UNCHANGED status
          /\ UNCHANGED sent
    /\ UNCHANGED vars

(* The finally clause: engine.stop(), whose error is only recorded. *)
StopEngine == lpc = "stop" /\ StopBegin /\ GoTo("stopping")

AwaitStop ==
    /\ lpc = "stopping"
    /\ \/ (StopCancel \/ StopJoin \/ StopClose \/ StopRelease)
          /\ GoTo("stopping")
       \/ OpenGate /\ GoTo("done")

Client ==
    \/ StartEngine \/ ResumeEngine \/ ResetEngine \/ AwaitReset
    \/ ResetEnvironment \/ Instruct \/ Publish \/ CheckFailed
    \/ Fetch \/ FetchAgain \/ WaitTimesOut \/ Act \/ StopEngine \/ AwaitStop

Owner == WorkerStep /\ UNCHANGED clientVars

EpisodeNext == Client \/ Owner

EpisodeSpec == EpisodeInit /\ [][EpisodeNext]_evars

(* The loop and the owner are scheduled, external calls return or raise,    *)
(* and time passes: a loop that keeps polling reaches its wait timeout.     *)
FairEpisode ==
    /\ EpisodeSpec
    /\ WF_evars(Client) /\ WF_evars(Owner)
    /\ SF_evars(WaitTimesOut)

-----------------------------------------------------------------------------
(* Properties *)

EpisodeTypeOK ==
    /\ TypeOK
    /\ lpc \in {"start", "resume", "reset", "resetting", "environment",
                "instruct", "observe", "poll", "fetch", "act", "stop",
                "stopping", "done"}
    /\ status \in {"NOT_RUN", "COMPLETED", "ERROR"}
    /\ controlSteps \in 0..(MaxStep + 1)
    /\ sent.action \in Actions \cup {NoAction} /\ sent.held \in BOOLEAN

(* Without the stale fallback, an action popped in a control step was       *)
(* planned for that step or for the one before it, never ahead and never    *)
(* further behind, whenever the commit came between the step's publication  *)
(* and its fetch.                                                           *)
PlannedFor(a) == a.src + a.idx
LagAtMostOne ==
    lpc = "act" /\ ~sent.held /\ ~LatestOnlyFallback =>
        PlannedFor(sent.action) \in {currentStep - 1, currentStep}

(* What is sent to the environment was computed in this episode and for the *)
(* instruction the environment gave, not for the task the engine was built  *)
(* with, nor before the reset.                                              *)
OwnInstruction ==
    lpc = "act" => sent.action.rev = 1 /\ sent.action.epoch = 1

(* The telemetry written to the receipt is final: whatever stop() left      *)
(* behind, a late thread does not change a counter any more.                *)
ReceiptIsFinal == [][lpc = "done" => UNCHANGED metrics]_evars

(* Every episode ends with a receipt, however the policy fails or starves.  *)
EpisodeEnds == <>(lpc = "done")
=============================================================================
