------------------------------ MODULE Execution ------------------------------
(***************************************************************************)
(* The language-conditioned execution of one accepted task: the generation *)
(* and budget machine Execution of llm_vla/contracts.py, the controller    *)
(* integration.execute that drives it, the journal of NativePort           *)
(* (native_adapter.py) and the independent score_native of the two logs.   *)
(*                                                                         *)
(* The controller is one thread.  What a test hardly reaches is the order  *)
(* of verdicts, interruption, native boundary and budget, and a failure    *)
(* between any two of its calls.  Simulator, VLA and checker are external: *)
(* they answer anything, take too long, or raise.                          *)
(***************************************************************************)
EXTENDS Integers, Sequences, FiniteSets, SequencesExt

CONSTANTS
    MaxSteps,   \* max_steps, the total control budget
    Chunk       \* the length of a chunk, and of the interval between checks

BudgetAssumption == MaxSteps \in Nat \ {0} /\ Chunk \in Nat \ {0}

VARIABLES
    interruptAt,  \* interruption_step; 0 for none
    pc,           \* where execute is
    run,          \* the Execution object
    obs,          \* the current observation
    boundary,     \* the last step was terminated or truncated
    physical,     \* calls of backend.step: what the robot really did
    oracle,       \* oracle_trace.jsonl
    checks        \* the "checker" rows of runtime_trace.jsonl

vars == <<interruptAt, pc, run, obs, boundary, physical, oracle, checks>>

Verdicts == {"complete", "incomplete", "unknown"}
NoObservation == [id |-> 0, rev |-> 0]

Init ==
    /\ interruptAt \in 0..MaxSteps
    /\ pc = "start"
    /\ run = [status |-> "accepted", steps |-> 0, revision |-> 0,
              recoveries |-> 0, pending |-> <<>>, chunkRevision |-> -1]
    /\ obs = NoObservation /\ boundary = FALSE
    /\ physical = 0 /\ oracle = <<>> /\ checks = <<>>

(* The except clause of execute: whatever was raised, the run is over. *)
Fail ==
    /\ pc' = "end"
    /\ run' = [run EXCEPT !.pending = <<>>, !.status = "ERROR"]

-----------------------------------------------------------------------------
(* The port *)

(* NativePort.project: a new identity, bound to the revision of its request. *)
Project == [id |-> obs.id + 1, rev |-> run'.revision]

(* validate_current, the age left to the callers: a slow call fails. *)
Current(o) == o.rev = run.revision

StepReturned(k) == [event |-> "step_returned", step |-> k]
ScoredStep(k, o, success) ==
    [event |-> "scored_step", step |-> k, obs |-> o, success |-> success]
Refreshed(k, o) == [event |-> "refresh_identity", step |-> k, obs |-> o]

Start ==
    /\ pc = "start"
    /\ \/ Fail /\ UNCHANGED obs
       \/ /\ pc' = "loop" /\ UNCHANGED run
          /\ obs' = Project
    /\ UNCHANGED <<interruptAt, boundary, physical, oracle, checks>>

Continues == run.status \in {"accepted", "executing"} /\ run.steps < MaxSteps

(* Execution.queue; infer, the shape check and the age check may raise. *)
Infer ==
    /\ pc = "loop" /\ Continues /\ run.pending = <<>>
    /\ \/ Fail
       \/ /\ Current(obs)
          /\ run' = [run EXCEPT
                       !.pending = [k \in 1..Chunk |-> obs.id],
                       !.chunkRevision = run.revision,
                       !.status = "executing"]
          /\ UNCHANGED pc
    /\ UNCHANGED <<interruptAt, obs, boundary, physical, oracle, checks>>

(* Execution.take_action: the guard, and the reservation before the call. *)
Authorized ==
    /\ run.status = "executing" /\ run.chunkRevision = run.revision
    /\ run.steps < MaxSteps /\ run.pending # <<>>

Taken == [run EXCEPT !.steps = @ + 1, !.pending = Tail(@)]

MustCheck(interrupted, ended) ==
    interrupted \/ ended \/ run'.steps % Chunk = 0 \/ run'.steps = MaxSteps

(* take_action and NativePort.step: the step is refused, raises half-way,   *)
(* raises after it was logged, or returns an observation and a boundary.    *)
Control ==
    /\ pc = "loop" /\ Continues /\ run.pending # <<>>
    /\ \/ /\ ~Authorized
          /\ Fail /\ UNCHANGED <<obs, boundary, physical, oracle>>
       \/ /\ Authorized
          /\ run' = [Taken EXCEPT !.status = "ERROR", !.pending = <<>>]
          /\ pc' = "end"
          /\ \/ UNCHANGED <<physical, oracle>>
             \/ /\ physical' = physical + 1
                /\ oracle' \in {oracle, Append(oracle, StepReturned(physical'))}
          /\ UNCHANGED <<obs, boundary>>
       \/ /\ Authorized
          /\ run' = Taken
          /\ physical' = physical + 1
          /\ obs' = Project
          /\ boundary' \in BOOLEAN
          /\ \E success \in BOOLEAN :
               oracle' = oracle \o <<StepReturned(physical'),
                                     ScoredStep(physical', obs', success)>>
          /\ LET interrupted == interruptAt = run'.steps /\ ~boundary'
             IN  pc' = IF interrupted THEN "interrupt"
                       ELSE IF MustCheck(interrupted, boundary') THEN "check"
                       ELSE "loop"
    /\ UNCHANGED <<interruptAt, checks>>

(* Execution.interrupt *)
Interrupted == [run EXCEPT !.pending = <<>>, !.chunkRevision = -1,
                           !.revision = @ + 1, !.status = "interrupted"]

(* The interruption and the refreshed observation of the same state. *)
Interrupt ==
    /\ pc = "interrupt"
    /\ \/ Fail /\ UNCHANGED <<obs, oracle>>
       \/ /\ run.status = "executing" /\ run.recoveries = 0
          /\ run' = Interrupted
          /\ obs' = Project
          /\ oracle' = Append(oracle, Refreshed(physical, obs'))
          /\ pc' = "check"
    /\ UNCHANGED <<interruptAt, boundary, physical, checks>>

(* Execution.apply_check on the checker's decision. *)
Verdict(decision) ==
    CASE decision = "complete" -> "complete"
      [] decision = "unknown" -> "unknown_stop"
      [] decision = "incomplete" /\ boundary -> "native_boundary_stop"
      [] decision = "incomplete" /\ ~boundary /\ run.steps >= MaxSteps
           -> "control_cap_stop"
      [] OTHER -> "executing"

Recovers(decision) ==
    run.status = "interrupted" /\ Verdict(decision) = "executing"

(* Slip: a check leaves the rest of the chunk in place. *)
JudgeKeepingChunk(decision) ==
    run' = [run EXCEPT !.status = Verdict(decision),
                       !.recoveries = @ + (IF Recovers(decision) THEN 1 ELSE 0)]

Judge(decision) ==
    run' = [run EXCEPT !.pending = <<>>, !.chunkRevision = -1,
                       !.status = Verdict(decision),
                       !.recoveries = @ + (IF Recovers(decision) THEN 1 ELSE 0)]

(* validate_current, the checker, its row in the journal and apply_check;   *)
(* the checker or the age check after it may raise.                         *)
Check ==
    /\ pc = "check"
    /\ \/ Fail /\ UNCHANGED checks
       \/ /\ Current(obs)
          /\ \E decision \in Verdicts :
               /\ checks' = Append(checks, [step |-> run.steps, obs |-> obs,
                                            decision |-> decision])
               /\ \/ Judge(decision) /\ pc' = "loop"
                  \/ Fail
    /\ UNCHANGED <<interruptAt, obs, boundary, physical, oracle>>

(* The loop is left, and the record is written with the status of the run. *)
End ==
    /\ pc = "loop" /\ ~Continues
    /\ pc' = "end"
    /\ UNCHANGED <<interruptAt, run, obs, boundary, physical, oracle, checks>>

(* The record has been emitted; the controller has returned. *)
Returned == pc = "end" /\ UNCHANGED vars

Next ==
    \/ Start \/ Infer \/ Control \/ Interrupt \/ Check \/ End
    \/ Returned

Spec == Init /\ [][Next]_vars

-----------------------------------------------------------------------------
(* score_native *)

Places(event) == {n \in DOMAIN oracle : oracle[n].event = event}
Rows(event) == {oracle[n] : n \in Places(event)}
Truth(k) == {r \in Rows("scored_step") : r.step = k}

(* The one refresh that gave the state another identity. *)
Refreshes(c) ==
    {n \in Places("refresh_identity") : oracle[n].step = c.step /\ oracle[n].obs = c.obs}

Identity(c) ==
    \/ \E t \in Truth(c.step) : t.obs = c.obs
    \/ Truth(c.step) # {} /\ Cardinality(Refreshes(c)) = 1

CompleteLog ==
    /\ run.status # "ERROR"
    /\ Cardinality(Places("step_returned")) = run.steps
    /\ {r.step : r \in Rows("scored_step")} = 1..run.steps
    /\ \A c \in ToSet(checks) : Identity(c)

FalseClaims ==
    {c \in ToSet(checks) :
        c.decision = "complete" /\ ~\E t \in Truth(c.step) : t.success}
ScorePasses == CompleteLog /\ FalseClaims = {}

-----------------------------------------------------------------------------
(* Properties *)

Final == {"complete", "unknown_stop", "native_boundary_stop",
          "control_cap_stop", "ERROR"}
TypeOK ==
    /\ interruptAt \in 0..MaxSteps
    /\ pc \in {"start", "loop", "interrupt", "check", "end"}
    /\ run.status \in {"accepted", "executing", "interrupted"} \cup Final
    /\ run.steps \in 0..MaxSteps /\ run.revision \in 0..1
    /\ run.recoveries \in 0..run.revision /\ Len(run.pending) <= Chunk
    /\ obs.rev \in 0..run.revision

(* The budget bounds what the robot really does: a control that raises has  *)
(* been paid for, whatever it did, and none is repeated for free.           *)
PaidControls == physical <= run.steps /\ run.steps <= physical + 1

(* Between two verdicts the robot never moves by more than one chunk, also  *)
(* after an interruption has shifted chunks against the check interval.     *)
LastChecked == IF checks = <<>> THEN 0 ELSE Last(checks).step
CheckedOften == physical <= LastChecked + Chunk

(* An action that is executed comes from an inference made since the last   *)
(* verdict and the last interruption: nothing planned before either runs on.*)
MadeSince(id) ==
    /\ checks # <<>> => id >= Last(checks).obs.id
    /\ \A r \in Rows("refresh_identity") : id >= r.obs.id
PlannedSinceCheck ==
    [][physical' > physical => MadeSince(Head(run.pending))]_vars

(* No control is issued to an environment that has already ended its        *)
(* episode, or after a verdict other than incomplete.                       *)
NothingAfterTheEnd ==
    [][physical' > physical =>
        /\ ~boundary
        /\ checks # <<>> => Last(checks).decision = "incomplete"]_vars

(* Completion is declared by a verdict on the state the robot is in when    *)
(* the run ends: the observation judged is the last one, and no control     *)
(* came after it.                                                           *)
CompleteIsChecked ==
    run.status = "complete" =>
        /\ Last(checks).decision = "complete"
        /\ Last(checks).obs = obs /\ Last(checks).step = physical

(* A run that ends without an error has been decided, and the two logs it   *)
(* left behind agree row by row: the score fails only for a false claim.    *)
EndsDecided ==
    pc = "end" =>
        /\ run.status \in Final
        /\ run.status # "ERROR" => CompleteLog

(* A passing score is honest: all controls the robot made are in the log,   *)
(* and a run that claims completion ended in success.                       *)
PassIsHonest ==
    pc = "end" /\ ScorePasses =>
        /\ Cardinality(Places("scored_step")) = physical
        /\ run.status = "complete" =>
             \E t \in Truth(physical) : t.success
=============================================================================
