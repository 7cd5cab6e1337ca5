---------------------------- MODULE Confirmation ----------------------------
(***************************************************************************)
(* ContinuousConfirmation of llm_vla/confirmation.py, fed one decision per *)
(* control by a stream that may skip controls, and episode_metrics over    *)
(* the claims it makes.  The incremental class is compared with what its   *)
(* docstring promises of the whole history, and the metrics with the       *)
(* truth of the episode.                                                   *)
(***************************************************************************)
EXTENDS Integers, Sequences, FiniteSets, FiniteSetsExt

CONSTANTS
    Window,      \* window_controls
    MaxControl   \* bound: the last control of an episode

WindowAssumption == Window \in Nat \ {0} /\ MaxControl \in Nat

VARIABLES
    last,      \* last_control, or None
    started,   \* the first control of the running interval, or None
    decided,   \* the decisions given so far: a function of their controls
    claimed,   \* the controls at which update returned True
    truth      \* the evaluator's truth of each control

vars == <<last, started, decided, claimed, truth>>

None == -1
Decisions == {"complete", "incomplete", "unknown"}
Controls == 0..MaxControl
NoDecisions == [c \in {} |-> "unknown"]

Init ==
    /\ last = None /\ started = None
    /\ decided = NoDecisions /\ claimed = {}
    /\ truth \in [Controls -> BOOLEAN]

(* Slip: a missing control does not clear the candidate. *)
GapForgiven(control) == started

(* The candidate that is left once gaps have been accounted for. *)
Candidate(control) ==
    IF last # None /\ control # last + 1 THEN None ELSE started

StartedAt(control, decision) ==
    IF decision # "complete" THEN None
    ELSE IF Candidate(control) = None THEN control ELSE Candidate(control)

Confirms(control, decision) ==
    decision = "complete" /\ control - StartedAt(control, decision) >= Window

(* update, for a control the stream did not skip; an earlier one raises. *)
Update(control, decision) ==
    /\ control > last
    /\ last' = control
    /\ started' = StartedAt(control, decision)
    /\ decided' = [c \in DOMAIN decided \cup {control} |->
                     IF c = control THEN decision ELSE decided[c]]
    /\ claimed' = IF Confirms(control, decision)
                  THEN claimed \cup {control} ELSE claimed
    /\ UNCHANGED truth

Next == \E control \in Controls, decision \in Decisions :
            Update(control, decision)

Spec == Init /\ [][Next]_vars

-----------------------------------------------------------------------------
(* episode_metrics over the episode up to control n. *)

FirstOf(S) == IF S = {} THEN None ELSE Min(S)

FirstTruth == FirstOf({c \in Controls : truth[c]})
FirstClaim == FirstOf(claimed)
FirstCorrect == FirstOf({c \in claimed : truth[c]})
PrematureStop == FirstClaim # None /\ ~truth[FirstClaim]
MissedEvent == FirstTruth # None /\ FirstCorrect = None

Delay ==
    IF FirstTruth # None /\ FirstClaim # None /\ ~PrematureStop
    THEN FirstClaim - FirstTruth ELSE None

-----------------------------------------------------------------------------
(* Properties *)

(* A claim needs positive evidence for every control of an interval ending   *)
(* there: the last Window controls and the one before them, none skipped.    *)
(* It is given exactly then, also after gaps, doubts and revocations.        *)
Evidence(c) ==
    c >= Window /\ \A k \in (c - Window)..c :
        k \in DOMAIN decided /\ decided[k] = "complete"
ClaimsAreContinuous ==
    claimed = {c \in DOMAIN decided : Evidence(c)}

(* The candidate's interval lies in the history and is all positive; there   *)
(* is none after a doubt.                                                    *)
CandidateIsEvidence ==
    /\ last = None <=> DOMAIN decided = {}
    /\ started # None =>
         /\ started <= last
         /\ \A k \in started..last :
              k \in DOMAIN decided /\ decided[k] = "complete"
    /\ started = None /\ last # None => decided[last] # "complete"

(* A stop is premature exactly when the robot would have stopped before the  *)
(* truth held there, whatever was claimed later; a delay is reported only    *)
(* for a first stop that was right, and it is never negative.                *)
SafetyOfFirstStop ==
    LET stop == CHOOSE c \in claimed : \A d \in claimed : c <= d
    IN  /\ PrematureStop <=> claimed # {} /\ ~truth[stop]
        /\ Delay # None => ~PrematureStop /\ Delay >= 0 /\ truth[stop]
        /\ MissedEvent => \A c \in claimed : ~truth[c]
        /\ claimed # {} /\ ~PrematureStop => FirstCorrect = stop
=============================================================================
