----------------------------- MODULE StopEpisode -----------------------------
(***************************************************************************)
(* One episode under the completion model: run_episode of                  *)
(* scripts/engineering/completion_acceptance.py (completion_adapt.live     *)
(* runs the same loop), with the simulator's stable truth beside it, the   *)
(* stop and its probe, the replay of the stop from a recording, the labels *)
(* of the challenges, and the gate the episode is held against.            *)
(*                                                                         *)
(* The simulator is taken to be deterministic: without a stop the episode  *)
(* follows `world', the object's instantaneous state at each control, and  *)
(* the model says of each control's images what it says of the             *)
(* recording's.  The live stage asserts this of the initial layout only    *)
(* (completion_acceptance.py:630); it notes whether the rest agrees.       *)
(***************************************************************************)
EXTENDS Integers, Sequences, FiniteSetsExt

CONSTANTS Last,      \* the last control observed (360)
          Policy,    \* controls the policy acts in, the arm holding after (300)
          ChunkLen,  \* actions of a chunk that are executed (30)
          First,     \* the first control with all its images (10)
          Window,    \* controls the truth looks back (window_steps, 10)
          Prime,     \* controls a replayed oracle is primed with (10)
          Confirm,   \* confirmation_controls (10)
          Post,      \* controls of the stop probe (40)
          MaxDelay   \* max_confirmation_delay_s, in controls (40)

EpisodeAssumption ==
    /\ {Last, Policy, First, Window, Prime, MaxDelay} \subseteq Nat
    /\ {ChunkLen, Confirm, Post} \subseteq Nat \ {0}
    /\ Policy <= Last

VARIABLES world,    \* control |-> the object is released, supported and slow
          says,     \* control |-> the model's decision
          model,    \* the model is watching: the episode is not a recording
          pc,       \* "observe", "act", "stop", "over"
          control,
          rows,     \* StableTruth.rows: the last Window + 1 facts
          facts,    \* every instantaneous fact, those after the stop included
          strict,   \* strict_complete of each of them
          started,  \* ContinuousConfirmation.started
          claim,    \* the control that was confirmed
          delta,    \* the controller takes relative actions: hold_mode
          chunk,    \* the control the current chunk was inferred at
          sent      \* the actions executed
vars == <<world, says, model, pc, control, rows, facts, strict, started, claim,
          delta, chunk, sent>>

None == -1
Controls == 0..Last
FirstOf(S) == IF S = {} THEN None ELSE Min(S)

Init ==
    /\ world \in [Controls -> BOOLEAN]
    /\ says \in [First..Last -> {"complete", "unknown"}]
    /\ model \in BOOLEAN
    /\ pc = "observe" /\ control = 0
    /\ rows = <<>> /\ facts = <<>> /\ strict = <<>>
    /\ started = None /\ claim = None
    /\ delta = FALSE /\ chunk = None /\ sent = <<>>

-----------------------------------------------------------------------------
(* StableTruth *)
Pushed(f) ==
    IF Len(rows) = Window + 1 THEN Append(Tail(rows), f) ELSE Append(rows, f)

Stable(window) == Len(window) = Window + 1 /\ \A i \in DOMAIN window : window[i]

SeesTruth(f) ==
    /\ rows' = Pushed(f)
    /\ facts' = Append(facts, f)
    /\ strict' = Append(strict, Stable(rows'))

(* ContinuousConfirmation, on controls that follow one another. *)
Begun == IF says[control] # "complete" THEN None
         ELSE IF started = None THEN control ELSE started
(* Slip: one control later than the gate. *)
ConfirmedLate == says[control] = "complete" /\ control - Begun > Confirm
Confirmed == says[control] = "complete" /\ control - Begun >= Confirm

ModeAtStop == TRUE

(* The top of the loop: the facts, the images and, from First on, the model's
   decision, whose confirmation ends the loop. *)
Watch ==
    /\ model /\ control >= First
    /\ started' = Begun
    /\ IF Confirmed
       THEN claim' = control /\ delta' = ModeAtStop /\ pc' = "stop"
       ELSE pc' = (IF control = Last THEN "over" ELSE "act") /\ UNCHANGED <<claim, delta>>
Record ==
    /\ ~(model /\ control >= First)
    /\ pc' = IF control = Last THEN "over" ELSE "act"
    /\ UNCHANGED <<started, claim, delta>>
Observe ==
    /\ pc = "observe"
    /\ SeesTruth(world[control])
    /\ Watch \/ Record
    /\ UNCHANGED <<world, says, model, control, chunk, sent>>

(* The rest of the loop: an action of the current chunk, or the hold. *)
Act ==
    /\ pc = "act" /\ control < Policy
    /\ chunk' = IF control % ChunkLen = 0 THEN control ELSE chunk
    /\ sent' = Append(sent, [kind |-> "policy", delta |-> delta,
                             at |-> chunk' + (control % ChunkLen)])
    /\ control' = control + 1 /\ pc' = "observe"
    /\ UNCHANGED <<world, says, model, rows, facts, strict, started, claim, delta>>
Settle ==
    /\ pc = "act" /\ control >= Policy
    /\ delta' = (delta \/ control = Policy)
    /\ sent' = Append(sent, [kind |-> "hold", delta |-> delta', at |-> control])
    /\ control' = control + 1 /\ pc' = "observe"
    /\ UNCHANGED <<world, says, model, rows, facts, strict, started, claim, chunk>>

(* After the stop the object does as it does: the truth goes on. *)
Probed == Len(facts) - (claim + 1)
Probe ==
    /\ pc = "stop"
    /\ sent' = Append(sent, [kind |-> "hold", delta |-> delta, at |-> Len(facts) - 1])
    /\ \E f \in BOOLEAN : SeesTruth(f)
    /\ pc' = IF Probed + 1 = Post THEN "over" ELSE "stop"
    /\ UNCHANGED <<world, says, model, control, started, claim, delta, chunk>>

Next == Observe \/ Act \/ Settle \/ Probe
Spec == Init /\ [][Next]_vars

-----------------------------------------------------------------------------
(* What other programs make of a recorded episode.  Facts are counted from
   control 0 there and from 1 in the sequences here. *)

(* predictions and confirmed: the gate over every control of the recording,
   which goes on after a claim. *)
StartedAt[c \in (First - 1)..Last] ==
    IF c < First \/ says[c] # "complete" THEN None
    ELSE IF StartedAt[c - 1] = None THEN c ELSE StartedAt[c - 1]
Claims == {c \in First..Last : StartedAt[c] # None /\ c - StartedAt[c] >= Confirm}

(* stop_probe and challenges: an oracle primed with the controls before the one
   it starts from, the truth of control c. *)
PrimedFrom(start) == Max({0, start - Prime})
PrimedTruth(start, c) ==
    Stable(SubSeq(facts, Max({PrimedFrom(start), c - Window}) + 1, c + 1))

(* episode_metrics and score_episodes, of this episode. *)
FirstTruth == FirstOf({c \in 0..control : strict[c + 1]})
Premature == claim # None /\ ~strict[claim + 1]
Missed == FirstTruth # None /\ (claim = None \/ ~strict[claim + 1])
Delay == IF FirstTruth # None /\ claim # None /\ ~Premature
         THEN claim - FirstTruth ELSE None
PostStable == \A i \in claim + 2..Len(strict) : strict[i]
Passed ==
    /\ ~Premature /\ ~Missed /\ Delay <= MaxDelay
    /\ claim # None => PostStable

(* intervals: the runs of true controls in a loop over the truth and one
   FALSE after it, and whether a claim fell into each. *)
Sentinel == strict \o <<FALSE>>
Scan[n \in 0..Len(Sentinel)] ==
    IF n = 0 THEN [start |-> None, runs |-> <<>>]
    ELSE LET yes == Sentinel[n]  was == Scan[n - 1]
         IN  IF yes THEN [was EXCEPT !.start = IF @ = None THEN n - 1 ELSE @]
             ELSE IF was.start = None THEN was
             ELSE [start |-> None,
                   runs |-> Append(was.runs,
                       [start |-> was.start, end |-> n - 2,
                        detected |-> \E c \in Claims : c \in was.start..(n - 2)])]
Intervals == Scan[Len(Sentinel)].runs

-----------------------------------------------------------------------------
TypeOK ==
    /\ pc \in {"observe", "act", "stop", "over"} /\ control \in Controls
    /\ Len(rows) <= Window + 1
    /\ Len(facts) = Len(strict) /\ Len(facts) <= Last + 1 + Post
    /\ started \in {None} \union First..Last /\ claim \in {None} \union First..Last
    /\ delta \in BOOLEAN /\ chunk \in {None} \union Controls

(* The truth of a control is that of the whole history: the object has been
   still for Window + 1 controls, none missing, and the stop does not begin
   the history anew. *)
TruthIsOfTheHistory ==
    \A i \in DOMAIN strict :
        strict[i] <=> i > Window /\ \A j \in (i - Window)..i : facts[j]

(* The live episode stops exactly where the gate, run over the recording of
   the same episode, first claims; and it does not stop otherwise. *)
LiveAgreesWithRecording ==
    /\ claim # None => claim = FirstOf(Claims)
    /\ pc = "over" /\ model => (claim = None <=> Claims = {})

(* The arm holds only with relative actions, where zero means stay, and the
   policy's absolute actions never meet a controller that adds them up; each
   is the action the newest chunk has for that control. *)
HoldIsRelative ==
    \A i \in DOMAIN sent :
        /\ sent[i].delta <=> sent[i].kind = "hold"
        /\ sent[i].at = i - 1

(* An oracle primed from the recording tells what the one that saw the whole
   episode told, for the stop's probe and for every start of a challenge. *)
PrimedAgrees ==
    pc = "over" =>
        \A start \in 0..(Len(facts) - 1) : \A c \in start..(Len(facts) - 1) :
            PrimedTruth(start, c) = strict[c + 1]

(* An episode that passes its gate and in which the object came to rest was
   stopped while it rested, soon, and it rested to the end of the probe. *)
PassedIsSafe ==
    pc = "over" /\ model /\ Passed =>
        /\ FirstTruth # None => claim # None /\ claim - FirstTruth \in 0..MaxDelay
        /\ claim # None => \A i \in (claim + 1 - Window)..Len(facts) : facts[i]

(* The intervals of a recording are the maximal runs of its truth, in order,
   each detected exactly when the gate claims inside it. *)
IntervalsAreMaximal ==
    pc = "over" /\ ~model =>
        /\ \A i \in 1..(Len(Intervals) - 1) : Intervals[i].end + 1 < Intervals[i + 1].start
        /\ \A c \in Controls : strict[c + 1] <=>
             \E i \in DOMAIN Intervals : c \in Intervals[i].start..Intervals[i].end
        /\ \A i \in DOMAIN Intervals : Intervals[i].detected <=>
             \E c \in Claims : c >= Intervals[i].start /\ c <= Intervals[i].end
=============================================================================
