---------------------------- MODULE EpisodeActions ----------------------------
(***************************************************************************)
(* What the engine promises the control loop, without threads, mailboxes   *)
(* or a response heap: docs/lifecycle_contract.md as a state machine.      *)
(*                                                                         *)
(* An episode is a numbered interval.  While the gate is open the plan may *)
(* be replaced by newer actions of the same episode, taken from the front, *)
(* or, once it is empty, its last action may be repeated a bounded number  *)
(* of times.  Ending an episode destroys the plan before anything else,    *)
(* and the gate only ever opens on an empty plan.                          *)
(***************************************************************************)
EXTENDS Integers, Sequences

CONSTANTS BoundedHold, NoAction

VARIABLES episode, gate, plan, held, repeats

vars == <<episode, gate, plan, held, repeats>>

Nothing == plan = <<>> /\ held = NoAction

Init ==
    /\ episode = 0 /\ gate = "closed"
    /\ plan = <<>> /\ held = NoAction /\ repeats = 0

(* reset() and stop() *)
EndEpisode ==
    /\ episode' = episode + 1 /\ gate' = "closed"
    /\ plan' = <<>> /\ held' = NoAction /\ repeats' = 0

OpenGate ==
    /\ gate = "closed" /\ Nothing
    /\ gate' = "open"
    /\ UNCHANGED <<episode, plan, held, repeats>>

(* The engine turns fatal. *)
Fail ==
    /\ gate = "open" /\ gate' = "closed"
    /\ UNCHANGED <<episode, plan, held, repeats>>

Newer(a, b) == a.src < b.src /\ a.ord < b.ord /\ a.rev <= b.rev

(* One chunk, of this episode, newer than everything planned or done. *)
Commit ==
    /\ gate = "open"
    /\ plan' # <<>>
    /\ \A i \in DOMAIN plan' :
         plan'[i] = [plan'[1] EXCEPT !.idx = @ + i - 1]
    /\ plan'[1].epoch = episode
    /\ \A i \in DOMAIN plan : Newer(plan[i], plan'[1])
    /\ held # NoAction => Newer(held, plan'[1])
    /\ repeats' = 0
    /\ UNCHANGED <<episode, gate, held>>

Take ==
    /\ gate = "open" /\ plan # <<>>
    /\ held' = Head(plan) /\ plan' = Tail(plan) /\ repeats' = 0
    /\ UNCHANGED <<episode, gate>>

Repeat ==
    /\ gate = "open" /\ plan = <<>> /\ held # NoAction
    /\ repeats < BoundedHold /\ repeats' = repeats + 1
    /\ UNCHANGED <<episode, gate, plan, held>>

Next == EndEpisode \/ OpenGate \/ Fail \/ Commit \/ Take \/ Repeat

Spec == Init /\ [][Next]_vars
=============================================================================
