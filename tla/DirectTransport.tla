---------------------------- MODULE DirectTransport ----------------------------
(***************************************************************************)
(* DirectInferenceTransport (inference_transport.py): inference in the     *)
(* caller's thread.  Nothing can interrupt it; an invalidated call runs to *)
(* its end and is then discarded.  "epoch" is the caller's (the engine's): *)
(* the event of a call is set when the epoch moves on.                     *)
(***************************************************************************)
EXTENDS Integers

CONSTANTS
    Callers,         \* threads that call infer_cancellable()
    MaxGeneration    \* bound: resets, cancels and closes

DirectAssumption == MaxGeneration \in Nat

VARIABLES
    generation,
    sample,       \* the call whose latency is shown: its generation, or None
    epoch,        \* external, see above
    pc, call      \* per caller: the epoch and the generation of its call

vars == <<generation, sample, epoch, pc, call>>

None == -1
NoCall == [epoch |-> 0, gen |-> 0]

Init ==
    /\ generation = 0 /\ sample = None /\ epoch = 0
    /\ pc = [t \in Callers |-> "idle"] /\ call = [t \in Callers |-> NoCall]

EventSet(t) == call[t].epoch < epoch

(* The call gets the event of the epoch; it may reach the transport later. *)
Begin(t) ==
    /\ pc[t] = "idle"
    /\ call' = [call EXCEPT ![t] = [NoCall EXCEPT !.epoch = epoch]]
    /\ pc' = [pc EXCEPT ![t] = "entering"]
    /\ UNCHANGED <<generation, sample, epoch>>

Leave(t) ==
    /\ call' = [call EXCEPT ![t] = NoCall]
    /\ pc' = [pc EXCEPT ![t] = "idle"]

Enter(t) ==
    /\ pc[t] = "entering"
    /\ IF EventSet(t) THEN Leave(t)
       ELSE /\ call' = [call EXCEPT ![t].gen = generation]
            /\ pc' = [pc EXCEPT ![t] = "computing"]
    /\ UNCHANGED <<generation, sample, epoch>>

(* The callable raises, or returns and the latency is recorded. *)
Raises(t) ==
    /\ pc[t] = "computing" /\ Leave(t)
    /\ UNCHANGED <<generation, sample, epoch>>

Returns(t) ==
    /\ pc[t] = "computing"
    /\ sample' = IF call[t].gen = generation /\ ~EventSet(t) THEN call[t].gen ELSE sample
    /\ pc' = [pc EXCEPT ![t] = "returned"]
    /\ UNCHANGED <<generation, epoch, call>>

(* Cancelled, past its advisory deadline, or the result. *)
Concludes(t) ==
    /\ pc[t] = "returned" /\ Leave(t)
    /\ UNCHANGED <<generation, sample, epoch>>

Invalidate ==
    /\ epoch < MaxGeneration /\ epoch' = epoch + 1
    /\ UNCHANGED <<generation, sample, pc, call>>

(* cancel() and close() are reset(). *)
Reset ==
    /\ generation < MaxGeneration
    /\ generation' = generation + 1 /\ sample' = None
    /\ UNCHANGED <<epoch, pc, call>>

Next ==
    \/ \E t \in Callers : Begin(t) \/ Enter(t) \/ Raises(t) \/ Returns(t) \/ Concludes(t)
    \/ Invalidate \/ Reset

Spec == Init /\ [][Next]_vars

-----------------------------------------------------------------------------
(* The latency shown is of a call begun after the last reset: a call that a   *)
(* reset overtakes, with its event set or not yet, never writes its own back. *)
SampleIsCurrent == sample # None => sample = generation
=============================================================================
