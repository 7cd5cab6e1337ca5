------------------------------ MODULE Dispatcher ------------------------------
(***************************************************************************)
(* A robot writer beside the engine: action packets are fetched with       *)
(* get_action_with_revision, checked with is_action_current and written,   *)
(* while another thread changes the goal, resets and stops.  As            *)
(* lifecycle_contract.md asks of a caller, the check and the write share a *)
(* lock with every goal, reset and stop operation; a fetch does not.       *)
(***************************************************************************)
EXTENDS ActionStreamEngine

VARIABLES
    holder,   \* who holds the caller's lock: "none", "operator", "writer"
    opc,      \* the operator thread
    tpc,      \* the writer thread
    packet,   \* the packet fetched last, or NoAction
    written   \* the packet written last, or NoAction

callerVars == <<holder, opc, tpc, packet, written>>
dvars == <<vars, callerVars>>

DispatchInit ==
    /\ Init
    /\ holder = "none" /\ opc = "idle" /\ tpc = "idle"
    /\ packet = NoAction /\ written = NoAction

operatorFrame == <<tpc, packet, written>>
writerFrame   == <<holder, opc, written>>

(* Slip: the epoch is compared, but not the requested task. *)
EpochOnlyIsCurrent(a) == started /\ EpochIsCurrent(a.epoch)

IsActionCurrent(a) ==
    /\ started /\ EpochIsCurrent(a.epoch)
    /\ a.rev = revision

-----------------------------------------------------------------------------
(* The operator: a goal change is set_task, reset or both. *)

Lock ==
    /\ opc = "idle" /\ holder = "none"
    /\ holder' = "operator" /\ opc' \in {"goal", "call"}
    /\ UNCHANGED <<operatorFrame, vars>>

ChangeGoal ==
    /\ opc = "goal" /\ SetTask
    /\ opc' \in {"call", "unlock"}
    /\ UNCHANGED <<holder, operatorFrame>>

Call ==
    /\ opc = "call" /\ (Start \/ StopBegin \/ ResetBegin)
    /\ opc' = "return"
    /\ UNCHANGED <<holder, operatorFrame>>

Return ==
    /\ opc = "return"
    /\ IF life = "idle"
       THEN opc' = "unlock" /\ UNCHANGED vars
       ELSE LifecycleStep /\ UNCHANGED opc
    /\ UNCHANGED <<holder, operatorFrame>>

Unlock ==
    /\ opc = "unlock"
    /\ opc' = "idle" /\ holder' = "none"
    /\ UNCHANGED <<operatorFrame, vars>>

(* The writer's loop; between a fetch and the lock anything may happen. *)
FetchPacket ==
    /\ tpc = "idle" /\ GetAction /\ (queue # <<>> \/ MayHold)
    /\ packet' = lastAction' /\ tpc' = "lock"
    /\ UNCHANGED writerFrame

LockToWrite ==
    /\ tpc = "lock" /\ holder = "none"
    /\ holder' = "writer" /\ tpc' = "check"
    /\ UNCHANGED <<opc, packet, written, vars>>

CheckPacket ==
    /\ tpc = "check"
    /\ tpc' = IF IsActionCurrent(packet) THEN "write" ELSE "unlock"
    /\ UNCHANGED <<writerFrame, packet, vars>>

Write ==
    /\ tpc = "write"
    /\ written' = packet /\ tpc' = "unlock"
    /\ UNCHANGED <<holder, opc, packet, vars>>

UnlockWritten ==
    /\ tpc = "unlock"
    /\ tpc' = "idle" /\ packet' = NoAction /\ holder' = "none"
    /\ UNCHANGED <<opc, written, vars>>

Operator == Lock \/ ChangeGoal \/ Call \/ Return \/ Unlock
Writer ==
    FetchPacket \/ LockToWrite \/ CheckPacket \/ Write \/ UnlockWritten
EngineSide ==
    (WorkerStep \/ Resume \/ NotifyObservation) /\ UNCHANGED callerVars

DispatchNext == Operator \/ Writer \/ EngineSide

DispatchSpec == DispatchInit /\ [][DispatchNext]_dvars

-----------------------------------------------------------------------------
(* Properties *)

(* What reaches the robot belongs to the running episode and to the task    *)
(* requested last, and never leaves while a reset or a stop is under way:   *)
(* though fetch, check and write are three steps, no goal, reset or stop    *)
(* operation comes between the decision and the write.  Only a failure of   *)
(* the engine's own threads may.                                            *)
Writing == tpc = "write" /\ tpc' = "unlock"
WrittenIsCurrent ==
    [][Writing =>
        /\ packet.epoch = epoch /\ packet.rev = revision
        /\ started /\ ~shutdown /\ ~resetting]_dvars
=============================================================================
