---------------------------- MODULE SyncEpisode ----------------------------
(* The blocking baseline of the benchmark (`_run_sync_episode` in            *)
(* src/src/actionstream/benchmark.py): a chunk is inferred when the last one *)
(* is used up, its actions are dispatched one per control tick, and ticks    *)
(* the inference has slept through are skipped and counted.  The same helper *)
(* paces the asynchronous loop, which AsyncBenchmark models without a clock. *)
(*                                                                           *)
(* Time is counted in units; the clock is read once before and once after    *)
(* the pacing, up to MaxJitter apart.  Binary fractions are left out: the    *)
(* code divides floats and may round a tick that is exactly due either way.  *)
EXTENDS Integers, Sequences

CONSTANTS
    Period,        \* of the controller
    Chunk,         \* actions of an inferred chunk
    Horizon,       \* episode_length
    Latencies,     \* of an inference, the injected delay included
    StepTimes,     \* of an environment step
    MaxJitter

SyncAssumption ==
    /\ Period \in Nat \ {0} /\ Chunk \in Nat \ {0} /\ Horizon \in Nat \ {0}
    /\ Latencies \subseteq Nat /\ StepTimes \subseteq Nat /\ MaxJitter \in Nat

VARIABLES
    stage,       \* "loop" (top of the while), "dispatch" or "done"
    now,
    scheduled,   \* the tick of the next action
    epoch,       \* delivery of the first chunk; -1 before
    pending,     \* the actions left: the step of the observation, the offset
    step,        \* step_count
    missed,      \* deadline_misses
    dispatched   \* per action: its tick, its time, its observation and offset

vars == <<stage, now, scheduled, epoch, pending, step, missed, dispatched>>

Init ==
    /\ stage = "loop" /\ now = 0 /\ scheduled = 0 /\ epoch = -1
    /\ pending = <<>> /\ step = 0 /\ missed = 0 /\ dispatched = <<>>

(* The control clock starts when the first chunk is delivered.               *)
Infer(latency) ==
    /\ stage = "loop" /\ step < Horizon /\ pending = <<>>
    /\ now' = now + latency
    /\ pending' = [i \in 1 .. Chunk |-> [observed |-> step, offset |-> i - 1]]
    /\ IF epoch = -1
       THEN epoch' = now' /\ scheduled' = now'
       ELSE UNCHANGED <<epoch, scheduled>>
    /\ UNCHANGED <<stage, step, missed, dispatched>>

Missed == IF now <= scheduled THEN 0 ELSE (now - scheduled) \div Period

Later(a, b) == IF a < b THEN b ELSE a

Pace(jitter) ==
    /\ stage = "loop" /\ pending # <<>> /\ step < Horizon
    /\ missed' = missed + Missed
    /\ scheduled' = scheduled + Missed * Period
    /\ now' = Later(now + jitter, scheduled')
    /\ stage' = "dispatch"
    /\ UNCHANGED <<epoch, pending, step, dispatched>>

NextAction == Head(pending)

(* The step ends the episode by success, termination or truncation, or the   *)
(* next tick is scheduled.                                                   *)
Dispatch(duration, ends) ==
    /\ stage = "dispatch"
    /\ dispatched' = Append(dispatched,
           [tick |-> scheduled, at |-> now, action |-> NextAction])
    /\ pending' = Tail(pending)
    /\ now' = now + duration
    /\ step' = step + 1
    /\ IF ends
       THEN stage' = "done" /\ UNCHANGED scheduled
       ELSE stage' = "loop" /\ scheduled' = scheduled + Period
    /\ UNCHANGED <<epoch, missed>>

Truncate ==
    /\ stage = "loop" /\ step = Horizon
    /\ stage' = "done"
    /\ UNCHANGED <<now, scheduled, epoch, pending, step, missed, dispatched>>

Next ==
    \/ \E latency \in Latencies : Infer(latency)
    \/ \E jitter \in 0 .. MaxJitter : Pace(jitter)
    \/ \E duration \in StepTimes, ends \in BOOLEAN : Dispatch(duration, ends)
    \/ Truncate

Spec == Init /\ [][Next]_vars

-----------------------------------------------------------------------------
TypeOK ==
    /\ stage \in {"loop", "dispatch", "done"}
    /\ {now, scheduled, step, missed} \subseteq Nat /\ epoch \in Nat \cup {-1}
    /\ step \in 0 .. Horizon /\ Len(dispatched) = step /\ Len(pending) <= Chunk

(* Every tick since the first delivery is an action or a counted miss: the   *)
(* rates a row reports (steps, control_deadline_misses) add up to its time,  *)
(* however long the inferences and the steps took.                           *)
TicksAccounted ==
    epoch # -1 /\ stage # "done"
        => scheduled = epoch + Period * (step + missed)

(* An action is dispatched on its tick: never before it, less than a period  *)
(* (and the jitter) after it, and no two on one tick.                        *)
OnItsTick ==
    \A n \in 1 .. Len(dispatched) :
        /\ dispatched[n].at >= dispatched[n].tick
        /\ dispatched[n].at < dispatched[n].tick + Period + MaxJitter
        /\ n > 1 => dispatched[n].tick >= dispatched[n - 1].tick + Period

(* The baseline is open loop and complete: the n-th step executes the action *)
(* meant for it, from an observation at most a chunk old.                    *)
OpenLoopInOrder ==
    \A n \in 1 .. Len(dispatched) :
        LET a == dispatched[n].action IN
        a.observed + a.offset = n - 1 /\ a.observed % Chunk = 0
=============================================================================
