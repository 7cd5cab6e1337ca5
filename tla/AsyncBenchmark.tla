---------------------------- MODULE AsyncBenchmark ----------------------------
(***************************************************************************)
(* The benchmark's control thread (benchmark.py) with its action queue     *)
(* (runtime.py), on top of LatestRequestWorker: run() plays Episodes       *)
(* episodes one after another on one worker.                               *)
(*                                                                         *)
(* An action of a chunk is the control step its chunk was observed at and  *)
(* its place in the chunk.  What the steps see of the world is whether the *)
(* episode is over.  Wall-clock pacing, latencies and the trace file are   *)
(* left out; a wait with a timeout may time out.                           *)
(***************************************************************************)
EXTENDS LatestRequestWorker, FiniteSetsExt

CONSTANTS
    Modes,           \* --mode, one of them per run
    Episodes,        \* tasks times initial states
    EpisodeLength,   \* backend.episode_length
    ReplanInterval,  \* --replan-interval-steps
    Abandons         \* the caller catches an episode's exception and goes on with
                     \* the worker, as the API allows and run() does not

BenchmarkAssumption ==
    /\ Modes \subseteq {"sync", "sync_hold", "async_naive", "async_aligned"}
    /\ Episodes \in Nat /\ EpisodeLength \in Nat /\ ReplanInterval \in Nat \ {0}
    /\ Abandons \in BOOLEAN

VARIABLES
    mode, control,
    step,          \* step_count
    queue, last,   \* ActionQueue: _queue and _last_action
    requested,     \* sync_hold_request_pending
    events,        \* inference_events of the episode
    submitted      \* history: requests submitted in the episode

caller == <<mode, control, step, queue, last, requested, events, submitted>>
vars == <<worker, caller>>

NoAction == [gen |-> 0, obs |-> -1, at |-> -1]

Init ==
    /\ WorkerInit /\ mode \in Modes /\ control = "next"
    /\ step = 0 /\ queue = <<>> /\ last = NoAction /\ requested = FALSE
    /\ events = <<>> /\ submitted = 0

(* The final actions of a result, from place "drop" on. *)
Actions(r, drop) ==
    [i \in 1..(r.len - drop) |-> [gen |-> r.gen, obs |-> r.obs, at |-> drop + i - 1]]

Drop(r) == IF mode = "async_aligned" THEN step - r.obs ELSE 0

(* ActionQueue.replace: what happens to a result. *)
Verdict(r) ==
    IF r.gen # generation THEN "old_episode"
    ELSE IF Drop(r) >= r.len THEN "fully_stale" ELSE "replaced"

Accepting(n) == {i \in 1..n : Verdict(Due[i]) = "replaced"}

(* Each result that is accepted replaces the whole queue: of the first n of a *)
(* drain, the last one counts.                                                *)
QueueAfter(n) ==
    IF Accepting(n) = {} THEN queue
    ELSE LET r == Due[Max(Accepting(n))] IN Actions(r, Drop(r))

MergeDue ==
    [queue  |-> QueueAfter(DueCount),
     events |-> events \o [i \in 1..DueCount |->
                              [obs |-> Due[i].obs, verdict |-> Verdict(Due[i])]]]

(* record_result with merge=True answers the outstanding request. *)
StillRequested == requested /\ Due = <<>>

(* An exception leaves the episode.  run() lets it through and closes the     *)
(* worker.                                                                    *)
Crash ==
    /\ control' = IF Abandons THEN "next" ELSE "closing"
    /\ UNCHANGED <<worker, mode, step, queue, last, requested, events, submitted>>

-----------------------------------------------------------------------------
(* An episode *)

StartEpisode ==
    /\ control = "next" /\ generation < Episodes /\ mode # "sync"
    /\ control' = "first"
    /\ ResetEpisode
    /\ step' = 0 /\ queue' = <<>> /\ last' = NoAction /\ requested' = FALSE
    /\ events' = <<>> /\ submitted' = 0
    /\ UNCHANGED mode

SubmitFirst ==
    /\ control = "first"
    /\ IF error THEN Crash
       ELSE /\ Submit(0) /\ submitted' = 1 /\ requested' = (mode = "sync_hold")
            /\ control' = "awaiting"
            /\ UNCHANGED <<mode, step, queue, last, events>>

(* wait_for_result, then the first drain. *)
FirstChunk ==
    /\ control = "awaiting" /\ ~error /\ Deliverable /\ MergeDue.queue # <<>>
    /\ DrainDue
    /\ queue' = MergeDue.queue /\ events' = MergeDue.events
    /\ requested' = StillRequested
    /\ control' = IF step < EpisodeLength THEN "tick" ELSE "over"
    /\ UNCHANGED <<mode, step, last, submitted>>

(* It times out, finds the worker failed, or the chunk left no action. *)
FirstChunkFails == control = "awaiting" /\ Crash

(* One control tick up to backend.step: drain, merge, pop or hold. *)
Tick ==
    /\ control = "tick"
    /\ IF error THEN Crash
       ELSE /\ DrainDue
            /\ events' = MergeDue.events /\ requested' = StillRequested
            /\ LET q == MergeDue.queue IN
               /\ queue' = IF q = <<>> THEN q ELSE Tail(q)
               /\ last' = IF q = <<>> THEN last ELSE Head(q)
            /\ control' = "stepping"
            /\ UNCHANGED <<mode, step, submitted>>

WantsRequest(s) ==
    IF mode = "sync_hold" THEN queue = <<>> /\ ~requested ELSE s % ReplanInterval = 0

(* backend.step: the world ends the episode, or the loop goes on, with a new  *)
(* request when the mode asks for one.                                        *)
StepEnds ==
    /\ control = "stepping" /\ mode # "sync"
    /\ step' = step + 1 /\ control' = "over"
    /\ UNCHANGED <<worker, mode, queue, last, requested, events, submitted>>

StepGoesOn ==
    /\ control = "stepping" /\ mode # "sync"
    /\ IF WantsRequest(step + 1) /\ error THEN Crash
       ELSE /\ step' = step + 1
            /\ control' = IF step + 1 < EpisodeLength THEN "tick" ELSE "over"
            /\ IF WantsRequest(step + 1)
               THEN /\ Submit(step + 1) /\ submitted' = submitted + 1
                    /\ requested' = (mode = "sync_hold")
               ELSE UNCHANGED <<worker, submitted, requested>>
            /\ UNCHANGED <<mode, queue, last, events>>

StepFails == control = "stepping" /\ Crash

FinishEpisode ==
    /\ control = "over"
    /\ IF error THEN Crash
       ELSE /\ CancelPending /\ control' = "draining"
            /\ UNCHANGED <<mode, step, queue, last, requested, events, submitted>>

(* Slip: the final drain does not wait for the inference in flight. *)
DrainAtOnce ==
    /\ control = "draining" /\ ~error
    /\ DrainAll
    /\ events' = events \o [i \in DOMAIN results |->
                              [obs |-> results[i].obs, verdict |-> "episode_ended"]]
    /\ control' = "recorded"
    /\ UNCHANGED <<mode, step, queue, last, requested, submitted>>

(* wait_idle and drain_all_results: what arrives late is counted, not merged. *)
DrainFinal ==
    /\ control = "draining" /\ Idle /\ ~error
    /\ DrainAll
    /\ events' = events \o [i \in DOMAIN results |->
                              [obs |-> results[i].obs, verdict |-> "episode_ended"]]
    /\ control' = "recorded"
    /\ UNCHANGED <<mode, step, queue, last, requested, submitted>>

(* Slip: the final wait has no timeout. *)
DrainFailsOnError == control = "draining" /\ error /\ Crash

DrainFails == control = "draining" /\ (error \/ ~Idle) /\ Crash

Record ==
    /\ control = "recorded" /\ mode # "sync"
    /\ control' = "next"
    /\ UNCHANGED <<worker, mode, step, queue, last, requested, events, submitted>>

-----------------------------------------------------------------------------
(* mode "sync": no worker; a chunk is inferred whenever the queue is empty *)

SyncStart ==
    /\ mode = "sync" /\ control = "next" /\ generation < Episodes
    /\ control' = IF EpisodeLength > 0 THEN "sync" ELSE "recorded"
    /\ generation' = generation + 1
    /\ step' = 0 /\ queue' = <<>> /\ last' = NoAction
    /\ events' = <<>> /\ submitted' = 0
    /\ UNCHANGED <<mode, requested, pending, active, results, error, closed, ended, count>>

SyncInfer ==
    /\ control = "sync" /\ queue = <<>> /\ step < EpisodeLength
    /\ \E n \in ChunkLengths :
         queue' = Actions([gen |-> generation, obs |-> step, len |-> n], 0)
    /\ submitted' = submitted + 1
    /\ events' = Append(events, [obs |-> step, verdict |-> "replaced"])
    /\ UNCHANGED <<worker, mode, control, step, last, requested>>

SyncStep ==
    /\ control = "sync" /\ queue # <<>> /\ step < EpisodeLength
    /\ last' = Head(queue) /\ queue' = Tail(queue) /\ step' = step + 1
    /\ \/ control' = IF step + 1 < EpisodeLength THEN "sync" ELSE "recorded"
       \/ control' = "recorded"
    /\ UNCHANGED <<worker, mode, requested, events, submitted>>

SyncRecord ==
    /\ control = "recorded" /\ mode = "sync"
    /\ control' = "next"
    /\ UNCHANGED <<worker, mode, step, queue, last, requested, events, submitted>>

SyncFails == control = "sync" /\ Crash

-----------------------------------------------------------------------------
(* run()'s "finally": the worker is closed and joined for a while *)

Close ==
    /\ \/ control = "closing"
       \/ control = "next" /\ generation = Episodes
    /\ control' = "joining"
    /\ IF mode = "sync" THEN UNCHANGED worker ELSE CloseWorker
    /\ UNCHANGED <<mode, step, queue, last, requested, events, submitted>>

Join ==
    /\ control = "joining"
    /\ control' = "exit"
    /\ UNCHANGED <<worker, mode, step, queue, last, requested, events, submitted>>

-----------------------------------------------------------------------------
Control ==
    \/ StartEpisode \/ SubmitFirst \/ FirstChunk \/ FirstChunkFails
    \/ Tick \/ StepEnds \/ StepGoesOn \/ StepFails \/ FinishEpisode \/ DrainFinal \/ DrainFails
    \/ Record \/ SyncStart \/ SyncInfer \/ SyncStep \/ SyncRecord \/ SyncFails \/ Close \/ Join
Inference == (Take \/ Finish \/ Fail \/ End \/ BecomeDue) /\ UNCHANGED caller

Next == Control \/ Inference

Spec == Init /\ [][Next]_vars

(* The control thread runs and its waits end; an inference need not. *)
FairSpec == Spec /\ WF_vars(Control)

-----------------------------------------------------------------------------
(* Types (runtime.py:251-276, 120-135). *)
TypeOK ==
    /\ pending.obs \in -1..EpisodeLength /\ active.obs \in -1..EpisodeLength
    /\ \A i \in DOMAIN results : results[i].due => \A j \in 1..i : results[j].due
    /\ {error, closed, ended, requested} \subseteq BOOLEAN
    /\ step \in 0..EpisodeLength /\ mode \in Modes
    /\ control \in {"next", "first", "awaiting", "tick", "stepping", "over", "draining",
                    "recorded", "sync", "closing", "joining", "exit"}

(* What is queued, held or waiting for its delivery is of the running episode,*)
(* also when an earlier one was abandoned with its inference in flight.       *)
OwnActions ==
    control \notin {"next", "closing", "joining", "exit"} =>
      /\ \A i \in DOMAIN queue : queue[i].gen = generation
      /\ last # NoAction => last.gen = generation
      /\ \A i \in DOMAIN results : results[i].gen = generation

(* A recorded episode has its worker idle and empty, so that its last request *)
(* can neither answer nor fail in the next one (runtime.py:453 sets the error *)
(* of whatever episode is running).                                           *)
IdleWhenRecorded == control = "recorded" => Idle /\ results = <<>> /\ ~error

(* The record accounts for every request: it was overwritten in the mailbox,  *)
(* cancelled at the end, or inferred and its result listed exactly once.      *)
RequestsAccounted ==
    control = "recorded" /\ mode # "sync" =>
      /\ count.started = Len(events) /\ count.completed = Len(events)
      /\ submitted = count.started + count.replaced + count.cancelled

(* In async_aligned the queued actions are those planned for the coming       *)
(* steps, whatever was late, dropped or replaced; in sync they always are.    *)
Aligned ==
    mode \in {"async_aligned", "sync"} /\ control \in {"tick", "stepping", "sync"} =>
      LET next == IF control = "stepping" THEN step + 1 ELSE step
      IN \A i \in DOMAIN queue : queue[i].obs + queue[i].at = next + i - 1

(* sync_hold has at most one request under way and remembers it exactly: it   *)
(* neither asks twice nor forgets to ask.                                     *)
OneHeldRequest ==
    mode = "sync_hold" /\ control \in {"tick", "stepping", "awaiting"} /\ ~error =>
      (IF active # NoRequest THEN 1 ELSE 0) + (IF pending # NoRequest THEN 1 ELSE 0)
        + Len(results) = (IF requested THEN 1 ELSE 0)

(* The first chunk always leaves an action, and from then on there is one to  *)
(* execute or to hold: neither of the two checks against stepping without a   *)
(* safe action (QueueNotReady) can fire.                                      *)
AlwaysSafe ==
    /\ control = "awaiting" /\ ~error /\ Deliverable => MergeDue.queue # <<>>
    /\ control = "tick" => queue # <<>> \/ last # NoAction

(* No result is merged after a newer one: plans only move forward. *)
PlansMoveForward ==
    \A i, j \in DOMAIN events : i < j => events[i].obs < events[j].obs

(* The run ends although an inference may hang or fail at any time. *)
RunEnds == <>(control = "exit")
=============================================================================
