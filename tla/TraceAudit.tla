------------------------------ MODULE TraceAudit ------------------------------
(***************************************************************************)
(* What the benchmark writes down about an episode, and the report that    *)
(* later refuses a matrix for a single row or trace that does not agree    *)
(* with itself (m4_report.py).  The two were written apart: every check of *)
(* the report is a claim about the loop of AsyncBenchmark.  The loop meets *)
(* all of them but one, HoldsPass, which an episode that ends with its     *)
(* last request still in the mailbox does not.                             *)
(*                                                                         *)
(* The trace is kept as the loop writes it: the queue before and after     *)
(* each action, what was executed, the queue at each request and before    *)
(* each merge, and the counters of the action queue.  Timestamps, action   *)
(* values and percentiles are left out.                                    *)
(***************************************************************************)
EXTENDS AsyncBenchmark

VARIABLES
    trace,     \* one entry per dispatched action
    asked,     \* control step of a request -> queue_depth_at_request_steps
    merges,    \* beside each event: its merge telemetry, or NotMerged
    counted    \* ActionQueue's hold_steps and stale_chunks_discarded

written == <<trace, asked, merges, counted>>
auditVars == <<vars, written>>

NotMerged == [step |-> -1, before |-> -1]
NoCounted == [holds |-> 0, stale |-> 0]

AuditInit ==
    /\ Init
    /\ trace = <<>> /\ asked = <<>> /\ merges = <<>> /\ counted = NoCounted

(* The queue that each merge of a drain finds. *)
MergeTelemetry ==
    [i \in 1..DueCount |-> [step |-> step, before |-> Len(QueueAfter(i - 1))]]

StaleNow == Cardinality({i \in DOMAIN Due : Verdict(Due[i]) = "fully_stale"})

Opened ==
    /\ StartEpisode
    /\ trace' = <<>> /\ asked' = <<>> /\ merges' = <<>> /\ counted' = NoCounted

Requesting ==
    /\ SubmitFirst \/ StepGoesOn
    /\ asked' = IF submitted' > submitted
                THEN [s \in DOMAIN asked \cup {step'} |->
                        IF s = step' THEN Len(queue) ELSE asked[s]]
                ELSE asked
    /\ UNCHANGED <<trace, merges, counted>>

FirstMerge ==
    /\ FirstChunk
    /\ merges' = merges \o MergeTelemetry
    /\ counted' = [counted EXCEPT !.stale = @ + StaleNow]
    /\ UNCHANGED <<trace, asked>>

Dispatching ==
    /\ Tick
    /\ IF error THEN UNCHANGED written
       ELSE LET q == MergeDue.queue
                held == q = <<>>
            IN /\ merges' = merges \o MergeTelemetry
               /\ trace' = Append(trace, [before |-> Len(q), after |-> Len(queue'),
                                          held |-> held, action |-> last'])
               /\ counted' = [holds |-> counted.holds + (IF held THEN 1 ELSE 0),
                              stale |-> counted.stale + StaleNow]
               /\ UNCHANGED asked

Draining ==
    /\ DrainFinal
    /\ merges' = merges \o [i \in DOMAIN results |-> NotMerged]
    /\ UNCHANGED <<trace, asked, counted>>

Unwritten ==
    /\ \/ FirstChunkFails \/ StepEnds \/ StepFails \/ FinishEpisode \/ DrainFails
       \/ Record \/ Close \/ Join \/ Inference
    /\ UNCHANGED written

AuditNext ==
    Opened \/ Requesting \/ FirstMerge \/ Dispatching \/ Draining \/ Unwritten

AuditSpec == AuditInit /\ [][AuditNext]_auditVars

-----------------------------------------------------------------------------
(* The report's checks *)

Events(verdicts) == Cardinality({i \in DOMAIN events : events[i].verdict \in verdicts})

Accepted(i) == events[i].verdict = "replaced"

(* validate_episode_matrix: the row of the episode. *)
RowPasses ==
    /\ step \in 1..EpisodeLength
    /\ count.started > 0
    /\ Events({"old_episode"}) = 0 /\ count.discarded = 0

(* validate_m4_traces: one entry per step, and the holds the queue counted. *)
StepsPass ==
    /\ Len(trace) = step
    /\ Cardinality({i \in DOMAIN trace : trace[i].held}) = counted.holds
    /\ \A i \in DOMAIN trace : trace[i].before >= 0 /\ trace[i].after >= 0

(* Each event was asked for, and is merged in the episode or ended by it. *)
EventPasses(i) ==
    /\ events[i].obs \in DOMAIN asked /\ asked[events[i].obs] >= 0
    /\ IF merges[i] = NotMerged THEN events[i].verdict = "episode_ended"
       ELSE /\ merges[i].step >= 0
            /\ Accepted(i) => merges[i].step < step

EventsPass == events # <<>> /\ \A i \in DOMAIN events : EventPasses(i)

(* The events add up to the counters of the row. *)
TotalsPass ==
    /\ Len(events) = count.started
    /\ Events({"fully_stale"}) = counted.stale

(* sync_hold is stop-and-wait: it steps after exactly one first chunk, asks   *)
(* and merges only when exhausted, and repeats the last command meanwhile.    *)
StopAndWaitPasses ==
    /\ Cardinality({i \in DOMAIN events : Accepted(i) /\ merges[i].step = 0}) = 1
    /\ \A i \in DOMAIN events :
         /\ asked[events[i].obs] = 0
         /\ merges[i] # NotMerged => Accepted(i) /\ merges[i].before = 0
    /\ \A i \in DOMAIN trace :
         IF trace[i].held
         THEN /\ i > 1 /\ trace[i].before = 0 /\ trace[i].after = 0
              /\ trace[i].action = trace[i - 1].action
         ELSE trace[i].before > 0 /\ trace[i].after = trace[i].before - 1

(* The control steps at which a hold begins: trace[s + 1] is that of step s.  *)
HoldStart(s) == trace[s + 1].held /\ (s > 0 => ~trace[s].held)
HoldStarts == {s \in 0..(Len(trace) - 1) : HoldStart(s)}

(* request_steps: the report knows of a request by its event. *)
RequestSteps == {events[i].obs : i \in DOMAIN events} \ {0}

(* A hold begins with a request ("has a hold without an exhaustion request"). *)
HoldsPass == HoldStarts \subseteq RequestSteps

-----------------------------------------------------------------------------
(* What the loop records passes the report: no race of a result with a merge, *)
(* a hold, or the end of the episode leaves a row that contradicts its trace. *)
RecordedPasses ==
    control = "recorded" => RowPasses /\ StepsPass /\ EventsPass /\ TotalsPass

(* Every hold was asked for as it began; the request has an event, unless it  *)
(* was the last of the episode and cancelled in the mailbox by its end.       *)
HoldsAskedFor ==
    \A s \in HoldStarts :
      /\ s > 0 /\ s \in DOMAIN asked
      /\ \/ s \in RequestSteps
         \/ count.cancelled > 0 /\ \A t \in DOMAIN asked : t <= s

(* In sync_hold a recorded episode is stop-and-wait, as the report demands:   *)
(* all of it but HoldsPass, which holds when no request was cancelled.        *)
RecordedStopAndWait ==
    control = "recorded" /\ mode = "sync_hold" => StopAndWaitPasses /\ HoldsAskedFor

(* The check of the report that the loop does not meet.                       *)
RecordedHoldsPass == control = "recorded" /\ mode = "sync_hold" => HoldsPass
=============================================================================
