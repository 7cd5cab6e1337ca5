-------------------------- MODULE LatestRequestWorker --------------------------
(***************************************************************************)
(* LatestRequestWorker (runtime.py): one inference thread behind a mailbox *)
(* of one request, and the results it has finished in order, each with the *)
(* time of its delivery.                                                   *)
(*                                                                         *)
(* Every action and every operation is one critical section of _condition. *)
(* The operations are formulas over the worker's variables that a caller   *)
(* conjoins.  The delay to the delivery is constant, so results become due *)
(* in order; "due" is all that is kept of the timestamps.                  *)
(***************************************************************************)
EXTENDS Integers, Sequences, FiniteSets

CONSTANT ChunkLengths    \* lengths of a chunk of final actions

WorkerAssumption == ChunkLengths \subseteq Nat \ {0}

VARIABLES
    pending,     \* the mailbox: a request or NoRequest
    active,      \* the request in inference, or NoRequest
    results,     \* finished and not drained
    error, closed, ended,
    generation,  \* episodes so far, and the id of the episode
    count        \* calls_started and the other counters of the episode

worker == <<pending, active, results, error, closed, ended, generation, count>>

NoRequest == [gen |-> 0, obs |-> -1]
NoCounts == [started |-> 0, completed |-> 0, replaced |-> 0, cancelled |-> 0,
             discarded |-> 0]

WorkerInit ==
    /\ pending = NoRequest /\ active = NoRequest /\ results = <<>>
    /\ error = FALSE /\ closed = FALSE /\ ended = FALSE
    /\ generation = 0 /\ count = NoCounts

(* The first result is due: wait_for_result and drain_results see it. *)
Deliverable == results # <<>> /\ Head(results).due

(* drain_results takes from the head while the head is due. *)
DueCount == CHOOSE n \in 0..Len(results) :
    /\ \A i \in 1..n : results[i].due
    /\ n < Len(results) => ~results[n + 1].due

Due == SubSeq(results, 1, DueCount)

-----------------------------------------------------------------------------
(* Operations of the caller *)

ResetEpisode ==
    /\ generation' = generation + 1
    /\ pending' = NoRequest /\ results' = <<>> /\ error' = FALSE
    /\ count' = NoCounts
    /\ UNCHANGED <<active, closed, ended>>

Submit(obs) ==
    /\ pending' = [gen |-> generation, obs |-> obs]
    /\ count' = IF pending # NoRequest THEN [count EXCEPT !.replaced = @ + 1] ELSE count
    /\ UNCHANGED <<active, results, error, closed, ended, generation>>

DrainDue ==
    /\ results' = SubSeq(results, DueCount + 1, Len(results))
    /\ UNCHANGED <<pending, active, error, closed, ended, generation, count>>

DrainAll ==
    /\ results' = <<>>
    /\ UNCHANGED <<pending, active, error, closed, ended, generation, count>>

CancelPending ==
    /\ pending' = NoRequest
    /\ count' = IF pending # NoRequest THEN [count EXCEPT !.cancelled = @ + 1] ELSE count
    /\ UNCHANGED <<active, results, error, closed, ended, generation>>

Idle == active = NoRequest /\ pending = NoRequest

CloseWorker ==
    /\ closed' = TRUE /\ pending' = NoRequest
    /\ UNCHANGED <<active, results, error, ended, generation, count>>

-----------------------------------------------------------------------------
(* The thread: _run *)

Take ==
    /\ ~ended /\ active = NoRequest /\ pending # NoRequest /\ ~closed
    /\ active' = pending /\ pending' = NoRequest
    /\ count' = [count EXCEPT !.started = @ + 1]
    /\ UNCHANGED <<results, error, closed, ended, generation>>

(* Slip: only the end of an inference is noticed, not whose episode it was. *)
FinishAny ==
    /\ active # NoRequest /\ active' = NoRequest
    /\ \E n \in ChunkLengths :
         results' = Append(results, [gen |-> active.gen, obs |-> active.obs, len |-> n,
                                     due |-> FALSE])
    /\ count' = [count EXCEPT !.completed = @ + 1]
    /\ UNCHANGED <<pending, error, closed, ended, generation>>

Finish ==
    /\ active # NoRequest /\ active' = NoRequest
    /\ IF active.gen = generation
       THEN /\ \E n \in ChunkLengths :
                 results' = Append(results, [gen |-> active.gen, obs |-> active.obs,
                                             len |-> n, due |-> FALSE])
            /\ count' = [count EXCEPT !.completed = @ + 1]
       ELSE count' = [count EXCEPT !.discarded = @ + 1] /\ UNCHANGED results
    /\ UNCHANGED <<pending, error, closed, ended, generation>>

(* The call raises, or its chunk is refused; whatever episode it was of. *)
Fail ==
    /\ active # NoRequest /\ active' = NoRequest
    /\ error' = TRUE
    /\ UNCHANGED <<pending, results, closed, ended, generation, count>>

End ==
    /\ closed /\ ~ended /\ active = NoRequest
    /\ ended' = TRUE
    /\ UNCHANGED <<pending, active, results, error, closed, generation, count>>

(* The delivery time of the oldest result that is not yet due passes. *)
BecomeDue ==
    /\ \E i \in DOMAIN results :
         /\ ~results[i].due /\ \A j \in 1..(i - 1) : results[j].due
         /\ results' = [results EXCEPT ![i].due = TRUE]
    /\ UNCHANGED <<pending, active, error, closed, ended, generation, count>>
=============================================================================
