---------------------------- MODULE VisualResearch ----------------------------
(***************************************************************************)
(* The offline research phases (llm_vla/research_runner.py) and what is    *)
(* made of their receipts: the evidence phase asks the model about every   *)
(* image, its mirror and a copy with the proposed target masked, and       *)
(* decides by rule (visual_evidence.py); visual_replay.py decides it all   *)
(* again from the calls; research_scoring.py gives the verdict.  The       *)
(* coverage phase asks once about every request.                           *)
(*                                                                         *)
(* A reply about a view is [rel, box, sure]: the relation claimed, where   *)
(* the proposed boxes lie, and whether both objects are identified, seen   *)
(* and look like the references.  A reply about a masked view is [rel,     *)
(* seen].  Pixels are the observation and what was done to it.             *)
(***************************************************************************)
EXTENDS Naturals, Sequences, FiniteSets, SequencesExt

CONSTANTS
    Phase,          \* "evidence" or "coverage"
    Observations,   \* ids in order; requests in the coverage phase
    Streams,        \* id -> stream
    Times,          \* possible timestamps of the observations: [id -> Nat]
    Anchors,        \* sequence of [current, earlier]
    Interventions,  \* sequence of the causal variants; the first is "real"
    Replies,        \* [original, flipped, masked: sets of replies]
    Truth,          \* id -> its label: the task is done, the request supported
    MinPositives, MinNegatives,
    MinCoverage     \* percent of the labelled ones that must be decided (80)

ResearchAssumption ==
    /\ Phase \in {"evidence", "coverage"}
    /\ {MinPositives, MinNegatives, MinCoverage} \subseteq Nat

VARIABLES
    time,        \* the observations' timestamps
    pc,          \* "load", "call", "closed", "killed"
    status,      \* of the receipt
    cases,       \* its calls: [id, variant, input, ok, raw, differs, timeout]
    previous,    \* EvidenceHistory.previous: stream -> [ns, status]
    verified     \* its verified observations: [id, status, at]
vars == <<time, pc, status, cases, previous, verified>>

Views == 1..2
Malformed == <<>>
Variants == <<"original", "flipped", "masked">>

Init ==
    /\ time \in Times
    /\ pc = "load" /\ status = "RUNNING"
    /\ cases = <<>> /\ verified = <<>>
    /\ previous = [s \in {} |-> 0]

-----------------------------------------------------------------------------
(* The order of the calls: causal diagnostics before any evidence. *)
CausalCalls ==
    FlattenSeq([a \in DOMAIN Anchors |->
      [i \in DOMAIN Interventions |-> [id |-> Anchors[a].current,
                                       variant |-> Interventions[i]]]])
EvidenceCalls ==
    FlattenSeq([o \in DOMAIN Observations |->
      [v \in 1..3 |-> [id |-> Observations[o], variant |-> Variants[v]]]])
Schedule ==
    IF Phase = "evidence" THEN CausalCalls \o EvidenceCalls
    ELSE [o \in DOMAIN Observations |-> [id |-> Observations[o], variant |-> "text"]]

-----------------------------------------------------------------------------
(* visual_evidence.verify *)

Checked(base, flip, mask, v) ==
    /\ base[v].sure /\ flip[v].sure
    /\ base[v].box = flip[v].box /\ base[v].rel = flip[v].rel
    /\ ~mask[v].seen /\ mask[v].rel = "unknown"

(* Slip: the masked copy's reply is not asked for a view. *)
RelationUnmasked(base, flip, mask, v) ==
    IF ~(base[v].sure /\ flip[v].sure /\ base[v] = flip[v]) THEN "unknown"
    ELSE IF base[v].box = base[v].rel THEN base[v].rel ELSE "unknown"

(* A relation counts when it passes every check and the boxes bear it out. *)
Relation(base, flip, mask, v) ==
    IF Checked(base, flip, mask, v) /\ base[v].box = base[v].rel
    THEN base[v].rel ELSE "unknown"

Verify(base, flip, mask) ==
    IF Malformed \in {base, flip, mask} THEN "unknown"
    ELSE LET seen == {Relation(base, flip, mask, v) : v \in Views}
         IN CASE seen = {"inside"} -> "complete"
              [] "outside" \in seen /\ "inside" \notin seen -> "incomplete"
              [] OTHER -> "unknown"

(* The altered images must have reached the model as others. *)
Decide(three) ==
    IF three[2].differs /\ three[3].differs
    THEN Verify(three[1].raw, three[2].raw, three[3].raw) ELSE "unknown"

(* EvidenceHistory.record: what it says of a status, and what it keeps. *)
InOrder(seen, stream, ns) == stream \notin DOMAIN seen \/ ns > seen[stream].ns
Contradicts(seen, stream, s) ==
    /\ stream \in DOMAIN seen /\ seen[stream].status = "complete" /\ s = "incomplete"
Recorded(seen, stream, ns, s) ==
    IF ~InOrder(seen, stream, ns) \/ Contradicts(seen, stream, s) THEN "unknown" ELSE s
Kept(seen, stream, ns, s) ==
    IF ~InOrder(seen, stream, ns) THEN seen
    ELSE [x \in DOMAIN seen \cup {stream} |->
            IF x = stream THEN [ns |-> ns, status |-> s] ELSE seen[x]]

-----------------------------------------------------------------------------
(* The runner *)

Load ==
    /\ pc = "load"
    /\ \/ pc' = "call" /\ UNCHANGED status
       \/ pc' = "closed" /\ status' = "ERROR"
    /\ UNCHANGED <<time, cases, previous, verified>>

RepliesTo(call) ==
    CASE call.variant = "original" -> Replies.original
      [] call.variant = "flipped" -> Replies.flipped
      [] call.variant = "masked" -> Replies.masked
      [] call.variant = "text" -> {<<"accept">>, <<"refuse">>}
      [] OTHER -> {<<"status">>}

(* A row of the receipt; what it shows the model of a masked copy is the last *)
(* original's proposal.                                                       *)
Row(call, ok, raw, differs, timeout) ==
    [id |-> call.id, variant |-> call.variant, ok |-> ok, raw |-> raw,
     differs |-> differs, timeout |-> timeout,
     input |-> IF call.variant = "masked" THEN <<call.id, cases[Len(cases) - 1].raw>>
               ELSE <<call.id, Malformed>>]

(* What the runner makes of an observation once its three calls are there. *)
Verified(three) ==
    LET id == three[1].id
        s == Decide(three)
    IN /\ verified' = Append(verified,
             [id |-> id, status |-> Recorded(previous, Streams[id], time[id], s)])
       /\ previous' = Kept(previous, Streams[id], time[id], s)

(* One model timeout ends the run, its call in the receipt. *)
TimeOut ==
    /\ pc = "call"
    /\ cases' = Append(cases, Row(Schedule[Len(cases) + 1], FALSE, Malformed, FALSE, TRUE))
    /\ pc' = "closed" /\ status' = "ERROR"
    /\ UNCHANGED <<time, previous, verified>>

(* A call and what follows it: the third about an observation decides it.  A  *)
(* call that fails leaves a row without a reply.                              *)
Call ==
    /\ pc = "call"
    /\ LET call == Schedule[Len(cases) + 1]
       IN /\ \/ cases' = Append(cases, Row(call, FALSE, Malformed, FALSE, FALSE))
             \/ \E raw \in RepliesTo(call), differs \in BOOLEAN :
                  /\ call.variant \in {"flipped", "masked"} \/ differs
                  /\ cases' = Append(cases, Row(call, TRUE, raw, differs, FALSE))
          /\ IF call.variant = "masked"
             THEN Verified(SubSeq(cases', Len(cases') - 2, Len(cases')))
             ELSE UNCHANGED <<previous, verified>>
    /\ pc' = IF Len(cases') = Len(Schedule) THEN "closed" ELSE "call"
    /\ status' = IF pc' = "closed" THEN "COMPLETED" ELSE "RUNNING"
    /\ UNCHANGED time

Kill ==
    /\ pc \in {"load", "call"} /\ pc' = "killed"
    /\ UNCHANGED <<time, status, cases, previous, verified>>

Next == Load \/ TimeOut \/ Call \/ Kill
Spec == Init /\ [][Next]_vars

-----------------------------------------------------------------------------
(* visual_replay.replay_visual_receipt, from the calls alone *)

Calls == {[id |-> cases[i].id, variant |-> cases[i].variant] : i \in DOMAIN cases}
Expected == {Schedule[i] : i \in DOMAIN Schedule}
CallOf(id, variant) ==
    CHOOSE r \in {cases[i] : i \in DOMAIN cases} : r.id = id /\ r.variant = variant
Three(id) == [v \in 1..3 |-> CallOf(id, Variants[v])]

(* A call binds its images and has a reply. *)
Bound(r) ==
    /\ r.ok /\ r.raw # Malformed
    /\ r.input = <<r.id, IF r.variant = "masked" THEN CallOf(r.id, "original").raw
                         ELSE Malformed>>

(* The observations decided once more, in order. *)
Redone ==
    LET done[n \in 0..Len(Observations)] ==
          IF n = 0 THEN [seen |-> [s \in {} |-> 0], rows |-> <<>>]
          ELSE LET id == Observations[n]
                   s == Decide(Three(id))
                   was == done[n - 1]
               IN [seen |-> Kept(was.seen, Streams[id], time[id], s),
                   rows |-> Append(was.rows,
                     [id |-> id,
                      status |-> Recorded(was.seen, Streams[id], time[id], s)])]
    IN done[Len(Observations)].rows

Replays ==
    /\ status = "COMPLETED"
    /\ Cardinality(Calls) = Len(cases) /\ Calls = Expected
    /\ \A i \in DOMAIN cases : Bound(cases[i])
    /\ {verified[i] : i \in DOMAIN verified} = {Redone[i] : i \in DOMAIN Redone}

-----------------------------------------------------------------------------
(* research_scoring *)

Done(id) == CHOOSE r \in {verified[i] : i \in DOMAIN verified} : r.id = id
StatusOf(id) == IF Replays THEN Done(id).status ELSE "unknown"
Positives == {id \in DOMAIN Truth : Truth[id]}
Negatives == DOMAIN Truth \ Positives

(* score_vision *)
VisionPasses ==
    /\ Replays /\ status = "COMPLETED"
    /\ Cardinality(Positives) >= MinPositives /\ Cardinality(Negatives) >= MinNegatives
    /\ \A id \in Negatives : StatusOf(id) # "complete"
    /\ 100 * Cardinality({id \in DOMAIN Truth : StatusOf(id) # "unknown"})
         >= MinCoverage * Cardinality(DOMAIN Truth)
    /\ Cardinality({id \in Positives : StatusOf(id) = "complete"}) >= MinPositives

(* score_text; a call without a reply accepts nothing. *)
Accepts(id) == \E i \in DOMAIN cases : cases[i].id = id /\ cases[i].raw = <<"accept">>
TextPasses ==
    /\ status = "COMPLETED" /\ {r.id : r \in Calls} = DOMAIN Truth
    /\ Cardinality({id \in Positives : Accepts(id)}) >= MinPositives
    /\ ~\E id \in Negatives : Accepts(id)

-----------------------------------------------------------------------------
(* Types. *)
TypeOK ==
    /\ status \in {"RUNNING", "COMPLETED", "ERROR"}
    /\ Len(cases) <= Len(Schedule)
    /\ \A i \in DOMAIN cases :
         /\ cases[i].id = Schedule[i].id /\ cases[i].variant = Schedule[i].variant
         /\ cases[i].raw # Malformed => cases[i].raw \in RepliesTo(Schedule[i])
    /\ \A i \in DOMAIN verified :
         /\ verified[i].id = Observations[i]
         /\ verified[i].status \in {"complete", "incomplete", "unknown"}

(* A run that ended with every reply well-formed is replayed to the very same *)
(* decisions, contradictions and disorder in time included.                   *)
HonestRunsReplay ==
    /\ Phase = "evidence" /\ status = "COMPLETED"
    /\ \A i \in DOMAIN cases : cases[i].raw # Malformed
    => Replays

(* What passes was asked to the end: every call once, none failing in the     *)
(* evidence phase, and none after a timeout.                                  *)
PassIsWhole ==
    IF Phase = "coverage" THEN
      TextPasses => Len(cases) = Len(Observations) /\ \A i \in DOMAIN cases : ~cases[i].timeout
    ELSE VisionPasses =>
      /\ Len(cases) = Len(Schedule)
      /\ \A i \in DOMAIN cases : cases[i].ok /\ cases[i].raw # Malformed

(* Nothing is asked after a timeout, and the receipt says it ended there.     *)
NothingAfterTimeout ==
    \A i \in DOMAIN cases :
       cases[i].timeout => i = Len(cases) /\ status = "ERROR"

(* An observation is complete only when both views were seen inside in the    *)
(* image and in its mirror, were lost when the target was masked, and the     *)
(* altered images were other images to the model.                             *)
CompleteIsCounterfactual ==
    \A i \in DOMAIN verified : verified[i].status = "complete" =>
      LET three == Three(verified[i].id)
      IN /\ \A v \in Views :
              /\ three[1].raw[v].rel = "inside" /\ three[2].raw[v].rel = "inside"
              /\ ~three[3].raw[v].seen
         /\ three[2].differs /\ three[3].differs

(* No decided observation of a stream is at or before the time of one that    *)
(* was taken earlier, and none says incomplete right after a complete one.    *)
NeverBackwards ==
    \A i, j \in DOMAIN verified :
      LET a == verified[i]
          b == verified[j]
      IN i < j /\ Streams[a.id] = Streams[b.id]
           /\ a.status # "unknown" /\ b.status # "unknown"
         => /\ time[b.id] > time[a.id]
            /\ j = i + 1 => ~(a.status = "complete" /\ b.status = "incomplete")
=============================================================================
