---------------------------- MODULE LegacyProofs ----------------------------
(***************************************************************************)
(* Proofs about the legacy worker and its loop, and about what is written  *)
(* of them, for every mode, length of episode and chunk, and whether or    *)
(* not the caller goes on after an exception.                              *)
(***************************************************************************)
EXTENDS TraceAudit, FiniteSetTheorems, WellFoundedInduction, TLAPS

Requests == [gen : Nat, obs : -1..EpisodeLength]
Results == [gen : Nat, obs : 0..EpisodeLength, len : ChunkLengths, due : BOOLEAN]
Planned == [gen : Nat, obs : 0..EpisodeLength, at : Nat]
Listed == [obs : 0..EpisodeLength,
           verdict : {"old_episode", "fully_stale", "replaced", "episode_ended"}]
Counts == [started : Nat, completed : Nat, replaced : Nat, cancelled : Nat, discarded : Nat]

WorkerType ==
    /\ pending \in Requests /\ active \in Requests /\ results \in Seq(Results)
    /\ generation \in Nat /\ count \in Counts
    /\ error \in BOOLEAN /\ closed \in BOOLEAN /\ ended \in BOOLEAN
CallerType ==
    /\ mode \in Modes /\ step \in 0..EpisodeLength
    /\ control \in {"next", "first", "awaiting", "tick", "stepping", "over", "draining",
                    "recorded", "sync", "closing", "joining", "exit"}
    /\ queue \in Seq(Planned) /\ last \in Planned \cup {NoAction}
    /\ events \in Seq(Listed) /\ submitted \in Nat /\ requested \in BOOLEAN

(* The inference under way, and the request in the mailbox, of this episode. *)
Running == active # NoRequest /\ active.gen = generation
Waiting == pending # NoRequest

(* Where the loop is says what it has left behind.                           *)
Phased ==
    /\ control \in {"first", "awaiting", "tick", "stepping", "over", "draining"} => mode # "sync"
    /\ control = "sync" => mode = "sync"
    /\ mode = "sync" => Idle /\ results = <<>> /\ ~error
    /\ control \in {"first", "awaiting"} => step = 0 /\ queue = <<>>
    /\ control \in {"tick", "stepping", "sync"} => step < EpisodeLength
    /\ control = "first" => /\ ~Running /\ ~Waiting /\ results = <<>> /\ events = <<>>
                            /\ submitted = 0
    /\ control = "recorded" => Idle /\ results = <<>> /\ ~error

(* Without exceptions that are passed over, no inference outlives its        *)
(* episode.                                                                  *)
NothingOutlives == ~Abandons =>
    /\ active # NoRequest => Running
    /\ control \in {"next", "first"} => Idle /\ ~error

(* The episode's results, queue and held action are its own.                 *)
Own ==
    /\ Waiting => pending.gen = generation /\ pending.obs >= 0
    /\ active # NoRequest => active.gen <= generation /\ active.obs >= 0
    /\ \A i \in DOMAIN results : results[i].gen = generation
    /\ \A i \in DOMAIN queue : queue[i].gen = generation
    /\ last # NoAction => last.gen = generation

(* Requests pass through the worker in order: what is listed is older than   *)
(* what is finished, that than what is inferred, and that than what waits.   *)
InOrder ==
    /\ \A i, j \in DOMAIN results :
         i < j => results[i].obs < results[j].obs /\ (results[j].due => results[i].due)
    /\ \A i \in DOMAIN events, j \in DOMAIN results : events[i].obs < results[j].obs
    /\ Running => /\ \A i \in DOMAIN events : events[i].obs < active.obs
                  /\ \A i \in DOMAIN results : results[i].obs < active.obs
    /\ Waiting => /\ \A i \in DOMAIN events : events[i].obs < pending.obs
                  /\ \A i \in DOMAIN results : results[i].obs < pending.obs
                  /\ Running => active.obs < pending.obs
(* None is of a step that is still to come, or of one that has its actions.  *)
NotAhead ==
    /\ \A i \in DOMAIN events : events[i].obs <= step
    /\ \A i \in DOMAIN results : results[i].obs <= step
    /\ Running => active.obs <= step
    /\ Waiting => pending.obs <= step
    /\ control = "sync" /\ queue = <<>> => \A i \in DOMAIN events : events[i].obs < step

(* Every request is somewhere, and every inference was counted.              *)
Accounted == mode # "sync" =>
    /\ ~error => count.started = count.completed + (IF Running THEN 1 ELSE 0)
    /\ count.completed = Len(events) + Len(results)
    /\ control \notin {"joining", "exit"} =>
         submitted = count.started + count.replaced + count.cancelled
                       + (IF Waiting THEN 1 ELSE 0)

(* There is something safe to execute.                                       *)
Safe ==
    /\ control = "tick" => queue # <<>> \/ last # NoAction
    /\ control = "stepping" => last # NoAction

Held ==
    mode = "sync_hold" /\ control \in {"tick", "stepping", "awaiting"} /\ ~error =>
      (IF Running THEN 1 ELSE 0) + (IF Waiting THEN 1 ELSE 0) + Len(results)
        = (IF requested THEN 1 ELSE 0)

LegacyInv ==
    /\ WorkerType /\ CallerType /\ Phased /\ NothingOutlives /\ Own /\ InOrder
    /\ PlansMoveForward /\ NotAhead /\ Accounted /\ Aligned /\ Safe /\ Held

Assumed == WorkerAssumption /\ BenchmarkAssumption

-----------------------------------------------------------------------------
(* Sequences, and the first and last of some places *)

LEMMA FirstOf ==
    ASSUME NEW S, S \subseteq Nat, S # {}
    PROVE  \E first \in S : \A c \in S : first <= c
<1> DEFINE Before == {pair \in Nat \X Nat : pair[1] < pair[2]}
<1>1. PICK first \in S : \A c \in S : <<c, first>> \notin Before
  <2>1. IsWellFoundedOn(Before, Nat)
    BY NatLessThanWellFounded, Zenon DEF OpToRel
  <2> HIDE DEF Before
  <2> QED
    BY <2>1, WFMin
<1>2. ASSUME NEW c \in S PROVE first <= c
  <2>1. <<c, first>> \in Before <=> c < first
    OBVIOUS
  <2> QED
    BY <1>1, <2>1
<1> QED
  BY <1>2

(* Max of some places of a sequence is the last of them.                     *)
LEMMA LastOf ==
    ASSUME NEW n \in Nat, NEW S, S \subseteq 1..n, S # {}
    PROVE  Max(S) \in S
<1> DEFINE Left == {n - i : i \in S}
<1>1. Left \subseteq Nat /\ Left # {}
  <2>1. \A i \in S : n - i \in Nat
    OBVIOUS
  <2>2. \E i \in S : n - i \in Left
    OBVIOUS
  <2> QED
    BY <2>1, <2>2, Zenon
<1>2. PICK d \in Left : \A e \in Left : d <= e
  <2> HIDE DEF Left
  <2> QED
    BY <1>1, FirstOf, Zenon
<1>3. PICK place \in S : d = n - place
  OBVIOUS
<1>4. ASSUME NEW c \in S PROVE place >= c
  <2>1. n - c \in Left
    OBVIOUS
  <2>2. d <= n - c
    BY <1>2, <2>1
  <2> QED
    BY <1>3, <2>2
<1> QED
  BY <1>4, Zenon DEF Max

LEMMA Front ==
    ASSUME NEW S, NEW s \in Seq(S), NEW n \in 0..Len(s)
    PROVE  /\ Len(SubSeq(s, 1, n)) = n
           /\ \A i \in 1..n : SubSeq(s, 1, n)[i] = s[i]
OBVIOUS

LEMMA Rest ==
    ASSUME NEW S, NEW s \in Seq(S), NEW n \in 0..Len(s)
    PROVE  /\ SubSeq(s, n + 1, Len(s)) \in Seq(S)
           /\ Len(SubSeq(s, n + 1, Len(s))) = Len(s) - n
           /\ \A i \in 1..(Len(s) - n) : SubSeq(s, n + 1, Len(s))[i] = s[i + n]
           /\ n = 0 => SubSeq(s, n + 1, Len(s)) = s
OBVIOUS

LEMMA Listing ==
    ASSUME NEW S, NEW n \in Nat, NEW f \in [1..n -> S]
    PROVE  f \in Seq(S) /\ Len(f) = n
OBVIOUS

LEMMA EmptyHasNone == Len(<<>>) = 0
OBVIOUS

LEMMA Joined ==
    ASSUME NEW S, NEW s \in Seq(S), NEW n \in Nat, NEW f \in [1..n -> S]
    PROVE  /\ s \o f \in Seq(S) /\ Len(s \o f) = Len(s) + n
           /\ \A i \in 1..Len(s) : (s \o f)[i] = s[i]
           /\ \A i \in 1..n : (s \o f)[Len(s) + i] = f[i]
           /\ \A i \in 1..(Len(s) + n) : i \in 1..Len(s) \/ i - Len(s) \in 1..n
BY Listing

(* What is drained is the longest prefix that is due.                        *)
LEMMA DueIsPrefix ==
    ASSUME results \in Seq(Results)
    PROVE  /\ DueCount \in 0..Len(results)
           /\ \A i \in 1..DueCount : results[i].due
           /\ DueCount < Len(results) => ~results[DueCount + 1].due
           /\ Len(Due) = DueCount
           /\ \A i \in 1..DueCount : Due[i] = results[i]
<1> DEFINE Prefix(n) == /\ \A i \in 1..n : results[i].due
                        /\ n < Len(results) => ~results[n + 1].due
           late == {i \in 1..Len(results) : ~results[i].due}
<1>1. \E n \in 0..Len(results) : Prefix(n)
  <2>1. CASE late = {}
    BY <2>1
  <2>2. CASE late # {}
    <3>0. late \subseteq Nat
      OBVIOUS
    <3>1. PICK first \in late : \A c \in late : first <= c
      <4> HIDE DEF late
      <4> QED
        BY <2>2, <3>0, FirstOf, Zenon
    <3>2. first - 1 \in 0..Len(results) /\ Prefix(first - 1)
      BY <3>1
    <3> QED
      BY <3>2
  <2> QED
    BY <2>1, <2>2
<1>2. DueCount \in 0..Len(results) /\ Prefix(DueCount)
  <2>1. DueCount = CHOOSE n \in 0..Len(results) : Prefix(n)
    BY DEF DueCount
  <2> HIDE DEF Prefix
  <2> QED
    BY <1>1, <2>1, Zenon
<1>3. Len(Due) = DueCount /\ \A i \in 1..DueCount : Due[i] = results[i]
  BY <1>2, Front DEF Due
<1> QED
  BY <1>2, <1>3

LEMMA ResultShape ==
    ASSUME Assumed, NEW r \in Results
    PROVE  /\ r.gen \in Nat /\ r.obs \in Nat /\ r.obs \in 0..EpisodeLength /\ r.due \in BOOLEAN
           /\ r.len \in Nat /\ r.len > 0
<1>1. r.gen \in Nat /\ r.obs \in 0..EpisodeLength /\ r.len \in ChunkLengths /\ r.due \in BOOLEAN
  BY DEF Results
<1>2. EpisodeLength \in Nat /\ ChunkLengths \subseteq Nat \ {0}
  BY DEF Assumed, WorkerAssumption, BenchmarkAssumption
<1>3. r.len \in Nat \ {0}
  BY <1>1, <1>2, Zenon
<1> QED
  BY <1>1, <1>2, <1>3

LEMMA ActionsOf ==
    ASSUME Assumed, NEW r \in Results, NEW drop \in Nat, drop < r.len
    PROVE  /\ Actions(r, drop) \in Seq(Planned) /\ Actions(r, drop) # <<>>
           /\ \A i \in DOMAIN Actions(r, drop) :
                Actions(r, drop)[i] = [gen |-> r.gen, obs |-> r.obs, at |-> drop + i - 1]
<1>1. r.len \in Nat /\ r.gen \in Nat /\ r.obs \in 0..EpisodeLength
  BY ResultShape
<1>2. r.len - drop \in Nat /\ r.len - drop >= 1
  BY <1>1
<1>3. \A i \in 1..(r.len - drop) :
        [gen |-> r.gen, obs |-> r.obs, at |-> drop + i - 1] \in Planned
  BY <1>1 DEF Planned
<1>4. Actions(r, drop) \in [1..(r.len - drop) -> Planned]
  BY <1>3 DEF Actions
<1>5. Actions(r, drop) \in Seq(Planned)
  BY <1>2, <1>4, Listing, Zenon
<1>6. Actions(r, drop) # <<>>
  BY <1>2, <1>4
<1> QED
  BY <1>5, <1>6 DEF Actions

(* What is merged: the queue is the one before, or the actions of a result   *)
(* that was accepted; and every result is listed.                            *)
Merges(r) ==
    /\ Verdict(r) = "replaced"
    /\ Drop(r) \in Nat /\ Drop(r) < r.len
    /\ MergeDue.queue = Actions(r, Drop(r))

LEMMA DropIsAge ==
    ASSUME Assumed, WorkerType, CallerType, NotAhead, NEW i \in DOMAIN results
    PROVE  /\ results[i] \in Results /\ Drop(results[i]) \in Nat
           /\ Verdict(results[i]) = "replaced"
                => results[i].gen = generation /\ Drop(results[i]) < results[i].len
           /\ mode = "async_aligned" => Drop(results[i]) = step - results[i].obs
<1>1. results[i] \in Results /\ results[i].obs <= step
  BY DEF WorkerType, NotAhead
<1>2. results[i].obs \in Nat /\ step \in Nat /\ results[i].len \in Nat
  BY <1>1, ResultShape DEF CallerType, Assumed, BenchmarkAssumption
<1>3. Drop(results[i]) \in Nat
  BY <1>1, <1>2 DEF Drop
<1>4. Verdict(results[i]) = "replaced"
        => results[i].gen = generation /\ Drop(results[i]) < results[i].len
  BY <1>2, <1>3 DEF Verdict
<1> QED
  BY <1>1, <1>3, <1>4 DEF Drop

LEMMA QueueMerged ==
    ASSUME Assumed, WorkerType, CallerType, NotAhead
    PROVE  /\ \/ MergeDue.queue = queue
              \/ \E i \in 1..DueCount : Merges(results[i])
           /\ \A i \in 1..DueCount : Verdict(results[i]) = "replaced"
                => \E j \in 1..DueCount : Merges(results[j])
<1>1. DueCount \in 0..Len(results) /\ \A i \in 1..DueCount : Due[i] = results[i]
  BY DueIsPrefix DEF WorkerType
<1>2. MergeDue.queue = QueueAfter(DueCount)
  BY DEF MergeDue
<1>3. DueCount \in Nat /\ Accepting(DueCount) \subseteq 1..DueCount
  BY <1>1, DueIsPrefix DEF Accepting, WorkerType
<1>4. Accepting(DueCount) = {} => MergeDue.queue = queue
  BY <1>2, Zenon DEF QueueAfter
<1>5. Accepting(DueCount) # {} => \E j \in 1..DueCount : Merges(results[j])
  <2> SUFFICES ASSUME Accepting(DueCount) # {}
               PROVE  \E j \in 1..DueCount : Merges(results[j])
    OBVIOUS
  <2> DEFINE j == Max(Accepting(DueCount))
  <2>1. j \in Accepting(DueCount)
    BY <1>3, LastOf, Zenon
  <2>2. j \in 1..DueCount /\ Due[j] = results[j] /\ Verdict(results[j]) = "replaced"
    BY <1>1, <2>1 DEF Accepting
  <2>3. MergeDue.queue = Actions(results[j], Drop(results[j]))
    BY <1>2, <2>2, Zenon DEF QueueAfter
  <2>4. j \in DOMAIN results
    BY <1>1, <2>2 DEF WorkerType
  <2> HIDE DEF j
  <2>5. Merges(results[j])
    BY <2>2, <2>3, <2>4, DropIsAge, Zenon DEF Merges
  <2> QED
    BY <2>2, <2>5
<1>6. \A i \in 1..DueCount : Verdict(results[i]) = "replaced" => i \in Accepting(DueCount)
  BY <1>1 DEF Accepting
<1> QED
  BY <1>4, <1>5, <1>6, Zenon

LEMMA QueueIsPlanned ==
    ASSUME Assumed, WorkerType, CallerType, NotAhead, Own
    PROVE  /\ MergeDue.queue \in Seq(Planned)
           /\ \/ MergeDue.queue = queue
              \/ MergeDue.queue # <<>> /\ \A i \in DOMAIN MergeDue.queue :
                   /\ MergeDue.queue[i].gen = generation
                   /\ mode = "async_aligned"
                        => MergeDue.queue[i].obs + MergeDue.queue[i].at = step + i - 1
<1>1. CASE MergeDue.queue = queue
  BY <1>1 DEF CallerType
<1>2. CASE \E i \in 1..DueCount : Merges(results[i])
  <2>1. PICK k \in 1..DueCount : Merges(results[k])
    BY <1>2
  <2>2. k \in DOMAIN results
    BY <2>1, DueIsPrefix DEF WorkerType
  <2>3. results[k] \in Results /\ results[k].gen = generation
    BY <2>2, DropIsAge DEF Own
  <2>4. /\ MergeDue.queue \in Seq(Planned) /\ MergeDue.queue # <<>>
        /\ \A i \in DOMAIN MergeDue.queue : MergeDue.queue[i] =
             [gen |-> generation, obs |-> results[k].obs, at |-> Drop(results[k]) + i - 1]
    BY <2>1, <2>3, ActionsOf, Zenon DEF Merges
  <2>5. mode = "async_aligned" => Drop(results[k]) = step - results[k].obs
    BY <2>2, DropIsAge
  <2>6. results[k].obs \in Nat /\ step \in Nat
    BY <2>3, ResultShape DEF CallerType, Assumed, BenchmarkAssumption
  <2>7. ASSUME NEW i \in DOMAIN MergeDue.queue
        PROVE  /\ MergeDue.queue[i].gen = generation
               /\ mode = "async_aligned"
                    => MergeDue.queue[i].obs + MergeDue.queue[i].at = step + i - 1
    <3>1. i \in Int
      BY <2>4
    <3>2. MergeDue.queue[i] =
            [gen |-> generation, obs |-> results[k].obs, at |-> Drop(results[k]) + i - 1]
      BY <2>4, Zenon
    <3> QED
      BY <2>5, <2>6, <3>1, <3>2
  <2> QED
    BY <2>4, <2>7, Zenon
<1> QED
  BY <1>1, <1>2, QueueMerged

LEMMA EventsMerged ==
    ASSUME Assumed, WorkerType, CallerType
    PROVE  /\ MergeDue.events \in Seq(Listed)
           /\ Len(MergeDue.events) = Len(events) + DueCount
           /\ \A i \in 1..Len(events) : MergeDue.events[i] = events[i]
           /\ \A i \in 1..DueCount :
                /\ MergeDue.events[Len(events) + i].obs = results[i].obs
                /\ MergeDue.events[Len(events) + i].verdict = Verdict(results[i])
<1> DEFINE new == [i \in 1..DueCount |-> [obs |-> Due[i].obs, verdict |-> Verdict(Due[i])]]
<1>1. DueCount \in 0..Len(results) /\ \A i \in 1..DueCount : Due[i] = results[i]
  BY DueIsPrefix DEF WorkerType
<1>2. \A i \in 1..DueCount : results[i].obs \in 0..EpisodeLength
  <2>1. \A i \in 1..DueCount : results[i] \in Results
    BY <1>1 DEF WorkerType
  <2> QED
    BY <2>1, ResultShape
<1>3. \A i \in 1..DueCount : Verdict(Due[i]) \in {"old_episode", "fully_stale", "replaced"}
  BY DEF Verdict
<1>4. new \in [1..DueCount -> Listed]
  BY <1>1, <1>2, <1>3 DEF Listed
<1>5. \A i \in 1..DueCount :
        new[i].obs = results[i].obs /\ new[i].verdict = Verdict(results[i])
  BY <1>1
<1>6. MergeDue.events = events \o new
  BY DEF MergeDue
<1>7. DueCount \in Nat /\ events \in Seq(Listed)
  BY <1>1 DEF CallerType, WorkerType
<1> HIDE DEF new
<1> QED
  BY <1>4, <1>5, <1>6, <1>7, Joined

-----------------------------------------------------------------------------
(* Types *)

(* What a step of the whole is for the worker.                               *)
WorkerMoves ==
    \/ ResetEpisode
    \/ \E obs \in 0..EpisodeLength : Submit(obs)
    \/ DrainDue \/ DrainAll \/ CancelPending \/ CloseWorker
    \/ Take \/ Finish \/ Fail \/ End \/ BecomeDue
    \/ SyncStart
    \/ UNCHANGED worker

LEMMA StepsOfWorker ==
    ASSUME Assumed, CallerType, Phased, [Next]_vars
    PROVE  WorkerMoves
<1>0. 0 \in 0..EpisodeLength /\ (control = "stepping" => step + 1 \in 0..EpisodeLength)
  BY DEF CallerType, Phased, Assumed, BenchmarkAssumption
<1> USE Zenon DEF WorkerMoves
<1>1. CASE StartEpisode
  BY <1>1 DEF StartEpisode
<1>2. CASE SubmitFirst
  BY <1>0, <1>2 DEF SubmitFirst, Crash
<1>3. CASE FirstChunk
  BY <1>3 DEF FirstChunk
<1>4. CASE Tick
  BY <1>4 DEF Tick, Crash
<1>5. CASE StepGoesOn
  BY <1>0, <1>5 DEF StepGoesOn, Crash
<1>6. CASE FinishEpisode
  BY <1>6 DEF FinishEpisode, Crash
<1>7. CASE DrainFinal
  BY <1>7 DEF DrainFinal
<1>8. CASE FirstChunkFails \/ StepEnds \/ StepFails \/ DrainFails \/ Record \/ SyncInfer
             \/ SyncStep \/ SyncRecord \/ SyncFails \/ Join
  BY <1>8 DEF FirstChunkFails, StepEnds, StepFails, DrainFails, Record, SyncInfer, SyncStep,
     SyncRecord, SyncFails, Join, Crash
<1>9. CASE SyncStart
  BY <1>9
<1>10. CASE Close
  BY <1>10 DEF Close
<1>11. CASE Inference
  BY <1>11 DEF Inference
<1>12. CASE UNCHANGED vars
  BY <1>12 DEF vars
<1> QED
  BY <1>1, <1>2, <1>3, <1>4, <1>5, <1>6, <1>7, <1>8, <1>9, <1>10, <1>11, <1>12
     DEF Next, Control

LEMMA WorkerTypeKeeps ==
    ASSUME Assumed, WorkerType, Own, WorkerMoves
    PROVE  WorkerType'
<1> USE DEF WorkerType
<1>0. NoRequest \in Requests /\ NoCounts \in Counts
  BY DEF NoRequest, NoCounts, Requests, Counts, Assumed, BenchmarkAssumption
<1>1. CASE ResetEpisode
  <2>1. generation' \in Nat
    BY <1>1 DEF ResetEpisode
  <2>2. results' \in Seq(Results)
    BY <1>1 DEF ResetEpisode
  <2> QED
    BY <1>0, <1>1, <2>1, <2>2, Zenon DEF ResetEpisode
<1>2. ASSUME NEW obs \in 0..EpisodeLength, Submit(obs) PROVE WorkerType'
  <2>1. [gen |-> generation, obs |-> obs] \in Requests
    BY DEF Requests
  <2>2. count' \in Counts
    BY <1>2 DEF Submit, Counts
  <2> QED
    BY <1>2, <2>1, <2>2 DEF Submit
<1>3. CASE DrainDue
  <2>1. results' \in Seq(Results)
    BY <1>3, DueIsPrefix, Rest DEF DrainDue
  <2> QED
    BY <1>3, <2>1 DEF DrainDue
<1>4. CASE DrainAll
  BY <1>4 DEF DrainAll
<1>5. CASE CancelPending
  <2>1. count' \in Counts
    BY <1>5 DEF CancelPending, Counts
  <2> QED
    BY <1>0, <1>5, <2>1 DEF CancelPending
<1>6. CASE CloseWorker
  BY <1>0, <1>6 DEF CloseWorker
<1>7. CASE Take
  <2>1. count' \in Counts
    BY <1>7 DEF Take, Counts
  <2> QED
    BY <1>0, <1>7, <2>1 DEF Take
<1>8. CASE Finish
  <2>1. count' \in Counts
    BY <1>8 DEF Finish, Counts
  <2>2. results' \in Seq(Results)
    <3>1. CASE UNCHANGED results
      BY <3>1
    <3>2. ASSUME NEW n \in ChunkLengths, results' = Append(results,
                     [gen |-> active.gen, obs |-> active.obs, len |-> n, due |-> FALSE])
          PROVE  results' \in Seq(Results)
      <4>1. active.gen \in Nat /\ active.obs \in -1..EpisodeLength
        BY DEF Requests
      <4>2. active.obs \in 0..EpisodeLength
        BY <1>8, <4>1 DEF Finish, Own
      <4>3. [gen |-> active.gen, obs |-> active.obs, len |-> n, due |-> FALSE] \in Results
        BY <4>1, <4>2 DEF Results
      <4> QED
        BY <3>2, <4>3
    <3> QED
      BY <1>8, <3>1, <3>2, Zenon DEF Finish
  <2> QED
    BY <1>0, <1>8, <2>1, <2>2 DEF Finish
<1>9. CASE Fail
  BY <1>0, <1>9 DEF Fail
<1>10. CASE End
  BY <1>10 DEF End
<1>11. CASE BecomeDue
  <2>1. PICK i \in DOMAIN results : results' = [results EXCEPT ![i].due = TRUE]
    BY <1>11 DEF BecomeDue
  <2>2. [results[i] EXCEPT !.due = TRUE] \in Results
    <3>1. results[i] \in Results
      OBVIOUS
    <3> QED
      BY <3>1 DEF Results
  <2>3. results' \in Seq(Results)
    BY <2>1, <2>2
  <2> QED
    BY <1>11, <2>3 DEF BecomeDue
<1>12. CASE SyncStart
  BY <1>12 DEF SyncStart
<1>13. CASE UNCHANGED worker
  BY <1>13 DEF worker
<1> QED
  BY <1>1, <1>2, <1>3, <1>4, <1>5, <1>6, <1>7, <1>8, <1>9, <1>10, <1>11, <1>12, <1>13
     DEF WorkerMoves

(* The loop goes on with its steps in order, in the mode it was started in.  *)
LEMMA LoopKeeps ==
    ASSUME Assumed, CallerType, Phased, [Next]_vars
    PROVE  /\ mode' = mode /\ step' \in 0..EpisodeLength
           /\ control' \in {"next", "first", "awaiting", "tick", "stepping", "over", "draining",
                            "recorded", "sync", "closing", "joining", "exit"}
           /\ submitted' \in Nat /\ requested' \in BOOLEAN
<1> USE DEF CallerType
<1>0. EpisodeLength \in Nat
  BY DEF Assumed, BenchmarkAssumption
<1>1. CASE StartEpisode
  <2>1. step' = 0 /\ submitted' = 0 /\ mode' = mode /\ control' = "first"
    BY <1>1, Zenon DEF StartEpisode
  <2>2. requested' \in BOOLEAN
    BY <1>1 DEF StartEpisode
  <2> QED
    BY <1>0, <2>1, <2>2
<1>2. CASE SubmitFirst
  <2>1. CASE error
    BY <1>2, <2>1, Zenon DEF SubmitFirst, Crash
  <2>2. CASE ~error
    <3>1. submitted' = 1 /\ requested' \in BOOLEAN /\ control' = "awaiting"
            /\ UNCHANGED <<mode, step>>
      BY <1>2, <2>2, Zenon DEF SubmitFirst
    <3> QED
      BY <3>1
  <2> QED
    BY <2>1, <2>2
<1>3. CASE FirstChunk
  BY <1>0, <1>3 DEF FirstChunk, StillRequested
<1>4. CASE FirstChunkFails
  BY <1>0, <1>4 DEF FirstChunkFails, Crash
<1>5. CASE Tick
  BY <1>0, <1>5 DEF Tick, Crash, StillRequested
<1>6. CASE StepEnds
  BY <1>0, <1>6 DEF StepEnds, Phased
<1>7. CASE StepGoesOn
  <2>1. CASE WantsRequest(step + 1) /\ error
    BY <1>7, <2>1, Zenon DEF StepGoesOn, Crash
  <2>2. CASE ~(WantsRequest(step + 1) /\ error)
    <3>1. requested' \in BOOLEAN
      BY <1>7, <2>2, Zenon DEF StepGoesOn
    <3>2. submitted' = submitted + 1 \/ submitted' = submitted
      BY <1>7, <2>2, Zenon DEF StepGoesOn
    <3>3. step' = step + 1 /\ mode' = mode /\ control' \in {"tick", "over"}
      BY <1>7, <2>2, Zenon DEF StepGoesOn
    <3>4. step + 1 \in 0..EpisodeLength
      BY <1>0, <1>7 DEF StepGoesOn, Phased
    <3> QED
      BY <3>1, <3>2, <3>3, <3>4
  <2> QED
    BY <2>1, <2>2
<1>8. CASE StepFails
  BY <1>0, <1>8 DEF StepFails, Crash
<1>9. CASE FinishEpisode
  BY <1>0, <1>9 DEF FinishEpisode, Crash
<1>10. CASE DrainFinal
  BY <1>0, <1>10 DEF DrainFinal
<1>11. CASE DrainFails
  BY <1>0, <1>11 DEF DrainFails, Crash
<1>12. CASE Record
  BY <1>0, <1>12 DEF Record
<1>13. CASE SyncStart
  BY <1>0, <1>13 DEF SyncStart
<1>14. CASE SyncInfer
  BY <1>0, <1>14 DEF SyncInfer
<1>15. CASE SyncStep
  BY <1>0, <1>15 DEF SyncStep
<1>16. CASE SyncRecord
  BY <1>0, <1>16 DEF SyncRecord
<1>17. CASE SyncFails
  BY <1>0, <1>17 DEF SyncFails, Crash
<1>18. CASE Close
  BY <1>0, <1>18 DEF Close
<1>19. CASE Join
  BY <1>0, <1>19 DEF Join
<1>20. CASE Inference \/ UNCHANGED vars
  BY <1>20, Zenon DEF Inference, vars, caller
<1> QED
  BY <1>1, <1>2, <1>3, <1>4, <1>5, <1>6, <1>7, <1>8, <1>9, <1>10, <1>11, <1>12, <1>13, <1>14,
     <1>15, <1>16, <1>17, <1>18, <1>19, <1>20, Zenon DEF Next, Control

(* What a step does to the queue, the held action and the list of events.    *)
Merging ==
    /\ control \in {"awaiting", "tick"} /\ mode # "sync" /\ DrainDue
    /\ events' = MergeDue.events /\ UNCHANGED <<step, submitted, mode>>
QueueMoves ==
    \/ queue' = <<>> /\ last' = NoAction
    \/ Merging /\ control = "awaiting" /\ queue' = MergeDue.queue /\ last' = last
    \/ /\ Merging /\ control = "tick"
       /\ IF MergeDue.queue = <<>> THEN queue' = <<>> /\ last' = last
          ELSE queue' = Tail(MergeDue.queue) /\ last' = Head(MergeDue.queue)
    \/ SyncInfer
    \/ SyncStep
    \/ UNCHANGED <<queue, last>>
EventMoves ==
    \/ (StartEpisode \/ SyncStart) /\ events' = <<>>
    \/ Merging
    \/ DrainFinal
    \/ SyncInfer
    \/ UNCHANGED events

LEMMA StepsOfLoop ==
    ASSUME Phased, [Next]_vars
    PROVE  QueueMoves /\ EventMoves
<1> USE Zenon DEF QueueMoves, EventMoves
<1>0. control \in {"awaiting", "tick"} => mode # "sync"
  BY SMT DEF Phased
<1>1. CASE StartEpisode
  BY <1>1 DEF StartEpisode
<1>2. CASE SubmitFirst
  BY <1>2 DEF SubmitFirst, Crash
<1>3. CASE FirstChunk
  <2>1. Merging
    BY <1>0, <1>3 DEF FirstChunk, Merging
  <2> QED
    BY <1>3, <2>1 DEF FirstChunk
<1>4. CASE Tick
  <2>1. CASE error
    BY <1>4, <2>1 DEF Tick, Crash
  <2>2. CASE ~error
    <3>1. Merging /\ control = "tick"
      BY <1>0, <1>4, <2>2 DEF Tick, Merging
    <3>2. IF MergeDue.queue = <<>> THEN queue' = <<>> /\ last' = last
          ELSE queue' = Tail(MergeDue.queue) /\ last' = Head(MergeDue.queue)
      BY <1>4, <2>2 DEF Tick
    <3> QED
      BY <3>1, <3>2
  <2> QED
    BY <2>1, <2>2
<1>5. CASE StepGoesOn
  BY <1>5 DEF StepGoesOn, Crash
<1>6. CASE FinishEpisode
  BY <1>6 DEF FinishEpisode, Crash
<1>7. CASE DrainFinal
  BY <1>7 DEF DrainFinal
<1>8. CASE FirstChunkFails \/ StepEnds \/ StepFails \/ DrainFails \/ Record \/ SyncRecord
             \/ SyncFails \/ Join \/ Close
  BY <1>8 DEF FirstChunkFails, StepEnds, StepFails, DrainFails, Record, SyncRecord, SyncFails,
     Join, Close, Crash
<1>9. CASE SyncStart
  BY <1>9 DEF SyncStart
<1>10. CASE SyncInfer \/ SyncStep
  BY <1>10 DEF SyncInfer, SyncStep
<1>11. CASE Inference \/ UNCHANGED vars
  BY <1>11 DEF Inference, vars, caller
<1> QED
  BY <1>1, <1>2, <1>3, <1>4, <1>5, <1>6, <1>7, <1>8, <1>9, <1>10, <1>11
     DEF Next, Control

LEMMA Popped ==
    ASSUME NEW S, NEW s \in Seq(S), s # <<>>
    PROVE  /\ Head(s) \in S /\ Head(s) = s[1] /\ 1 \in DOMAIN s
           /\ Tail(s) \in Seq(S) /\ Len(Tail(s)) = Len(s) - 1
           /\ \A i \in DOMAIN Tail(s) : i + 1 \in DOMAIN s /\ Tail(s)[i] = s[i + 1]
OBVIOUS

LEMMA QueueTypeKeeps ==
    ASSUME Assumed, WorkerType, CallerType, Phased, Own, NotAhead, QueueMoves
    PROVE  queue' \in Seq(Planned) /\ last' \in Planned \cup {NoAction}
<1> USE DEF CallerType
<1>0. MergeDue.queue \in Seq(Planned)
  BY QueueIsPlanned
<1>1. CASE queue' = <<>> /\ last' = NoAction
  BY <1>1
<1>2. CASE queue' = MergeDue.queue /\ last' = last
  BY <1>0, <1>2
<1>3. CASE IF MergeDue.queue = <<>> THEN queue' = <<>> /\ last' = last
           ELSE queue' = Tail(MergeDue.queue) /\ last' = Head(MergeDue.queue)
  BY <1>0, <1>3, Popped
<1>4. CASE SyncInfer
  <2>1. PICK n \in ChunkLengths :
          queue' = Actions([gen |-> generation, obs |-> step, len |-> n], 0) /\ last' = last
    BY <1>4 DEF SyncInfer
  <2>2. queue' = [i \in 1..n |-> [gen |-> generation, obs |-> step, at |-> i - 1]]
    BY <2>1 DEF Actions, Assumed, WorkerAssumption
  <2>3. n \in Nat
    BY DEF Assumed, WorkerAssumption
  <2>4. \A i \in 1..n : [gen |-> generation, obs |-> step, at |-> i - 1] \in Planned
    BY <2>3 DEF Planned, WorkerType
  <2>5. queue' \in [1..n -> Planned]
    BY <2>2, <2>4
  <2> QED
    BY <2>1, <2>3, <2>5, Listing
<1>5. CASE SyncStep
  BY <1>5, Popped DEF SyncStep
<1>6. CASE UNCHANGED <<queue, last>>
  BY <1>6
<1> QED
  BY <1>1, <1>2, <1>3, <1>4, <1>5, <1>6, Zenon DEF QueueMoves

LEMMA EventsEnded ==
    ASSUME Assumed, WorkerType, CallerType, DrainFinal
    PROVE  /\ events' \in Seq(Listed) /\ Len(events') = Len(events) + Len(results)
           /\ \A i \in 1..Len(events) : events'[i] = events[i]
           /\ \A i \in 1..Len(results) :
                /\ events'[Len(events) + i].obs = results[i].obs
                /\ events'[Len(events) + i].verdict = "episode_ended"
<1> DEFINE n == Len(results)
           new == [i \in DOMAIN results |->
                     [obs |-> results[i].obs, verdict |-> "episode_ended"]]
<1>1. events' = events \o new
  BY DEF DrainFinal
<1>2. n \in Nat /\ DOMAIN results = 1..n /\ events \in Seq(Listed)
  BY DEF WorkerType, CallerType
<1>3. \A i \in DOMAIN results : results[i] \in Results
  BY DEF WorkerType
<1>4. \A i \in DOMAIN results : results[i].obs \in 0..EpisodeLength
  BY <1>3, ResultShape
<1>5. new \in [1..n -> Listed]
  BY <1>2, <1>4 DEF Listed
<1>6. \A i \in 1..n : new[i].obs = results[i].obs /\ new[i].verdict = "episode_ended"
  BY <1>2
<1>7. n = Len(results)
  OBVIOUS
<1> HIDE DEF new, n
<1>8. /\ events \o new \in Seq(Listed) /\ Len(events \o new) = Len(events) + n
      /\ \A i \in 1..Len(events) : (events \o new)[i] = events[i]
      /\ \A i \in 1..n : (events \o new)[Len(events) + i] = new[i]
  BY <1>2, <1>5, Joined
<1> QED
  BY <1>1, <1>6, <1>7, <1>8

LEMMA EventTypeKeeps ==
    ASSUME Assumed, WorkerType, CallerType, EventMoves
    PROVE  events' \in Seq(Listed)
<1> USE DEF CallerType
<1>1. CASE events' = <<>>
  BY <1>1
<1>2. CASE Merging
  BY <1>2, EventsMerged DEF Merging
<1>3. CASE DrainFinal
  BY <1>3, EventsEnded
<1>4. CASE SyncInfer
  <2>1. [obs |-> step, verdict |-> "replaced"] \in Listed
    BY DEF Listed
  <2> QED
    BY <1>4, <2>1 DEF SyncInfer
<1>5. CASE UNCHANGED events
  BY <1>5
<1> QED
  BY <1>1, <1>2, <1>3, <1>4, <1>5, Zenon DEF EventMoves

-----------------------------------------------------------------------------
(* Nothing of another episode *)

LEMMA EpisodeMoves ==
    ASSUME [Next]_vars
    PROVE  \/ UNCHANGED generation
           \/ generation' = generation + 1 /\ queue' = <<>> /\ last' = NoAction
<1> USE Zenon
<1>1. CASE StartEpisode \/ SyncStart
  BY <1>1 DEF StartEpisode, SyncStart, ResetEpisode
<1>2. CASE SubmitFirst \/ FirstChunk \/ FirstChunkFails
  BY <1>2 DEF SubmitFirst, FirstChunk, FirstChunkFails, Submit, DrainDue, Crash, worker
<1>3. CASE Tick
  BY <1>3 DEF Tick, DrainDue, Crash, worker
<1>4. CASE StepGoesOn
  BY <1>4 DEF StepGoesOn, Submit, Crash, worker
<1>5. CASE FinishEpisode \/ DrainFinal
  BY <1>5 DEF FinishEpisode, DrainFinal, CancelPending, DrainAll, Crash, worker
<1>6. CASE StepEnds \/ StepFails \/ DrainFails \/ Record \/ SyncInfer \/ SyncStep \/ SyncRecord
             \/ SyncFails \/ Join
  BY <1>6 DEF StepEnds, StepFails, DrainFails, Record, SyncInfer, SyncStep, SyncRecord,
     SyncFails, Join, Crash, worker
<1>7. CASE Close
  BY <1>7 DEF Close, CloseWorker, worker
<1>8. CASE Inference
  BY <1>8 DEF Inference, Take, Finish, Fail, End, BecomeDue
<1>9. CASE UNCHANGED vars
  BY <1>9 DEF vars, worker
<1> QED
  BY <1>1, <1>2, <1>3, <1>4, <1>5, <1>6, <1>7, <1>8, <1>9 DEF Next, Control

(* The worker's part of Own, by what the worker does.                        *)
OwnRequests ==
    /\ Waiting => pending.gen = generation /\ pending.obs >= 0
    /\ active # NoRequest => active.gen <= generation /\ active.obs >= 0
OwnResults == \A i \in DOMAIN results : results[i].gen = generation

LEMMA OwnRequestsKeep ==
    ASSUME Assumed, WorkerType, Phased, OwnRequests, WorkerMoves
    PROVE  OwnRequests'
<1> USE DEF OwnRequests, Waiting
<1>0. generation \in Nat /\ active \in Requests /\ (active # NoRequest => active.gen \in Nat)
  BY DEF WorkerType, Requests
<1>1. CASE ResetEpisode
  BY <1>0, <1>1 DEF ResetEpisode
<1>2. ASSUME NEW obs \in 0..EpisodeLength, Submit(obs) PROVE OwnRequests'
  BY <1>0, <1>2 DEF Submit
<1>3. CASE DrainDue \/ DrainAll \/ Fail \/ End \/ BecomeDue \/ UNCHANGED worker
  BY <1>0, <1>3 DEF DrainDue, DrainAll, Fail, End, BecomeDue, worker
<1>4. CASE CancelPending \/ CloseWorker
  BY <1>0, <1>4 DEF CancelPending, CloseWorker
<1>5. CASE Take
  BY <1>0, <1>5 DEF Take
<1>6. CASE Finish
  BY <1>0, <1>6 DEF Finish
<1>7. CASE SyncStart
  BY <1>0, <1>7 DEF SyncStart, Phased, Idle
<1> QED
  BY <1>1, <1>2, <1>3, <1>4, <1>5, <1>6, <1>7 DEF WorkerMoves

LEMMA OwnResultsKeep ==
    ASSUME Assumed, WorkerType, Phased, OwnResults, WorkerMoves
    PROVE  OwnResults'
<1> USE DEF OwnResults
<1>1. CASE ResetEpisode \/ DrainAll
  BY <1>1 DEF ResetEpisode, DrainAll
<1>2. ASSUME NEW obs \in 0..EpisodeLength, Submit(obs) PROVE OwnResults'
  BY <1>2 DEF Submit
<1>3. CASE CancelPending \/ CloseWorker \/ Take \/ Fail \/ End \/ UNCHANGED worker
  BY <1>3, Zenon DEF CancelPending, CloseWorker, Take, Fail, End, worker
<1>4. CASE DrainDue
  <2>1. DueCount \in 0..Len(results) /\ results \in Seq(Results)
    BY DueIsPrefix DEF WorkerType
  <2>2. generation' = generation /\ results' = SubSeq(results, DueCount + 1, Len(results))
    BY <1>4 DEF DrainDue
  <2> QED
    BY <2>1, <2>2, Rest
<1>5. CASE Finish
  <2>1. CASE UNCHANGED results
    BY <1>5, <2>1, Zenon DEF Finish
  <2>2. ASSUME active.gen = generation, NEW n \in ChunkLengths, results' = Append(results,
                 [gen |-> active.gen, obs |-> active.obs, len |-> n, due |-> FALSE])
        PROVE  OwnResults'
    BY <1>5, <2>2 DEF Finish, WorkerType
  <2> QED
    BY <1>5, <2>1, <2>2, Zenon DEF Finish
<1>6. CASE BecomeDue
  <2>1. PICK k \in DOMAIN results : results' = [results EXCEPT ![k].due = TRUE]
    BY <1>6 DEF BecomeDue
  <2>2. \A i \in DOMAIN results : results'[i].gen = results[i].gen
    BY <2>1 DEF WorkerType, Results
  <2>3. DOMAIN results' = DOMAIN results /\ generation' = generation
    BY <1>6, <2>1 DEF BecomeDue
  <2> QED
    BY <2>2, <2>3
<1>7. CASE SyncStart
  BY <1>7 DEF SyncStart, Phased
<1> QED
  BY <1>1, <1>2, <1>3, <1>4, <1>5, <1>6, <1>7 DEF WorkerMoves

LEMMA OwnQueueKeeps ==
    ASSUME Assumed, WorkerType, CallerType, Phased, Own, NotAhead, QueueMoves, [Next]_vars
    PROVE  /\ \A i \in DOMAIN queue' : queue'[i].gen = generation'
           /\ last' # NoAction => last'.gen = generation'
<1>1. CASE queue' = <<>> /\ last' = NoAction
  BY <1>1
<1>2. CASE UNCHANGED generation
  <2>0. /\ MergeDue.queue \in Seq(Planned)
        /\ \A i \in DOMAIN MergeDue.queue : MergeDue.queue[i].gen = generation
    BY QueueIsPlanned DEF Own
  <2>1. CASE queue' = MergeDue.queue /\ last' = last
    BY <1>2, <2>0, <2>1 DEF Own
  <2>2. CASE IF MergeDue.queue = <<>> THEN queue' = <<>> /\ last' = last
             ELSE queue' = Tail(MergeDue.queue) /\ last' = Head(MergeDue.queue)
    <3>1. CASE MergeDue.queue = <<>>
      BY <1>2, <2>2, <3>1 DEF Own
    <3>2. CASE MergeDue.queue # <<>>
      BY <1>2, <2>0, <2>2, <3>2, Popped
    <3> QED
      BY <3>1, <3>2
  <2>3. CASE SyncInfer
    <3>1. PICK n \in ChunkLengths :
            queue' = Actions([gen |-> generation, obs |-> step, len |-> n], 0) /\ last' = last
      BY <2>3 DEF SyncInfer
    <3> QED
      BY <1>2, <3>1 DEF Actions, Own
  <2>4. CASE SyncStep
    BY <1>2, <2>4, Popped DEF SyncStep, Own, CallerType
  <2>5. CASE UNCHANGED <<queue, last>>
    BY <1>2, <2>5 DEF Own
  <2> QED
    BY <1>1, <2>1, <2>2, <2>3, <2>4, <2>5, Zenon DEF QueueMoves
<1> QED
  BY <1>1, <1>2, EpisodeMoves

LEMMA OwnKeeps ==
    ASSUME Assumed, WorkerType, CallerType, Phased, Own, NotAhead, [Next]_vars
    PROVE  Own'
<1>1. WorkerMoves /\ QueueMoves
  BY StepsOfWorker, StepsOfLoop
<1>2. OwnRequests /\ OwnResults
  BY Zenon DEF Own, OwnRequests, OwnResults
<1>3. OwnRequests' /\ OwnResults'
  BY <1>1, <1>2, OwnRequestsKeep, OwnResultsKeep
<1> QED
  BY <1>1, <1>3, OwnQueueKeeps, Zenon DEF Own, OwnRequests, OwnResults

-----------------------------------------------------------------------------
(* Where the loop is *)

LEMMA PhasedKeeps ==
    ASSUME Assumed, WorkerType, CallerType, Phased, Own, [Next]_vars
    PROVE  Phased'
<1> USE DEF Phased, Running, Waiting, Idle
<1>0. /\ EpisodeLength \in Nat /\ step \in Nat /\ generation \in Nat
      /\ active # NoRequest => active.gen <= generation /\ active.gen \in Nat
  BY DEF Assumed, BenchmarkAssumption, CallerType, WorkerType, Own, Requests
<1>1. CASE StartEpisode
  BY <1>0, <1>1 DEF StartEpisode, ResetEpisode
<1>2. CASE SubmitFirst
  BY <1>0, <1>2 DEF SubmitFirst, Submit, Crash, worker
<1>3. CASE FirstChunk
  BY <1>0, <1>3 DEF FirstChunk, DrainDue
<1>4. CASE FirstChunkFails
  BY <1>0, <1>4 DEF FirstChunkFails, Crash, worker
<1>5. CASE Tick
  BY <1>0, <1>5 DEF Tick, DrainDue, Crash, worker
<1>6. CASE StepEnds
  BY <1>0, <1>6 DEF StepEnds, worker
<1>7. CASE StepGoesOn
  BY <1>0, <1>7 DEF StepGoesOn, Submit, Crash, worker
<1>8. CASE StepFails
  BY <1>0, <1>8 DEF StepFails, Crash, worker
<1>9. CASE FinishEpisode
  BY <1>0, <1>9 DEF FinishEpisode, CancelPending, Crash, worker
<1>10. CASE DrainFinal
  BY <1>0, <1>10 DEF DrainFinal, DrainAll
<1>11. CASE DrainFails
  BY <1>0, <1>11 DEF DrainFails, Crash, worker
<1>12. CASE Record
  BY <1>0, <1>12 DEF Record, worker
<1>13. CASE SyncStart
  BY <1>0, <1>13 DEF SyncStart
<1>14. CASE SyncInfer
  BY <1>0, <1>14 DEF SyncInfer, worker
<1>15. CASE SyncStep
  BY <1>0, <1>15 DEF SyncStep, worker
<1>16. CASE SyncRecord
  BY <1>0, <1>16 DEF SyncRecord, worker
<1>17. CASE SyncFails
  BY <1>0, <1>17 DEF SyncFails, Crash, worker
<1>18. CASE Close
  BY <1>0, <1>18 DEF Close, CloseWorker, worker
<1>19. CASE Join
  BY <1>0, <1>19 DEF Join, worker
<1>20. CASE Take /\ UNCHANGED caller
  BY <1>0, <1>20 DEF Take, caller
<1>21. CASE Finish /\ UNCHANGED caller
  BY <1>0, <1>21 DEF Finish, caller
<1>22. CASE Fail /\ UNCHANGED caller
  BY <1>0, <1>22 DEF Fail, caller
<1>23. CASE End /\ UNCHANGED caller
  BY <1>0, <1>23 DEF End, caller
<1>24. CASE BecomeDue /\ UNCHANGED caller
  BY <1>0, <1>24 DEF BecomeDue, caller
<1>25. CASE UNCHANGED vars
  BY <1>25 DEF vars, worker, caller
<1> QED
  BY <1>1, <1>2, <1>3, <1>4, <1>5, <1>6, <1>7, <1>8, <1>9, <1>10, <1>11, <1>12, <1>13, <1>14,
     <1>15, <1>16, <1>17, <1>18, <1>19, <1>20, <1>21, <1>22, <1>23, <1>24, <1>25 DEF Next,
     Control, Inference

LEMMA NothingOutlivesKeeps ==
    ASSUME Assumed, WorkerType, CallerType, Phased, Own, NothingOutlives, [Next]_vars
    PROVE  NothingOutlives'
<1> USE DEF NothingOutlives, Phased, Running, Waiting, Idle
<1>0. Waiting => pending.gen = generation
  BY DEF Own
<1>1. CASE StartEpisode
  BY <1>0, <1>1 DEF StartEpisode, ResetEpisode
<1>2. CASE SubmitFirst
  BY <1>0, <1>2 DEF SubmitFirst, Submit, Crash, worker
<1>3. CASE FirstChunk
  BY <1>0, <1>3 DEF FirstChunk, DrainDue
<1>4. CASE FirstChunkFails
  BY <1>0, <1>4 DEF FirstChunkFails, Crash, worker
<1>5. CASE Tick
  BY <1>0, <1>5 DEF Tick, DrainDue, Crash, worker
<1>6. CASE StepEnds
  BY <1>0, <1>6 DEF StepEnds, worker
<1>7. CASE StepGoesOn
  BY <1>0, <1>7 DEF StepGoesOn, Submit, Crash, worker
<1>8. CASE StepFails
  BY <1>0, <1>8 DEF StepFails, Crash, worker
<1>9. CASE FinishEpisode
  BY <1>0, <1>9 DEF FinishEpisode, CancelPending, Crash, worker
<1>10. CASE DrainFinal
  BY <1>0, <1>10 DEF DrainFinal, DrainAll
<1>11. CASE DrainFails
  BY <1>0, <1>11 DEF DrainFails, Crash, worker
<1>12. CASE Record
  BY <1>0, <1>12 DEF Record, worker
<1>13. CASE SyncStart
  BY <1>0, <1>13 DEF SyncStart
<1>14. CASE SyncInfer
  BY <1>0, <1>14 DEF SyncInfer, worker
<1>15. CASE SyncStep
  BY <1>0, <1>15 DEF SyncStep, worker
<1>16. CASE SyncRecord
  BY <1>0, <1>16 DEF SyncRecord, worker
<1>17. CASE SyncFails
  BY <1>0, <1>17 DEF SyncFails, Crash, worker
<1>18. CASE Close
  BY <1>0, <1>18 DEF Close, CloseWorker, worker
<1>19. CASE Join
  BY <1>0, <1>19 DEF Join, worker
<1>20. CASE Take /\ UNCHANGED caller
  BY <1>0, <1>20 DEF Take, caller
<1>21. CASE Finish /\ UNCHANGED caller
  BY <1>0, <1>21 DEF Finish, caller
<1>22. CASE Fail /\ UNCHANGED caller
  BY <1>0, <1>22 DEF Fail, caller
<1>23. CASE End /\ UNCHANGED caller
  BY <1>0, <1>23 DEF End, caller
<1>24. CASE BecomeDue /\ UNCHANGED caller
  BY <1>0, <1>24 DEF BecomeDue, caller
<1>25. CASE UNCHANGED vars
  BY <1>25 DEF vars, worker, caller
<1> QED
  BY <1>1, <1>2, <1>3, <1>4, <1>5, <1>6, <1>7, <1>8, <1>9, <1>10, <1>11, <1>12, <1>13, <1>14,
     <1>15, <1>16, <1>17, <1>18, <1>19, <1>20, <1>21, <1>22, <1>23, <1>24, <1>25 DEF Next,
     Control, Inference

-----------------------------------------------------------------------------
(* Every request is accounted for *)

LEMMA Lengths ==
    ASSUME Assumed, WorkerType, CallerType
    PROVE  /\ Len(events) \in Nat /\ Len(results) \in Nat
           /\ Merging => /\ Len(events') = Len(events) + DueCount
                         /\ Len(results') = Len(results) - DueCount
                         /\ DueCount \in 0..Len(results)
           /\ DrainFinal => Len(events') = Len(events) + Len(results) /\ Len(results') = 0
           /\ Finish => \/ active.gen = generation /\ Len(results') = Len(results) + 1
                        \/ active.gen # generation /\ UNCHANGED results
           /\ BecomeDue => Len(results') = Len(results)
<1>1. events \in Seq(Listed) /\ results \in Seq(Results)
  BY DEF WorkerType, CallerType
<1>2. Merging => /\ Len(events') = Len(events) + DueCount
                 /\ Len(results') = Len(results) - DueCount
                 /\ DueCount \in 0..Len(results)
  BY <1>1, DueIsPrefix, EventsMerged, Rest DEF Merging, DrainDue
<1>3. DrainFinal => Len(events') = Len(events) + Len(results) /\ Len(results') = 0
  BY EventsEnded DEF DrainFinal, DrainAll
<1>4. Finish => \/ active.gen = generation /\ Len(results') = Len(results) + 1
                \/ active.gen # generation /\ UNCHANGED results
  <2>1. \A r : Len(Append(results, r)) = Len(results) + 1
    BY <1>1
  <2> QED
    BY <2>1, Zenon DEF Finish
<1>5. BecomeDue => Len(results') = Len(results)
  BY <1>1 DEF BecomeDue
<1> QED
  BY <1>1, <1>2, <1>3, <1>4, <1>5

(* The inferences that were counted, and the one under way.                 *)
Inferred == mode # "sync" /\ ~error =>
    count.started = count.completed + (IF Running THEN 1 ELSE 0)
Completed == mode # "sync" => count.completed = Len(events) + Len(results)
Asked == mode # "sync" /\ control \notin {"joining", "exit"} =>
    submitted = count.started + count.replaced + count.cancelled
                  + (IF Waiting THEN 1 ELSE 0)

LEMMA InferredKeeps ==
    ASSUME Assumed, WorkerType, CallerType, Phased, Own, Inferred, [Next]_vars
    PROVE  Inferred'
<1> USE DEF Inferred, Running, Waiting, Counts, Phased, NoCounts
<1>0. /\ Len(events) \in Nat /\ Len(results) \in Nat /\ count \in Counts /\ generation \in Nat
      /\ submitted \in Nat
      /\ active # NoRequest => active.gen <= generation /\ active.gen \in Nat
      /\ Waiting => pending.gen = generation
  BY Lengths DEF CallerType, WorkerType, Own, Requests
<1>1. CASE StartEpisode
  BY <1>0, <1>1 DEF StartEpisode, ResetEpisode
<1>2. CASE SubmitFirst
  BY <1>0, <1>2 DEF SubmitFirst, Submit, Crash, worker
<1>3. CASE FirstChunk
  BY <1>0, <1>3 DEF FirstChunk, DrainDue
<1>4. CASE FirstChunkFails
  BY <1>0, <1>4 DEF FirstChunkFails, Crash, worker
<1>5. CASE Tick
  BY <1>0, <1>5 DEF Tick, DrainDue, Crash, worker
<1>6. CASE StepEnds
  BY <1>0, <1>6 DEF StepEnds, worker
<1>7. CASE StepGoesOn
  BY <1>0, <1>7 DEF StepGoesOn, Submit, Crash, worker
<1>8. CASE StepFails
  BY <1>0, <1>8 DEF StepFails, Crash, worker
<1>9. CASE FinishEpisode
  BY <1>0, <1>9 DEF FinishEpisode, CancelPending, Crash, worker
<1>10. CASE DrainFinal
  BY <1>0, <1>10 DEF DrainFinal, DrainAll
<1>11. CASE DrainFails
  BY <1>0, <1>11 DEF DrainFails, Crash, worker
<1>12. CASE Record
  BY <1>0, <1>12 DEF Record, worker
<1>13. CASE SyncStart
  BY <1>0, <1>13 DEF SyncStart
<1>14. CASE SyncInfer
  BY <1>0, <1>14 DEF SyncInfer, worker
<1>15. CASE SyncStep
  BY <1>0, <1>15 DEF SyncStep, worker
<1>16. CASE SyncRecord
  BY <1>0, <1>16 DEF SyncRecord, worker
<1>17. CASE SyncFails
  BY <1>0, <1>17 DEF SyncFails, Crash, worker
<1>18. CASE Close
  BY <1>0, <1>18 DEF Close, CloseWorker, worker
<1>19. CASE Join
  BY <1>0, <1>19 DEF Join, worker
<1>20. CASE Take /\ UNCHANGED caller
  BY <1>0, <1>20 DEF Take, caller
<1>21. CASE Finish /\ UNCHANGED caller
  BY <1>0, <1>21 DEF Finish, caller
<1>22. CASE Fail /\ UNCHANGED caller
  BY <1>0, <1>22 DEF Fail, caller
<1>23. CASE End /\ UNCHANGED caller
  BY <1>0, <1>23 DEF End, caller
<1>24. CASE BecomeDue /\ UNCHANGED caller
  BY <1>0, <1>24 DEF BecomeDue, caller
<1>25. CASE UNCHANGED vars
  BY <1>25 DEF vars, worker, caller
<1> QED
  BY <1>1, <1>2, <1>3, <1>4, <1>5, <1>6, <1>7, <1>8, <1>9, <1>10, <1>11, <1>12, <1>13,
     <1>14, <1>15, <1>16, <1>17, <1>18, <1>19, <1>20, <1>21, <1>22, <1>23, <1>24,
     <1>25 DEF Next, Control, Inference

LEMMA MailboxFills ==
    ASSUME Assumed, WorkerType, NEW obs \in 0..EpisodeLength, Submit(obs)
    PROVE  /\ Waiting' /\ count'.started = count.started /\ count'.cancelled = count.cancelled
           /\ count'.replaced = count.replaced + (IF Waiting THEN 1 ELSE 0)
<1>1. pending'.obs = obs /\ NoRequest.obs = -1 /\ obs # -1
  BY DEF Submit, NoRequest, Assumed, BenchmarkAssumption
<1>2. pending' # NoRequest
  BY <1>1
<1>3. count \in Counts
  BY DEF WorkerType
<1>4. CASE Waiting
  BY <1>2, <1>3, <1>4 DEF Submit, Waiting, Counts
<1>5. CASE ~Waiting
  BY <1>2, <1>3, <1>5 DEF Submit, Waiting, Counts
<1> QED
  BY <1>4, <1>5

LEMMA MailboxEmpties ==
    ASSUME WorkerType, CancelPending
    PROVE  /\ ~Waiting' /\ count'.started = count.started /\ count'.replaced = count.replaced
           /\ count'.cancelled = count.cancelled + (IF Waiting THEN 1 ELSE 0)
<1>1. count \in Counts
  BY DEF WorkerType
<1>2. CASE Waiting
  BY <1>1, <1>2 DEF CancelPending, Waiting, Counts
<1>3. CASE ~Waiting
  BY <1>1, <1>3 DEF CancelPending, Waiting, Counts
<1> QED
  BY <1>2, <1>3

LEMMA AskedKeeps ==
    ASSUME Assumed, WorkerType, CallerType, Phased, Own, Asked, [Next]_vars
    PROVE  Asked'
<1> USE DEF Asked, Waiting, Counts, Phased, NoCounts
<1>0. /\ Len(events) \in Nat /\ Len(results) \in Nat /\ count \in Counts /\ generation \in Nat
      /\ submitted \in Nat
      /\ active # NoRequest => active.gen <= generation /\ active.gen \in Nat
      /\ Waiting => pending.gen = generation
  BY Lengths DEF CallerType, WorkerType, Own, Requests
<1>1. CASE StartEpisode
  BY <1>0, <1>1 DEF StartEpisode, ResetEpisode
<1>2. CASE SubmitFirst
  <2>1. CASE error
    BY <1>0, <1>2, <2>1 DEF SubmitFirst, Crash, worker
  <2>2. CASE ~error
    <3>1. Submit(0) /\ submitted' = 1 /\ submitted = 0 /\ ~Waiting
      BY <1>2, <2>2 DEF SubmitFirst
    <3>2. 0 \in 0..EpisodeLength
      BY DEF Assumed, BenchmarkAssumption
    <3>3. mode' = mode /\ control \notin {"joining", "exit"}
      BY <1>2, <2>2 DEF SubmitFirst
    <3> HIDE DEF Waiting
    <3>4. /\ Waiting' /\ count'.started = count.started /\ count'.cancelled = count.cancelled
          /\ count'.replaced = count.replaced + (IF Waiting THEN 1 ELSE 0)
      BY <3>1, <3>2, MailboxFills, Zenon
    <3> QED
      BY <1>0, <3>1, <3>3, <3>4
  <2> QED
    BY <2>1, <2>2
<1>3. CASE FirstChunk
  BY <1>0, <1>3 DEF FirstChunk, DrainDue
<1>4. CASE FirstChunkFails
  BY <1>0, <1>4 DEF FirstChunkFails, Crash, worker
<1>5. CASE Tick
  BY <1>0, <1>5 DEF Tick, DrainDue, Crash, worker
<1>6. CASE StepEnds
  BY <1>0, <1>6 DEF StepEnds, worker
<1>7. CASE StepGoesOn
  <2>1. CASE WantsRequest(step + 1) /\ ~error
    <3>1. Submit(step + 1) /\ submitted' = submitted + 1 /\ step + 1 \in 0..EpisodeLength
      BY <1>7, <2>1 DEF StepGoesOn, CallerType, Assumed, BenchmarkAssumption
    <3>2. mode' = mode /\ control \notin {"joining", "exit"}
      BY <1>7, <2>1, SMT DEF StepGoesOn
    <3> HIDE DEF Waiting
    <3>3. /\ Waiting' /\ count'.started = count.started /\ count'.cancelled = count.cancelled
          /\ count'.replaced = count.replaced + (IF Waiting THEN 1 ELSE 0)
      BY <3>1, MailboxFills, Zenon
    <3> QED
      BY <1>0, <3>1, <3>2, <3>3
  <2>2. CASE ~(WantsRequest(step + 1) /\ ~error)
    <3>1. UNCHANGED <<worker, submitted, mode>> /\ control # "joining" /\ control # "exit"
      BY <1>7, <2>2, Zenon DEF StepGoesOn, Crash
    <3> QED
      BY <3>1 DEF worker
  <2> QED
    BY <2>1, <2>2
<1>8. CASE StepFails
  BY <1>0, <1>8 DEF StepFails, Crash, worker
<1>9. CASE FinishEpisode
  <2>1. CASE error
    BY <1>0, <1>9, <2>1 DEF FinishEpisode, Crash, worker
  <2>2. CASE ~error
    <3>1. CancelPending /\ submitted' = submitted
      BY <1>9, <2>2 DEF FinishEpisode
    <3>2. mode' = mode /\ control \notin {"joining", "exit"}
      BY <1>9, <2>2 DEF FinishEpisode
    <3> HIDE DEF Waiting
    <3> QED
      BY <1>0, <3>1, <3>2, MailboxEmpties
  <2> QED
    BY <2>1, <2>2
<1>10. CASE DrainFinal
  BY <1>0, <1>10 DEF DrainFinal, DrainAll
<1>11. CASE DrainFails
  BY <1>0, <1>11 DEF DrainFails, Crash, worker
<1>12. CASE Record
  BY <1>0, <1>12 DEF Record, worker
<1>13. CASE SyncStart
  BY <1>0, <1>13 DEF SyncStart
<1>14. CASE SyncInfer
  BY <1>0, <1>14 DEF SyncInfer, worker
<1>15. CASE SyncStep
  BY <1>0, <1>15 DEF SyncStep, worker
<1>16. CASE SyncRecord
  BY <1>0, <1>16 DEF SyncRecord, worker
<1>17. CASE SyncFails
  BY <1>0, <1>17 DEF SyncFails, Crash, worker
<1>18. CASE Close
  BY <1>0, <1>18 DEF Close, CloseWorker, worker
<1>19. CASE Join
  BY <1>0, <1>19 DEF Join, worker
<1>20. CASE Take /\ UNCHANGED caller
  BY <1>0, <1>20 DEF Take, caller
<1>21. CASE Finish /\ UNCHANGED caller
  BY <1>0, <1>21 DEF Finish, caller
<1>22. CASE Fail /\ UNCHANGED caller
  BY <1>0, <1>22 DEF Fail, caller
<1>23. CASE End /\ UNCHANGED caller
  BY <1>0, <1>23 DEF End, caller
<1>24. CASE BecomeDue /\ UNCHANGED caller
  BY <1>0, <1>24 DEF BecomeDue, caller
<1>25. CASE UNCHANGED vars
  BY <1>25 DEF vars, worker, caller
<1> QED
  BY <1>1, <1>2, <1>3, <1>4, <1>5, <1>6, <1>7, <1>8, <1>9, <1>10, <1>11, <1>12, <1>13,
     <1>14, <1>15, <1>16, <1>17, <1>18, <1>19, <1>20, <1>21, <1>22, <1>23, <1>24,
     <1>25 DEF Next, Control, Inference

LEMMA CompletedKeeps ==
    ASSUME Assumed, WorkerType, CallerType, Phased, Completed, [Next]_vars
    PROVE  Completed'
<1> USE DEF Completed, Phased, NoCounts, WorkerType, Counts
<1>0. /\ Len(events) \in Nat /\ Len(results) \in Nat /\ count.completed \in Nat
      /\ (Merging \/ DrainFinal) => Len(events') + Len(results') = Len(events) + Len(results)
      /\ Finish => \/ active.gen = generation /\ Len(results') = Len(results) + 1
                   \/ active.gen # generation /\ UNCHANGED results
      /\ BecomeDue => Len(results') = Len(results)
  BY Lengths DEF WorkerType, Counts
<1>1. CASE StartEpisode
  BY <1>0, <1>1 DEF StartEpisode, ResetEpisode
<1>2. CASE SubmitFirst
  BY <1>0, <1>2 DEF SubmitFirst, Submit, Crash, worker
<1>3. CASE FirstChunk
  <2>1. Merging
    BY <1>3 DEF FirstChunk, Merging
  <2>2. mode' = mode /\ count' = count
    BY <1>3, Zenon DEF FirstChunk, DrainDue
  <2> QED
    BY <1>0, <2>1, <2>2
<1>4. CASE FirstChunkFails
  BY <1>0, <1>4 DEF FirstChunkFails, Crash, worker
<1>5. CASE Tick
  <2>1. CASE error
    BY <1>5, <2>1, Zenon DEF Tick, Crash, worker
  <2>2. CASE ~error
    <3>1. Merging
      BY <1>5, <2>2 DEF Tick, Merging
    <3>2. mode' = mode /\ count' = count
      BY <1>5, <2>2, Zenon DEF Tick, DrainDue
    <3> QED
      BY <1>0, <3>1, <3>2
  <2> QED
    BY <2>1, <2>2
<1>6. CASE StepEnds
  BY <1>0, <1>6 DEF StepEnds, worker
<1>7. CASE StepGoesOn
  BY <1>0, <1>7 DEF StepGoesOn, Submit, Crash, worker
<1>8. CASE StepFails
  BY <1>0, <1>8 DEF StepFails, Crash, worker
<1>9. CASE FinishEpisode
  BY <1>0, <1>9 DEF FinishEpisode, CancelPending, Crash, worker
<1>10. CASE DrainFinal
  <2>1. mode' = mode /\ count' = count
    BY <1>10, Zenon DEF DrainFinal, DrainAll
  <2> QED
    BY <1>0, <1>10, <2>1
<1>11. CASE DrainFails
  BY <1>0, <1>11 DEF DrainFails, Crash, worker
<1>12. CASE Record
  BY <1>0, <1>12 DEF Record, worker
<1>13. CASE SyncStart
  BY <1>0, <1>13 DEF SyncStart
<1>14. CASE SyncInfer
  BY <1>0, <1>14 DEF SyncInfer, worker
<1>15. CASE SyncStep
  BY <1>0, <1>15 DEF SyncStep, worker
<1>16. CASE SyncRecord
  BY <1>0, <1>16 DEF SyncRecord, worker
<1>17. CASE SyncFails
  BY <1>0, <1>17 DEF SyncFails, Crash, worker
<1>18. CASE Close
  BY <1>0, <1>18 DEF Close, CloseWorker, worker
<1>19. CASE Join
  BY <1>0, <1>19 DEF Join, worker
<1>20. CASE Take /\ UNCHANGED caller
  BY <1>0, <1>20 DEF Take, caller
<1>21. CASE Finish /\ UNCHANGED caller
  <2>1. UNCHANGED <<mode, events>>
    BY <1>21, Zenon DEF caller
  <2>2. CASE active.gen = generation
    <3>1. count'.completed = count.completed + 1
      BY <1>21, <2>2 DEF Finish, WorkerType, Counts
    <3> QED
      BY <1>0, <1>21, <2>1, <2>2, <3>1
  <2>3. CASE active.gen # generation
    <3>1. count'.completed = count.completed
      BY <1>21, <2>3 DEF Finish, WorkerType, Counts
    <3> QED
      BY <1>0, <1>21, <2>1, <2>3, <3>1
  <2> QED
    BY <2>2, <2>3
<1>22. CASE Fail /\ UNCHANGED caller
  BY <1>0, <1>22 DEF Fail, caller
<1>23. CASE End /\ UNCHANGED caller
  BY <1>0, <1>23 DEF End, caller
<1>24. CASE BecomeDue /\ UNCHANGED caller
  BY <1>0, <1>24 DEF BecomeDue, caller
<1>25. CASE UNCHANGED vars
  BY <1>25 DEF vars, worker, caller
<1> QED
  BY <1>1, <1>2, <1>3, <1>4, <1>5, <1>6, <1>7, <1>8, <1>9, <1>10, <1>11, <1>12, <1>13,
     <1>14, <1>15, <1>16, <1>17, <1>18, <1>19, <1>20, <1>21, <1>22, <1>23, <1>24,
     <1>25 DEF Next, Control, Inference

LEMMA AccountedKeeps ==
    ASSUME Assumed, WorkerType, CallerType, Phased, Own, Accounted, [Next]_vars
    PROVE  Accounted'
<1>1. Inferred /\ Completed /\ Asked
  BY Zenon DEF Accounted, Inferred, Completed, Asked
<1>2. Inferred' /\ Completed' /\ Asked'
  BY <1>1, InferredKeeps, CompletedKeeps, AskedKeeps
<1> QED
  BY <1>2, Zenon DEF Accounted, Inferred, Completed, Asked

-----------------------------------------------------------------------------
(* The order of requests, results and what is listed *)

(* What a step does to the requests on their way, and to the step they are   *)
(* of.                                                                       *)
NewEpisode ==
    /\ events' = <<>> /\ results' = <<>> /\ pending' = NoRequest /\ UNCHANGED active
    /\ generation' = generation + 1 /\ step' = 0
Asking ==
    /\ Submit(step') /\ UNCHANGED events /\ step' \in 0..EpisodeLength
    /\ \/ step' = step + 1
       \/ step' = step /\ events = <<>> /\ results = <<>> /\ ~Running
Ending == (Merging \/ DrainFinal) /\ UNCHANGED <<pending, active, generation, step>>
Working == (Take \/ Finish \/ Fail \/ End \/ BecomeDue) /\ UNCHANGED <<events, step>>
RequestMoves ==
    \/ NewEpisode \/ Asking \/ Ending \/ Working
    \/ (CancelPending \/ CloseWorker) /\ UNCHANGED <<events, step>>
    \/ step' = step + 1 /\ UNCHANGED <<worker, events>>
    \/ SyncInfer
    \/ UNCHANGED <<worker, events, step>>

LEMMA StepsOfRequests ==
    ASSUME Assumed, CallerType, Phased, [Next]_vars
    PROVE  RequestMoves
<1>1. CASE StartEpisode
  BY <1>1, Zenon DEF StartEpisode, ResetEpisode, RequestMoves, NewEpisode
<1>2. CASE SubmitFirst
  <2>1. CASE error
    BY <1>2, <2>1, Zenon DEF SubmitFirst, Crash, RequestMoves
  <2>2. CASE ~error
    <3>1. Submit(0) /\ UNCHANGED <<events, step>> /\ control = "first"
      BY <1>2, <2>2, Zenon DEF SubmitFirst
    <3>2. step = 0 /\ events = <<>> /\ results = <<>> /\ ~Running
      BY <3>1 DEF Phased
    <3>3. 0 \in 0..EpisodeLength
      BY DEF Assumed, BenchmarkAssumption
    <3> QED
      BY <3>1, <3>2, <3>3, Zenon DEF RequestMoves, Asking
  <2> QED
    BY <2>1, <2>2
<1>3. CASE FirstChunk
  <2>1. Merging
    BY <1>3 DEF FirstChunk, Merging, Phased
  <2> QED
    BY <2>1, Zenon DEF Merging, DrainDue, RequestMoves, Ending
<1>4. CASE Tick
  <2>1. CASE error
    BY <1>4, <2>1, Zenon DEF Tick, Crash, RequestMoves
  <2>2. CASE ~error
    <3>1. Merging
      BY <1>4, <2>2 DEF Tick, Merging, Phased
    <3> QED
      BY <3>1, Zenon DEF Merging, DrainDue, RequestMoves, Ending
  <2> QED
    BY <2>1, <2>2
<1>5. CASE StepGoesOn
  <2>1. CASE WantsRequest(step + 1) /\ ~error
    <3>1. Submit(step + 1) /\ UNCHANGED events /\ step' = step + 1
      BY <1>5, <2>1, Zenon DEF StepGoesOn
    <3>2. step + 1 \in 0..EpisodeLength
      BY <1>5 DEF StepGoesOn, Phased, CallerType, Assumed, BenchmarkAssumption
    <3> QED
      BY <3>1, <3>2, Zenon DEF RequestMoves, Asking
  <2>2. CASE ~(WantsRequest(step + 1) /\ ~error)
    BY <1>5, <2>2, Zenon DEF StepGoesOn, Crash, RequestMoves
  <2> QED
    BY <2>1, <2>2
<1>6. CASE StepEnds \/ SyncStep
  BY <1>6, Zenon DEF StepEnds, SyncStep, RequestMoves
<1>7. CASE FinishEpisode
  BY <1>7, Zenon DEF FinishEpisode, Crash, RequestMoves
<1>8. CASE DrainFinal
  BY <1>8, Zenon DEF DrainFinal, DrainAll, RequestMoves, Ending
<1>9. CASE FirstChunkFails \/ StepFails \/ DrainFails \/ Record \/ SyncRecord \/ SyncFails \/ Join
  BY <1>9, Zenon DEF FirstChunkFails, StepFails, DrainFails, Record, SyncRecord, SyncFails,
     Join, Crash, RequestMoves
<1>10. CASE SyncStart
  <2>1. results = <<>> /\ pending = NoRequest
    BY <1>10 DEF SyncStart, Phased, Idle
  <2> QED
    BY <1>10, <2>1, Zenon DEF SyncStart, RequestMoves, NewEpisode
<1>11. CASE SyncInfer
  BY <1>11, Zenon DEF RequestMoves
<1>12. CASE Close
  BY <1>12, Zenon DEF Close, RequestMoves
<1>13. CASE Inference
  BY <1>13, Zenon DEF Inference, caller, RequestMoves, Working
<1>14. CASE UNCHANGED vars
  BY <1>14, Zenon DEF vars, caller, RequestMoves
<1> QED
  BY <1>1, <1>2, <1>3, <1>4, <1>5, <1>6, <1>7, <1>8, <1>9, <1>10, <1>11, <1>12, <1>13, <1>14,
     Zenon DEF Next, Control

(* The results that are listed are the first ones, in their order.           *)
LEMMA ListedInOrder ==
    ASSUME Assumed, WorkerType, CallerType, Ending
    PROVE  \E n \in 0..Len(results) :
             /\ DOMAIN events' = 1..(Len(events) + n) /\ Len(events) \in Nat
             /\ \A i \in 1..Len(events) : events'[i] = events[i]
             /\ \A i \in 1..n : events'[Len(events) + i].obs = results[i].obs
             /\ \A i \in DOMAIN results' :
                  i \in Nat /\ i > 0 /\ i + n \in DOMAIN results /\ results'[i] = results[i + n]
<1>0. events \in Seq(Listed) /\ results \in Seq(Results)
  BY DEF CallerType, WorkerType
<1>1. CASE Merging
  <2>1. DueCount \in 0..Len(results) /\ results' = SubSeq(results, DueCount + 1, Len(results))
    BY <1>0, <1>1, DueIsPrefix DEF Merging, DrainDue
  <2>2. /\ results' \in Seq(Results) /\ Len(results') = Len(results) - DueCount
        /\ \A i \in 1..(Len(results) - DueCount) : results'[i] = results[i + DueCount]
    BY <1>0, <2>1, Rest
  <2>3. \A i \in DOMAIN results' :
          /\ i \in Nat /\ i > 0 /\ i + DueCount \in DOMAIN results
          /\ results'[i] = results[i + DueCount]
    BY <1>0, <2>1, <2>2
  <2>4. /\ events' \in Seq(Listed) /\ Len(events') = Len(events) + DueCount
        /\ \A i \in 1..Len(events) : events'[i] = events[i]
        /\ \A i \in 1..DueCount : events'[Len(events) + i].obs = results[i].obs
    BY <1>1, EventsMerged DEF Merging
  <2>5. DOMAIN events' = 1..(Len(events) + DueCount)
    BY <2>4
  <2>6. Len(events) \in Nat
    BY <1>0
  <2> QED
    BY <2>1, <2>3, <2>4, <2>5, <2>6, Zenon
<1>2. CASE DrainFinal
  <2>1. /\ events' \in Seq(Listed) /\ Len(events') = Len(events) + Len(results)
        /\ \A i \in 1..Len(events) : events'[i] = events[i]
        /\ \A i \in 1..Len(results) : events'[Len(events) + i].obs = results[i].obs
    BY <1>2, EventsEnded
  <2>2. DOMAIN events' = 1..(Len(events) + Len(results)) /\ Len(events) \in Nat
    BY <1>0, <2>1
  <2>3. results' = <<>> /\ Len(results) \in 0..Len(results)
    BY <1>0, <1>2 DEF DrainFinal, DrainAll
  <2>4. DOMAIN results' = {}
    BY <2>3
  <2> QED
    BY <2>1, <2>2, <2>3, <2>4, Zenon
<1> QED
  BY <1>1, <1>2 DEF Ending

Past ==
    /\ \A i \in DOMAIN events : events[i].obs <= step
    /\ \A i \in DOMAIN results : results[i].obs <= step
    /\ Running => active.obs <= step
    /\ Waiting => pending.obs <= step

LEMMA Numbers ==
    ASSUME Assumed, WorkerType, CallerType
    PROVE  /\ \A i \in DOMAIN events : i \in Nat /\ events[i].obs \in Nat
           /\ \A i \in DOMAIN results :
                /\ i \in Nat /\ results[i].obs \in Nat /\ results[i].gen \in Nat
                /\ results[i].due \in BOOLEAN
           /\ active.obs \in Int /\ pending.obs \in Int
           /\ active.gen \in Nat /\ pending.gen \in Nat /\ generation \in Nat /\ step \in Nat
<1>1. \A i \in DOMAIN events : i \in Nat /\ events[i].obs \in Nat
  <2>1. \A i \in DOMAIN events : i \in Nat /\ events[i] \in Listed
    BY DEF CallerType
  <2> QED
    BY <2>1 DEF Listed, Assumed, BenchmarkAssumption
<1>2. \A i \in DOMAIN results : i \in Nat /\ results[i] \in Results
  BY DEF WorkerType
<1>3. active.obs \in Int /\ pending.obs \in Int /\ active.gen \in Nat /\ pending.gen \in Nat
  BY DEF WorkerType, Requests, Assumed, BenchmarkAssumption
<1>4. generation \in Nat /\ step \in Nat
  BY DEF WorkerType, CallerType, Assumed, BenchmarkAssumption
<1> QED
  BY <1>1, <1>2, <1>3, <1>4, ResultShape

LEMMA EndingInOrder ==
    ASSUME Assumed, WorkerType, CallerType, InOrder, PlansMoveForward, Past, Ending
    PROVE  InOrder' /\ PlansMoveForward' /\ Past'
<1>0. UNCHANGED <<active, pending, generation, step>>
  BY DEF Ending
<1>1. PICK n \in 0..Len(results) :
             /\ DOMAIN events' = 1..(Len(events) + n) /\ Len(events) \in Nat
             /\ \A i \in 1..Len(events) : events'[i] = events[i]
             /\ \A i \in 1..n : events'[Len(events) + i].obs = results[i].obs
             /\ \A i \in DOMAIN results' :
                  i \in Nat /\ i > 0 /\ i + n \in DOMAIN results /\ results'[i] = results[i + n]
  BY ListedInOrder
<1>2. DOMAIN events = 1..Len(events) /\ DOMAIN results = 1..Len(results) /\ Len(results) \in Nat
  BY DEF CallerType, WorkerType
<1> DEFINE E == Len(events)
           L == Len(results)
<1>3. ASSUME NEW i \in DOMAIN events'
      PROVE  \/ i \in DOMAIN events /\ i <= E /\ events'[i].obs = events[i].obs
             \/ /\ i - E \in DOMAIN results /\ i > E /\ i - E <= n
                /\ events'[i].obs = results[i - E].obs
  <2>1. CASE i <= E
    BY <1>1, <1>2, <2>1
  <2>2. CASE i > E
    <3>1. i - E \in 1..n /\ E + (i - E) = i
      BY <1>1, <2>2
    <3> QED
      BY <1>1, <1>2, <2>2, <3>1
  <2> QED
    BY <1>1, <2>1, <2>2
<1>4. \A i \in DOMAIN results' : i \in Nat /\ i > 0 /\ i + n \in DOMAIN results
                                    /\ results'[i] = results[i + n]
  BY <1>1, <1>2
<1>5. E \in Nat /\ n \in Nat /\ \A i \in DOMAIN events' : i \in Nat
  BY <1>1
<1> HIDE DEF E, L
<1>6. \A i, j \in DOMAIN results' : i < j =>
        results'[i].obs < results'[j].obs /\ (results'[j].due => results'[i].due)
  <2> SUFFICES ASSUME NEW i \in DOMAIN results', NEW j \in DOMAIN results', i < j
               PROVE  results'[i].obs < results'[j].obs /\ (results'[j].due => results'[i].due)
    OBVIOUS
  <2>1. i + n \in DOMAIN results /\ j + n \in DOMAIN results /\ i + n < j + n
    BY <1>4, <1>5
  <2> QED
    BY <1>4, <2>1, Zenon DEF InOrder
<1>7. \A i \in DOMAIN events', j \in DOMAIN results' : events'[i].obs < results'[j].obs
  <2> SUFFICES ASSUME NEW i \in DOMAIN events', NEW j \in DOMAIN results'
               PROVE  events'[i].obs < results'[j].obs
    OBVIOUS
  <2>1. CASE i - E \in DOMAIN results /\ i - E <= n /\ events'[i].obs = results[i - E].obs
    <3>1. j + n \in DOMAIN results /\ i - E < j + n /\ results'[j] = results[j + n]
      BY <1>4, <1>5, <2>1
    <3> QED
      BY <2>1, <3>1, Zenon DEF InOrder
  <2>2. CASE i \in DOMAIN events /\ events'[i].obs = events[i].obs
    BY <1>4, <2>2, Zenon DEF InOrder
  <2> QED
    BY <1>3, <2>1, <2>2
<1>8. Running' => /\ \A i \in DOMAIN events' : events'[i].obs < active.obs
                  /\ \A i \in DOMAIN results' : results'[i].obs < active.obs
  <2>1. Running' <=> Running
    BY <1>0 DEF Running
  <2> QED
    BY <1>3, <1>4, <2>1, Zenon DEF InOrder
<1>9. Waiting' => /\ \A i \in DOMAIN events' : events'[i].obs < pending.obs
                  /\ \A i \in DOMAIN results' : results'[i].obs < pending.obs
                  /\ Running' => active.obs < pending.obs
  <2>1. (Running' <=> Running) /\ (Waiting' <=> Waiting)
    BY <1>0 DEF Running, Waiting
  <2> QED
    BY <1>3, <1>4, <2>1, Zenon DEF InOrder
<1>10. PlansMoveForward'
  <2> SUFFICES ASSUME NEW i \in DOMAIN events', NEW j \in DOMAIN events', i < j
               PROVE  events'[i].obs < events'[j].obs
    BY DEF PlansMoveForward
  <2>1. CASE i \in DOMAIN events /\ events'[i].obs = events[i].obs
             /\ j \in DOMAIN events /\ events'[j].obs = events[j].obs
    BY <2>1 DEF PlansMoveForward
  <2>2. CASE i \in DOMAIN events /\ events'[i].obs = events[i].obs
             /\ j - E \in DOMAIN results /\ events'[j].obs = results[j - E].obs
    BY <2>2, Zenon DEF InOrder
  <2>3. CASE i - E \in DOMAIN results /\ events'[i].obs = results[i - E].obs
             /\ j - E \in DOMAIN results /\ events'[j].obs = results[j - E].obs
    <3>1. i - E < j - E
      BY <1>5
    <3> QED
      BY <2>3, <3>1, Zenon DEF InOrder
  <2>4. ~(i > E /\ j <= E)
    BY <1>5
  <2> QED
    BY <1>3, <2>1, <2>2, <2>3, <2>4, Zenon
<1>11. Past'
  <2>1. (Running' <=> Running) /\ (Waiting' <=> Waiting)
    BY <1>0 DEF Running, Waiting
  <2>2. \A i \in DOMAIN events' : events'[i].obs <= step
    BY <1>3, Zenon DEF Past
  <2>3. \A i \in DOMAIN results' : results'[i].obs <= step
    BY <1>4, Zenon DEF Past
  <2> QED
    BY <1>0, <2>1, <2>2, <2>3, Zenon DEF Past
<1> QED
  BY <1>0, <1>6, <1>7, <1>8, <1>9, <1>10, <1>11, Zenon DEF InOrder

LEMMA AskingInOrder ==
    ASSUME Assumed, WorkerType, CallerType, InOrder, PlansMoveForward, Past, Asking
    PROVE  InOrder' /\ PlansMoveForward' /\ Past'
<1>1. /\ UNCHANGED <<events, results, active, generation>> /\ pending'.obs = step'
      /\ step' \in Nat /\ (step' = step + 1 \/ step' = step)
  BY DEF Asking, Submit, Assumed, BenchmarkAssumption
<1>2. Running' <=> Running
  BY <1>1 DEF Running
<1>3. /\ \A i \in DOMAIN events : events[i].obs < step'
      /\ \A i \in DOMAIN results : results[i].obs < step'
      /\ Running => active.obs < step'
  <2>1. CASE step' = step + 1
    BY <2>1, Numbers DEF Past
  <2>2. CASE step' = step /\ events = <<>> /\ results = <<>> /\ ~Running
    BY <2>2
  <2> QED
    BY <2>1, <2>2 DEF Asking
<1>4. PlansMoveForward'
  BY <1>1 DEF PlansMoveForward
<1>5. InOrder'
  BY <1>1, <1>2, <1>3 DEF InOrder
<1>6. Past'
  BY <1>1, <1>2, <1>3, Numbers DEF Past
<1> QED
  BY <1>4, <1>5, <1>6

LEMMA TakeInOrder ==
    ASSUME Assumed, WorkerType, CallerType, Own, InOrder, Past, Take, UNCHANGED <<events, step>>
    PROVE  InOrder' /\ Past'
<1>1. /\ UNCHANGED <<events, results, generation, step>> /\ active' = pending
      /\ Waiting /\ ~Running /\ pending.gen = generation
  BY DEF Take, Waiting, Running, Own
<1>2. ~Waiting'
  BY DEF Take, Waiting
<1>3. Running'
  BY <1>1 DEF Running, Waiting
<1> QED
  BY <1>1, <1>2, <1>3 DEF InOrder, Past

(* A finished inference is later than all that was finished before it.       *)
LEMMA FinishInOrder ==
    ASSUME Assumed, WorkerType, CallerType, InOrder, Past, Finish, UNCHANGED <<events, step>>
    PROVE  InOrder' /\ Past'
<1>1. UNCHANGED <<events, pending, generation, step>> /\ ~Running'
  BY DEF Finish, Running
<1>2. Waiting' <=> Waiting
  BY <1>1 DEF Waiting
<1>3. CASE ~Running
  <2>1. UNCHANGED results
    BY <1>3 DEF Finish, Running
  <2> QED
    BY <1>1, <1>2, <2>1, Zenon DEF InOrder, Past
<1>4. CASE Running
  <2>1. PICK n \in ChunkLengths : results' = Append(results,
                 [gen |-> active.gen, obs |-> active.obs, len |-> n, due |-> FALSE])
    BY <1>4 DEF Finish, Running
  <2>2. results \in Seq(Results)
    BY DEF WorkerType
  <2> DEFINE new == Len(results) + 1
  <2>3. /\ DOMAIN results' = DOMAIN results \cup {new} /\ new \in Nat /\ new \notin DOMAIN results
        /\ \A i \in DOMAIN results : i < new /\ ~(new < i) /\ results'[i] = results[i]
        /\ results'[new].obs = active.obs /\ ~results'[new].due
    BY <2>1, <2>2
  <2> HIDE DEF new
  <2>4. ASSUME NEW i \in DOMAIN results', NEW j \in DOMAIN results', i < j
        PROVE  results'[i].obs < results'[j].obs /\ (results'[j].due => results'[i].due)
    <3>1. i # new
      BY <2>3, <2>4
    <3>2. i \in DOMAIN results
      BY <2>3, <3>1
    <3>3. CASE j = new
      BY <1>4, <2>3, <3>2, <3>3 DEF InOrder
    <3>4. CASE j \in DOMAIN results
      BY <2>3, <2>4, <3>2, <3>4 DEF InOrder
    <3> QED
      BY <2>3, <3>3, <3>4
  <2>5. \A i \in DOMAIN results' :
          \/ results'[i].obs = active.obs
          \/ i \in DOMAIN results /\ results'[i].obs = results[i].obs
    <3>1. \A i \in DOMAIN results' : i = new \/ i \in DOMAIN results
      BY <2>3, Zenon
    <3> QED
      BY <2>3, <3>1, Zenon
  <2>6. InOrder'
    BY <1>1, <1>2, <1>4, <2>4, <2>5, Zenon DEF InOrder
  <2>7. Past'
    BY <1>1, <1>2, <1>4, <2>5, Zenon DEF Past
  <2> QED
    BY <2>6, <2>7
<1> QED
  BY <1>3, <1>4

LEMMA DueInOrder ==
    ASSUME Assumed, WorkerType, CallerType, InOrder, Past, BecomeDue, UNCHANGED <<events, step>>
    PROVE  InOrder' /\ Past'
<1>1. UNCHANGED <<events, pending, active, generation, step>>
  BY DEF BecomeDue
<1>2. (Waiting' <=> Waiting) /\ (Running' <=> Running)
  BY <1>1 DEF Waiting, Running
<1>3. PICK k \in DOMAIN results :
        /\ \A j \in 1..(k - 1) : results[j].due
        /\ results' = [results EXCEPT ![k].due = TRUE]
  BY DEF BecomeDue
<1>4. DOMAIN results' = DOMAIN results /\ \A i \in DOMAIN results : i \in Nat /\ i > 0
  BY <1>3 DEF WorkerType
<1>5. \A i \in DOMAIN results : results[i] \in Results
  BY DEF WorkerType
<1>6. \A i \in DOMAIN results : results'[i].obs = results[i].obs
  BY <1>3, <1>5 DEF Results
<1>7. \A i \in DOMAIN results :
        /\ i = k => results'[i].due
        /\ i # k => results'[i].due = results[i].due
  BY <1>3, <1>5 DEF Results
<1>8. ASSUME NEW i \in DOMAIN results, NEW j \in DOMAIN results, i < j, results'[j].due
      PROVE  results'[i].due
  <2>1. CASE j = k
    <3>1. i \in 1..(k - 1) /\ i # k
      BY <1>4, <1>8, <2>1
    <3> QED
      BY <1>3, <1>7, <3>1
  <2>2. CASE j # k
    BY <1>7, <1>8, <2>2 DEF InOrder
  <2> QED
    BY <2>1, <2>2
<1>9. InOrder'
  BY <1>1, <1>2, <1>4, <1>6, <1>8, Zenon DEF InOrder
<1>10. Past'
  BY <1>1, <1>2, <1>4, <1>6, Zenon DEF Past
<1> QED
  BY <1>9, <1>10

(* An inference of the mode sync is of the step that has nothing queued.     *)
LEMMA SyncInOrder ==
    ASSUME Assumed, WorkerType, CallerType, Phased, InOrder, PlansMoveForward, NotAhead, SyncInfer
    PROVE  InOrder' /\ PlansMoveForward' /\ Past'
<1>1. /\ UNCHANGED <<worker, step>>
      /\ events' = Append(events, [obs |-> step, verdict |-> "replaced"])
      /\ \A i \in DOMAIN events : events[i].obs < step
  BY DEF SyncInfer, NotAhead
<1>2. ~Waiting /\ ~Running /\ results = <<>>
  BY DEF SyncInfer, Phased, Idle, Waiting, Running
<1>3. ~Waiting' /\ ~Running' /\ results' = <<>>
  BY <1>1, <1>2 DEF worker, Waiting, Running
<1>4. InOrder'
  BY <1>3 DEF InOrder
<1> DEFINE new == Len(events) + 1
<1>5. /\ DOMAIN events' = DOMAIN events \cup {new} /\ new \in Nat /\ step \in Nat
      /\ \A i \in DOMAIN events : ~(new < i) /\ events'[i] = events[i] /\ events[i].obs \in Nat
      /\ events'[new].obs = step /\ ~(new < new)
  BY <1>1, Numbers DEF CallerType
<1> HIDE DEF new
<1>6. PlansMoveForward'
  BY <1>1, <1>5, Zenon DEF PlansMoveForward
<1>7. Past'
  BY <1>1, <1>3, <1>5 DEF Past
<1> QED
  BY <1>4, <1>6, <1>7

LEMMA OrderKeeps ==
    ASSUME Assumed, WorkerType, CallerType, Phased, Own, InOrder, PlansMoveForward, NotAhead,
           [Next]_vars
    PROVE  InOrder' /\ PlansMoveForward' /\ Past'
<1>0. Past
  BY Zenon DEF NotAhead, Past
<1>1. CASE NewEpisode
  <2>1. ~Running' /\ ~Waiting' /\ events' = <<>> /\ results' = <<>>
    BY <1>1, Numbers DEF NewEpisode, Own, Running, Waiting
  <2> QED
    BY <2>1 DEF InOrder, PlansMoveForward, Past
<1>2. CASE Asking
  BY <1>0, <1>2, AskingInOrder
<1>3. CASE Ending
  BY <1>0, <1>3, EndingInOrder
<1>4. CASE Working
  <2>1. PlansMoveForward'
    BY <1>4, Zenon DEF Working, PlansMoveForward
  <2>2. CASE Fail /\ UNCHANGED <<events, step>>
    <3>1. UNCHANGED <<events, results, pending, step>> /\ ~Running' /\ (Waiting' <=> Waiting)
      BY <2>2 DEF Fail, Running, Waiting
    <3> QED
      BY <1>0, <2>1, <3>1, Zenon DEF InOrder, Past
  <2>3. CASE End /\ UNCHANGED <<events, step>>
    BY <1>0, <2>1, <2>3, Zenon DEF End, InOrder, Past, Running, Waiting
  <2> QED
    BY <1>0, <1>4, <2>1, <2>2, <2>3, TakeInOrder, FinishInOrder, DueInOrder DEF Working
<1>5. CASE (CancelPending \/ CloseWorker) /\ UNCHANGED <<events, step>>
  <2>1. UNCHANGED <<events, results, step, active, generation>> /\ ~Waiting'
    BY <1>5 DEF CancelPending, CloseWorker, Waiting
  <2>2. Running' <=> Running
    BY <2>1 DEF Running
  <2> QED
    BY <1>0, <2>1, <2>2, Zenon DEF InOrder, PlansMoveForward, Past
<1>6. CASE step' = step + 1 /\ UNCHANGED <<worker, events>>
  <2>1. UNCHANGED <<events, results, active, pending, generation>>
    BY <1>6 DEF worker
  <2>2. (Running' <=> Running) /\ (Waiting' <=> Waiting)
    BY <2>1 DEF Running, Waiting
  <2>3. InOrder' /\ PlansMoveForward'
    BY <2>1, <2>2, Zenon DEF InOrder, PlansMoveForward
  <2>4. Past'
    BY <1>0, <1>6, <2>1, <2>2, Numbers DEF Past
  <2> QED
    BY <2>3, <2>4
<1>7. CASE SyncInfer
  BY <1>7, SyncInOrder
<1>8. CASE UNCHANGED <<worker, events, step>>
  BY <1>0, <1>8, Zenon DEF worker, InOrder, PlansMoveForward, Past, Running, Waiting
<1> QED
  BY <1>1, <1>2, <1>3, <1>4, <1>5, <1>6, <1>7, <1>8, StepsOfRequests DEF RequestMoves

LEMMA NotAheadKeeps ==
    ASSUME Assumed, WorkerType, CallerType, Phased, Own, InOrder, PlansMoveForward, NotAhead,
           [Next]_vars
    PROVE  NotAhead'
<1>1. Past'
  BY OrderKeeps
<1>2. ASSUME control' = "sync", queue' = <<>>
      PROVE  \A i \in DOMAIN events' : events'[i].obs < step'
  <2>1. CASE SyncStart
    BY <2>1 DEF SyncStart
  <2>2. CASE SyncInfer
    <3>1. PICK n \in ChunkLengths :
            queue' = Actions([gen |-> generation, obs |-> step, len |-> n], 0)
      BY <2>2 DEF SyncInfer
    <3>2. n \in Nat /\ n > 0
      BY DEF Assumed, WorkerAssumption
    <3>3. 1 \in DOMAIN queue'
      BY <3>1, <3>2 DEF Actions
    <3> QED
      BY <1>2, <3>3
  <2>3. CASE SyncStep
    BY <2>3, Numbers DEF SyncStep, NotAhead
  <2>4. CASE ~(SyncStart \/ SyncInfer \/ SyncStep)
    <3>1. UNCHANGED <<control, queue, events, step>>
      BY <1>2, <2>4 DEF Next, Control, Inference, vars, caller, StartEpisode, SubmitFirst,
         FirstChunk, FirstChunkFails, Tick, StepEnds, StepGoesOn, StepFails, FinishEpisode,
         DrainFinal, DrainFails, Record, SyncRecord, SyncFails, Close, Join, Crash
    <3> QED
      BY <1>2, <3>1 DEF NotAhead
  <2> QED
    BY <2>1, <2>2, <2>3, <2>4
<1> QED
  BY <1>1, <1>2, Zenon DEF NotAhead, Past

-----------------------------------------------------------------------------
(* The queued actions are those of the coming steps, and there is one to     *)
(* execute or to hold                                                        *)

LEMMA AlignedKeeps ==
    ASSUME Assumed, WorkerType, CallerType, Phased, Own, NotAhead, Aligned, [Next]_vars
    PROVE  Aligned'
<1>0. /\ step \in Nat /\ mode' = mode /\ MergeDue.queue \in Seq(Planned) /\ queue \in Seq(Planned)
      /\ \A i \in DOMAIN queue : queue[i].obs \in Int /\ queue[i].at \in Int
      /\ \A i \in DOMAIN MergeDue.queue :
           MergeDue.queue[i].obs \in Int /\ MergeDue.queue[i].at \in Int
  <2>1. MergeDue.queue \in Seq(Planned) /\ queue \in Seq(Planned)
    BY QueueIsPlanned DEF CallerType
  <2>2. \A a \in Planned : a.obs \in Int /\ a.at \in Int
    BY DEF Planned, Assumed, BenchmarkAssumption
  <2> QED
    BY <2>1, <2>2, Numbers, LoopKeeps
<1>1. CASE FirstChunk
  <2>1. mode # "sync" /\ queue = <<>> /\ control' \in {"tick", "over"}
    BY <1>1 DEF FirstChunk, Phased
  <2>2. queue' = MergeDue.queue /\ queue' # <<>> /\ step' = step
    BY <1>1 DEF FirstChunk
  <2>3. mode = "async_aligned" => \A i \in DOMAIN MergeDue.queue :
          MergeDue.queue[i].obs + MergeDue.queue[i].at = step + i - 1
    BY <2>1, <2>2, QueueIsPlanned
  <2> QED
    BY <1>0, <2>1, <2>2, <2>3 DEF Aligned
<1>2. CASE Tick
  <2>1. CASE error
    BY <1>2, <2>1 DEF Tick, Crash, Aligned
  <2>2. CASE ~error
    <3>1. /\ control' = "stepping" /\ step' = step
          /\ queue' = IF MergeDue.queue = <<>> THEN <<>> ELSE Tail(MergeDue.queue)
      BY <1>2, <2>2 DEF Tick
    <3>2. mode # "sync" /\ control = "tick"
      BY <1>2 DEF Tick, Phased
    <3>3. mode = "async_aligned" => \A i \in DOMAIN MergeDue.queue :
            MergeDue.queue[i].obs + MergeDue.queue[i].at = step + i - 1
      <4>1. CASE MergeDue.queue = queue
        BY <3>2, <4>1, Zenon DEF Aligned
      <4> QED
        BY <4>1, QueueIsPlanned
    <3>4. CASE MergeDue.queue = <<>>
      BY <3>1, <3>4 DEF Aligned
    <3>5. CASE MergeDue.queue # <<>>
      <4>1. \A i \in DOMAIN Tail(MergeDue.queue) :
              /\ i \in Nat /\ i + 1 \in DOMAIN MergeDue.queue
              /\ Tail(MergeDue.queue)[i] = MergeDue.queue[i + 1]
        BY <1>0, <3>5
      <4>2. queue' = Tail(MergeDue.queue)
        BY <3>1, <3>5
      <4>3. mode = "async_aligned" => \A i \in DOMAIN queue' :
              queue'[i].obs + queue'[i].at = step + 1 + i - 1
        BY <1>0, <3>3, <4>1, <4>2
      <4> QED
        BY <1>0, <3>1, <3>2, <4>3 DEF Aligned
    <3> QED
      BY <3>4, <3>5
  <2> QED
    BY <2>1, <2>2
<1>3. CASE StepGoesOn
  <2>1. CASE UNCHANGED step /\ control' \in {"next", "closing"}
    BY <2>1 DEF Aligned
  <2>2. CASE step' = step + 1 /\ control' \in {"tick", "over"} /\ queue' = queue
    BY <1>0, <1>3, <2>2 DEF Aligned, StepGoesOn
  <2> QED
    BY <1>3, <2>1, <2>2, Zenon DEF StepGoesOn, Crash
<1>4. CASE SyncInfer
  <2>1. PICK n \in ChunkLengths :
          queue' = Actions([gen |-> generation, obs |-> step, len |-> n], 0)
    BY <1>4 DEF SyncInfer
  <2>2. n \in Nat
    BY DEF Assumed, WorkerAssumption
  <2>3. \A i \in DOMAIN queue' : i \in Nat /\ queue'[i].obs = step /\ queue'[i].at = i - 1
    BY <2>1, <2>2 DEF Actions
  <2>4. step' = step /\ control' = "sync"
    BY <1>4 DEF SyncInfer
  <2> QED
    BY <1>0, <2>3, <2>4 DEF Aligned
<1>5. CASE SyncStep
  <2>1. control = "sync" /\ mode = "sync" /\ queue # <<>> /\ queue' = Tail(queue)
          /\ step' = step + 1 /\ control' \in {"sync", "recorded"}
    BY <1>5 DEF SyncStep, Phased
  <2>2. \A i \in DOMAIN Tail(queue) :
          i \in Nat /\ i + 1 \in DOMAIN queue /\ Tail(queue)[i] = queue[i + 1]
    BY <1>0, <2>1
  <2> QED
    BY <1>0, <2>1, <2>2 DEF Aligned
<1>6. CASE SyncStart
  BY <1>6 DEF SyncStart, Aligned
<1>7. CASE ~(FirstChunk \/ Tick \/ StepGoesOn \/ SyncInfer \/ SyncStep \/ SyncStart)
  <2>1. \/ control' \notin {"tick", "stepping", "sync"}
        \/ UNCHANGED <<control, queue, step>>
    BY <1>7 DEF Next, Control, Inference, vars, caller, StartEpisode, SubmitFirst,
       FirstChunkFails, StepEnds, StepFails, FinishEpisode, DrainFinal, DrainFails, Record,
       SyncRecord, SyncFails, Close, Join, Crash
  <2> QED
    BY <1>0, <2>1, Zenon DEF Aligned
<1> QED
  BY <1>1, <1>2, <1>3, <1>4, <1>5, <1>6, <1>7

LEMMA SafeKeeps ==
    ASSUME Assumed, WorkerType, CallerType, Phased, Own, NotAhead, Safe, [Next]_vars
    PROVE  Safe'
<1>0. MergeDue.queue \in Seq(Planned) /\ (MergeDue.queue = queue \/ MergeDue.queue # <<>>)
  BY QueueIsPlanned
<1>1. CASE FirstChunk
  BY <1>1 DEF FirstChunk, Safe
<1>2. CASE Tick
  <2>1. CASE error
    BY <1>2, <2>1 DEF Tick, Crash, Safe
  <2>2. CASE ~error
    <3>1. /\ control' = "stepping" /\ control = "tick"
          /\ last' = IF MergeDue.queue = <<>> THEN last ELSE Head(MergeDue.queue)
      BY <1>2, <2>2 DEF Tick
    <3>2. CASE MergeDue.queue = <<>>
      BY <1>0, <3>1, <3>2 DEF Safe
    <3>3. CASE MergeDue.queue # <<>>
      <4>1. Head(MergeDue.queue) \in Planned
        BY <1>0, <3>3, Popped
      <4>2. \A a \in Planned : a.obs # -1
        BY DEF Planned, Assumed, BenchmarkAssumption
      <4>3. Head(MergeDue.queue) # NoAction
        BY <4>1, <4>2 DEF NoAction
      <4> QED
        BY <3>1, <3>3, <4>3 DEF Safe
    <3> QED
      BY <3>2, <3>3
  <2> QED
    BY <2>1, <2>2
<1>3. CASE StepGoesOn
  <2>1. control = "stepping" /\ last' = last /\ control' # "stepping"
    BY <1>3, Zenon DEF StepGoesOn, Crash
  <2> QED
    BY <2>1 DEF Safe
<1>4. CASE ~(FirstChunk \/ Tick \/ StepGoesOn)
  <2>1. \/ control' \notin {"tick", "stepping"}
        \/ UNCHANGED <<control, queue, last>>
    BY <1>4 DEF Next, Control, Inference, vars, caller, StartEpisode, SubmitFirst,
       FirstChunkFails, StepEnds, StepFails, FinishEpisode, DrainFinal, DrainFails, Record,
       SyncStart, SyncInfer, SyncStep, SyncRecord, SyncFails, Close, Join, Crash
  <2> QED
    BY <2>1, Zenon DEF Safe
<1> QED
  BY <1>1, <1>2, <1>3, <1>4

LEMMA HeldKeeps ==
    ASSUME Assumed, WorkerType, CallerType, Phased, Own, Held, [Next]_vars
    PROVE  Held'
<1>0. /\ Len(results) \in Nat /\ mode' = mode /\ requested \in BOOLEAN
      /\ Waiting => pending.gen = generation
      /\ results = <<>> => Len(results) = 0
  BY Lengths, LoopKeeps DEF CallerType, Own
<1>1. CASE Merging /\ ~error /\ requested' = StillRequested
  <2>1. /\ UNCHANGED <<active, pending, error, generation>> /\ DueCount \in 0..Len(results)
        /\ Len(results') = Len(results) - DueCount
    BY <1>1, Lengths DEF Merging, DrainDue
  <2>2. (Running' <=> Running) /\ (Waiting' <=> Waiting)
    BY <2>1 DEF Running, Waiting
  <2>3. control \in {"tick", "awaiting"}
    BY <1>1 DEF Merging
  <2>4. Len(Due) = DueCount /\ Due = SubSeq(results, 1, DueCount)
    BY DueIsPrefix DEF WorkerType, Due
  <2>5. CASE DueCount = 0
    <3>1. Due = <<>>
      BY <2>4, <2>5 DEF WorkerType
    <3>2. requested' = requested
      BY <1>0, <1>1, <3>1 DEF StillRequested
    <3> QED
      BY <1>0, <1>1, <2>1, <2>2, <2>3, <2>5, <3>2 DEF Held
  <2>6. CASE DueCount > 0
    <3>1. Due # <<>>
      <4> SUFFICES ASSUME Due = <<>> PROVE FALSE
        OBVIOUS
      <4>1. Len(Due) = 0
        BY Zenon, EmptyHasNone
      <4> QED
        BY <2>4, <2>6, <4>1
    <3>2. ~requested'
      BY <1>1, <3>1 DEF StillRequested
    <3> QED
      BY <1>0, <1>1, <2>1, <2>2, <2>3, <2>6, <3>2 DEF Held
  <2> QED
    BY <2>1, <2>5, <2>6
<1>2. CASE FirstChunk
  BY <1>1, <1>2 DEF FirstChunk, Merging, Phased
<1>3. CASE Tick
  <2>1. CASE error
    BY <1>3, <2>1 DEF Tick, Crash, Held
  <2>2. CASE ~error
    <3>1. Merging /\ requested' = StillRequested
      BY <1>3, <2>2 DEF Tick, Merging, Phased
    <3> QED
      BY <1>1, <2>2, <3>1
  <2> QED
    BY <2>1, <2>2
<1>4. CASE SubmitFirst
  <2>1. CASE error
    BY <1>4, <2>1 DEF SubmitFirst, Crash, Held
  <2>2. CASE ~error
    <3>1. Submit(0) /\ requested' = (mode = "sync_hold") /\ control = "first"
      BY <1>4, <2>2 DEF SubmitFirst
    <3>2. 0 \in 0..EpisodeLength
      BY DEF Assumed, BenchmarkAssumption
    <3>3. Waiting'
      BY <3>1, <3>2, MailboxFills, Zenon
    <3>4. UNCHANGED <<results, active, generation>> /\ results = <<>> /\ ~Running
      BY <3>1 DEF Submit, Phased
    <3>5. ~Running'
      BY <3>4 DEF Running
    <3>6. mode = "sync_hold" => requested'
      BY <3>1
    <3> QED
      BY <1>0, <3>3, <3>4, <3>5, <3>6 DEF Held
  <2> QED
    BY <2>1, <2>2
<1>5. CASE StepGoesOn
  <2>1. CASE WantsRequest(step + 1) /\ ~error /\ mode = "sync_hold"
    <3>1. Submit(step + 1) /\ requested' = (mode = "sync_hold") /\ ~requested
          /\ control = "stepping"
      BY <1>5, <2>1 DEF StepGoesOn, WantsRequest
    <3>2. step + 1 \in 0..EpisodeLength
      BY <1>5 DEF StepGoesOn, Phased, CallerType, Assumed, BenchmarkAssumption
    <3>3. Waiting'
      BY <3>1, <3>2, MailboxFills, Zenon
    <3>4. UNCHANGED <<results, active, generation>>
      BY <3>1 DEF Submit
    <3>5. Running' <=> Running
      BY <3>4 DEF Running
    <3>6. ~Running /\ Len(results) = 0
      BY <1>0, <2>1, <3>1 DEF Held
    <3>7. requested'
      BY <2>1, <3>1
    <3> QED
      BY <1>0, <3>3, <3>4, <3>5, <3>6, <3>7 DEF Held
  <2>2. CASE ~WantsRequest(step + 1) /\ mode = "sync_hold"
    <3>1. UNCHANGED <<worker, requested>> /\ control = "stepping"
      BY <1>5, <2>2, Zenon DEF StepGoesOn
    <3> QED
      BY <1>0, <2>2, <3>1 DEF worker, Held, Running, Waiting
  <2>3. CASE error
    <3>1. CASE UNCHANGED error
      BY <2>3, <3>1 DEF Held
    <3>2. UNCHANGED error
      BY <1>5, <2>3, Zenon DEF StepGoesOn, Submit, Crash, worker
    <3> QED
      BY <3>1, <3>2
  <2>4. CASE mode # "sync_hold"
    BY <1>0, <2>4 DEF Held
  <2> QED
    BY <2>1, <2>2, <2>3, <2>4
<1>6. CASE Take /\ UNCHANGED caller
  <2>1. /\ UNCHANGED <<results, error, generation, mode, control, requested>> /\ Waiting
        /\ ~Running /\ active' = pending
    BY <1>6 DEF Take, caller, Waiting, Running
  <2>2. Running' /\ ~Waiting'
    BY <1>0, <1>6, <2>1 DEF Take, Running, Waiting
  <2> QED
    BY <1>0, <2>1, <2>2 DEF Held
<1>7. CASE Finish /\ UNCHANGED caller
  <2>1. UNCHANGED <<pending, error, generation, mode, control, requested>> /\ ~Running'
    BY <1>7 DEF Finish, caller, Running
  <2>2. Waiting' <=> Waiting
    BY <2>1 DEF Waiting
  <2>3. Len(results') = Len(results) + (IF Running THEN 1 ELSE 0)
    <3>1. CASE Running
      BY <1>7, <3>1, Lengths DEF Running
    <3>2. CASE ~Running
      BY <1>0, <1>7, <3>2, Lengths DEF Finish, Running
    <3> QED
      BY <3>1, <3>2
  <2>4. CASE Running
    BY <1>0, <2>1, <2>2, <2>3, <2>4 DEF Held
  <2>5. CASE ~Running
    BY <1>0, <2>1, <2>2, <2>3, <2>5 DEF Held
  <2> QED
    BY <2>4, <2>5
<1>8. CASE (Fail \/ End \/ BecomeDue) /\ UNCHANGED caller
  <2>1. CASE Fail
    BY <2>1 DEF Fail, Held
  <2>2. CASE End \/ BecomeDue
    <3>1. UNCHANGED <<pending, active, error, generation, mode, control, requested>>
      BY <1>8, <2>2, Zenon DEF End, BecomeDue, caller
    <3>2. Len(results') = Len(results)
      BY <2>2, Lengths DEF End
    <3> QED
      BY <3>1, <3>2, Zenon DEF Held, Running, Waiting
  <2> QED
    BY <1>8, <2>1, <2>2
<1>9. CASE ~(FirstChunk \/ Tick \/ SubmitFirst \/ StepGoesOn \/ Inference)
  <2>1. \/ control' \notin {"tick", "stepping", "awaiting"}
        \/ UNCHANGED vars
    BY <1>9 DEF Next, Control, StartEpisode, FirstChunkFails, StepEnds, StepFails,
       FinishEpisode, DrainFinal, DrainFails, Record, SyncStart, SyncInfer, SyncStep,
       SyncRecord, SyncFails, Close, Join, Crash
  <2>2. CASE UNCHANGED vars
    BY <2>2, Zenon DEF vars, worker, caller, Held, Running, Waiting
  <2>3. CASE control' \notin {"tick", "stepping", "awaiting"}
    BY <2>3 DEF Held
  <2> QED
    BY <2>1, <2>2, <2>3
<1> QED
  BY <1>2, <1>3, <1>4, <1>5, <1>6, <1>7, <1>8, <1>9, Zenon DEF Inference

-----------------------------------------------------------------------------
(* The invariant *)

LEMMA LegacyInit == ASSUME Assumed, Init PROVE LegacyInv
<1> USE DEF Init, WorkerInit
<1>0. EpisodeLength \in Nat /\ EpisodeLength >= 0
  BY DEF Assumed, BenchmarkAssumption
<1>1. WorkerType
  <2>1. NoRequest \in Requests
    BY <1>0 DEF NoRequest, Requests
  <2>2. NoCounts \in Counts
    BY DEF NoCounts, Counts
  <2>3. results \in Seq(Results) /\ generation \in Nat
    OBVIOUS
  <2>4. error \in BOOLEAN /\ closed \in BOOLEAN /\ ended \in BOOLEAN
    OBVIOUS
  <2> QED
    BY <2>1, <2>2, <2>3, <2>4, Zenon DEF WorkerType
<1>2. CallerType
  <2>1. queue \in Seq(Planned) /\ events \in Seq(Listed) /\ submitted \in Nat
    OBVIOUS
  <2>2. requested \in BOOLEAN
    BY Zenon
  <2>3. step \in 0..EpisodeLength
    BY <1>0
  <2>4. mode \in Modes
    BY Zenon
  <2>5. last \in Planned \cup {NoAction}
    BY Zenon
  <2>6. control \in {"next", "first", "awaiting", "tick", "stepping", "over", "draining",
                    "recorded", "sync", "closing", "joining", "exit"}
    BY Zenon
  <2> QED
    BY <2>1, <2>2, <2>3, <2>4, <2>5, <2>6, Zenon DEF CallerType
<1>3. Phased /\ NothingOutlives
  BY DEF Phased, NothingOutlives, Idle, Running, Waiting
<1>4. Own /\ InOrder /\ PlansMoveForward /\ NotAhead
  BY DEF Own, InOrder, PlansMoveForward, NotAhead, Running, Waiting
<1>5. Accounted
  BY EmptyHasNone DEF Accounted, NoCounts, Running, Waiting
<1>6. Aligned /\ Safe /\ Held
  BY DEF Aligned, Safe, Held
<1> QED
  BY <1>1, <1>2, <1>3, <1>4, <1>5, <1>6, Zenon DEF LegacyInv

LEMMA LegacyKeeps == ASSUME Assumed, LegacyInv, [Next]_vars PROVE LegacyInv'
<1>0. /\ WorkerType /\ CallerType /\ Phased /\ NothingOutlives /\ Own /\ InOrder
      /\ PlansMoveForward /\ NotAhead /\ Accounted /\ Aligned /\ Safe /\ Held
  BY Zenon DEF LegacyInv
<1>1. WorkerMoves /\ QueueMoves /\ EventMoves
  BY <1>0, StepsOfWorker, StepsOfLoop, Zenon
<1>2. WorkerType'
  BY <1>0, <1>1, WorkerTypeKeeps, Zenon
<1>3. CallerType'
  <2>1. mode' \in Modes
    BY <1>0, LoopKeeps DEF CallerType
  <2>2. queue' \in Seq(Planned) /\ last' \in Planned \cup {NoAction}
    BY <1>0, <1>1, QueueTypeKeeps, Zenon
  <2>3. events' \in Seq(Listed)
    BY <1>0, <1>1, EventTypeKeeps, Zenon
  <2> QED
    BY <1>0, <2>1, <2>2, <2>3, LoopKeeps, Zenon DEF CallerType
<1>4. Phased' /\ NothingOutlives' /\ Own'
  BY <1>0, PhasedKeeps, NothingOutlivesKeeps, OwnKeeps, Zenon
<1>5. InOrder' /\ PlansMoveForward' /\ NotAhead'
  BY <1>0, OrderKeeps, NotAheadKeeps, Zenon
<1>6. Accounted' /\ Aligned' /\ Safe' /\ Held'
  BY <1>0, AccountedKeeps, AlignedKeeps, SafeKeeps, HeldKeeps, Zenon
<1> QED
  BY <1>2, <1>3, <1>4, <1>5, <1>6, Zenon DEF LegacyInv

-----------------------------------------------------------------------------
(* What the invariant says of an episode *)

LEMMA TypesFollow == ASSUME Assumed, LegacyInv PROVE TypeOK
<1>0. WorkerType /\ CallerType /\ InOrder
  BY DEF LegacyInv
<1>1. pending.obs \in -1..EpisodeLength /\ active.obs \in -1..EpisodeLength
  BY <1>0 DEF WorkerType, Requests
<1>2. ASSUME NEW i \in DOMAIN results, results[i].due, NEW j \in 1..i PROVE results[j].due
  <2>1. j \in DOMAIN results /\ (j < i \/ j = i)
    BY <1>0 DEF WorkerType
  <2> QED
    BY <1>0, <1>2, <2>1 DEF InOrder
<1> QED
  BY <1>0, <1>1, <1>2 DEF TypeOK, WorkerType, CallerType

LEMMA FirstChunkIsSafe == ASSUME Assumed, LegacyInv PROVE AlwaysSafe
<1>0. WorkerType /\ CallerType /\ NotAhead /\ Own /\ Phased /\ Safe
  BY DEF LegacyInv
<1>1. ASSUME control = "awaiting", Deliverable PROVE MergeDue.queue # <<>>
  <2>1. results \in Seq(Results) /\ results # <<>> /\ results[1].due /\ 1 \in DOMAIN results
    BY <1>0, <1>1, Popped DEF WorkerType, Deliverable
  <2>2. DueCount \in 0..Len(results) /\ (DueCount < Len(results) => ~results[DueCount + 1].due)
    BY <2>1, DueIsPrefix
  <2>3. 1 \in 1..DueCount
    BY <2>1, <2>2
  <2>4. results[1].gen = generation /\ results[1].obs <= step /\ step = 0
    BY <1>0, <1>1, <2>1 DEF Own, NotAhead, Phased
  <2>5. results[1].obs \in Nat /\ results[1].len \in Nat /\ results[1].len > 0
    BY <2>1, ResultShape
  <2>6. Drop(results[1]) = 0
    BY <2>4, <2>5 DEF Drop
  <2>7. Verdict(results[1]) = "replaced"
    BY <2>4, <2>5, <2>6 DEF Verdict
  <2>8. PICK j \in 1..DueCount : Merges(results[j])
    BY <1>0, <2>3, <2>7, QueueMerged
  <2>9. results[j] \in Results
    BY <2>1, <2>2, <2>8
  <2> QED
    BY <2>8, <2>9, ActionsOf, Zenon DEF Merges
<1> QED
  BY <1>0, <1>1 DEF AlwaysSafe, Safe

LEMMA RecordFollows == ASSUME Assumed, LegacyInv PROVE RequestsAccounted
<1>0. Phased /\ Accounted /\ WorkerType /\ CallerType
  BY DEF LegacyInv
<1> SUFFICES ASSUME control = "recorded", mode # "sync"
             PROVE  /\ count.started = Len(events) /\ count.completed = Len(events)
                    /\ submitted = count.started + count.replaced + count.cancelled
  BY DEF RequestsAccounted
<1>1. ~Running /\ ~Waiting /\ Len(results) = 0 /\ ~error
  BY <1>0, EmptyHasNone DEF Phased, Idle, Running, Waiting
<1>2. count \in Counts /\ Len(events) \in Nat
  BY <1>0, Lengths DEF WorkerType
<1> QED
  BY <1>0, <1>1, <1>2 DEF Accounted, Counts

LEMMA HeldFollows == ASSUME Assumed, LegacyInv, ~Abandons PROVE OneHeldRequest
<1>1. Held /\ (active # NoRequest => Running)
  BY DEF LegacyInv, NothingOutlives
<1> QED
  BY <1>1 DEF Held, OneHeldRequest, Running, Waiting

(* An episode holds what its record says of it.                              *)
EpisodeHolds ==
    /\ TypeOK /\ OwnActions /\ IdleWhenRecorded /\ RequestsAccounted /\ Aligned
    /\ AlwaysSafe /\ PlansMoveForward
    /\ ~Abandons => OneHeldRequest

LEMMA EpisodeFollows == ASSUME Assumed, LegacyInv PROVE EpisodeHolds
<1>1. OwnActions /\ IdleWhenRecorded
  BY DEF LegacyInv, Own, OwnActions, Phased, IdleWhenRecorded
<1>2. Aligned /\ PlansMoveForward
  BY DEF LegacyInv
<1> QED
  BY <1>1, <1>2, TypesFollow, FirstChunkIsSafe, RecordFollows, HeldFollows DEF EpisodeHolds

(* For every mode, chunk and length: what is queued, held or waiting is of   *)
(* the running episode and, aligned, of the coming steps; a plan never goes  *)
(* back; the first chunk leaves an action; every request is accounted for    *)
(* once and a recorded episode has its worker idle.                          *)
THEOREM EpisodesHold == ASSUME Assumed PROVE Spec => []EpisodeHolds
<1>1. Init => LegacyInv
  BY LegacyInit
<1>2. LegacyInv /\ [Next]_vars => LegacyInv'
  BY LegacyKeeps
<1>3. LegacyInv => EpisodeHolds
  BY EpisodeFollows
<1> QED
  BY <1>1, <1>2, <1>3, PTL DEF Spec

(* What writes the record along only watches.                                *)
LEMMA RecordingWatches == ASSUME [AuditNext]_auditVars PROVE [Next]_vars
<1>1. CASE AuditNext
  BY <1>1, Zenon DEF AuditNext, Opened, Requesting, FirstMerge, Dispatching, Draining,
     Unwritten, Next, Control
<1>2. CASE UNCHANGED auditVars
  BY <1>2, Zenon DEF auditVars
<1> QED
  BY <1>1, <1>2

(* The same of the episodes that are written down.                           *)
THEOREM RecordedEpisodesHold == ASSUME Assumed PROVE AuditSpec => []EpisodeHolds
<1>1. AuditInit => LegacyInv
  BY LegacyInit DEF AuditInit
<1>2. LegacyInv /\ [AuditNext]_auditVars => LegacyInv'
  BY LegacyKeeps, RecordingWatches
<1>3. LegacyInv => EpisodeHolds
  BY EpisodeFollows
<1> QED
  BY <1>1, <1>2, <1>3, PTL DEF AuditSpec

-----------------------------------------------------------------------------
(* What is written of an episode: the trace of the actions, the queue at the *)
(* requests, how each result was merged, and the queue's counters.           *)
Entries == [before : Nat, after : Nat, held : BOOLEAN, action : Planned \cup {NoAction}]
Found == [step : 0..EpisodeLength, before : Nat] \cup {NotMerged}

Over == control \in {"over", "draining", "recorded"}
Moving == control \in {"tick", "stepping"} \/ Over

WrittenType ==
    /\ trace \in Seq(Entries) /\ merges \in Seq(Found)
    /\ counted \in [holds : Nat, stale : Nat]
    /\ \A s \in DOMAIN asked : asked[s] \in Nat

(* Whatever is listed, finished, inferred or waiting was asked for.          *)
AskedFor ==
    /\ \A i \in DOMAIN events : events[i].obs \in DOMAIN asked
    /\ \A i \in DOMAIN results : results[i].obs \in DOMAIN asked
    /\ Running => active.obs \in DOMAIN asked
    /\ Waiting => pending.obs \in DOMAIN asked

(* Each event has its merge, in a step that is over when the episode is.     *)
MatchedAt(i) ==
    /\ events[i].verdict # "old_episode"
    /\ merges[i] = NotMerged => events[i].verdict = "episode_ended"
    /\ merges[i].step <= step /\ (Over => merges[i].step < step)
Matched == Len(merges) = Len(events) /\ \A i \in 1..Len(events) : MatchedAt(i)

(* Where the loop is says how much is written.                               *)
Reached ==
    /\ control \in {"first", "awaiting"} => events = <<>> /\ trace = <<>>
    /\ Moving => events # <<>>
    /\ Moving => Len(trace) = IF control = "stepping" THEN step + 1 ELSE step
    /\ Over => step > 0
    /\ control = "recorded" => mode # "sync"

(* The counters count what is in the lists.                                  *)
HeldEntries == {e \in Entries : e.held}
StaleEvents == {e \in Listed : e.verdict = "fully_stale"}
Counted ==
    /\ Cardinality({i \in 1..Len(trace) : trace[i] \in HeldEntries}) = counted.holds
    /\ Cardinality({i \in 1..Len(events) : events[i] \in StaleEvents}) = counted.stale
NoneDiscarded == ~Abandons => count.discarded = 0

(* An action comes from the queue, or repeats the one before it.             *)
EntryHolds(i) ==
    IF trace[i].held
    THEN i > 1 /\ trace[i].before = 0 /\ trace[i].after = 0
           /\ trace[i].action = trace[i - 1].action
    ELSE trace[i].before > 0 /\ trace[i].after = trace[i].before - 1
Traced ==
    /\ \A i \in 1..Len(trace) : EntryHolds(i)
    /\ control \in {"tick", "stepping"} =>
         IF trace = <<>> THEN queue # <<>> ELSE trace[Len(trace)].action = last

(* sync_hold asks with nothing left, so that nothing is left when the answer *)
(* comes, and only the first answer comes before the first step.             *)
StopAndWait == mode = "sync_hold" =>
    /\ \A s \in DOMAIN asked : asked[s] = 0
    /\ \A i \in 1..Len(events) :
         /\ merges[i] # NotMerged => Accepted(i) /\ merges[i].before = 0
         /\ i > 1 => merges[i].step # 0
    /\ control \in {"tick", "stepping"} /\ requested => queue = <<>> /\ step > 0
    /\ Moving => Accepted(1) /\ merges[1].step = 0

(* A request of sync_hold is in one place until the end of the episode, when *)
(* only the last one can have been cancelled.                                *)
Somewhere(s) ==
    \/ \E i \in DOMAIN events : events[i].obs = s
    \/ \E i \in DOMAIN results : results[i].obs = s
    \/ Running /\ active.obs = s
    \/ Waiting /\ pending.obs = s
    \/ count.cancelled > 0 /\ \A t \in DOMAIN asked : t <= s
NoneLost == mode = "sync_hold" =>
    /\ ~error /\ control \notin {"next", "closing", "joining", "exit"}
         => \A s \in DOMAIN asked : Somewhere(s)
    /\ \A s \in DOMAIN asked : s \in Int /\ s <= step
    /\ Waiting => \A s \in DOMAIN asked : s <= pending.obs
    /\ control \in {"first", "awaiting", "tick", "stepping"} => count.cancelled = 0

(* It is asked for in the step before nothing is left: a hold that begins    *)
(* finds it outstanding.                                                     *)
HoldsBegin == mode = "sync_hold" =>
    /\ \A s \in 0..(Len(trace) - 1) : HoldStart(s) => s > 0 /\ s \in DOMAIN asked
    /\ trace # <<>> /\ ~trace[Len(trace)].held =>
         /\ control = "stepping" => ~requested
         /\ control = "tick" /\ queue = <<>> => step \in DOMAIN asked

AuditInv ==
    /\ WrittenType /\ AskedFor /\ Matched /\ Reached /\ Counted /\ NoneDiscarded
    /\ Traced /\ StopAndWait /\ NoneLost /\ HoldsBegin

-----------------------------------------------------------------------------
(* What a step does to the record *)

Opening ==
    /\ StartEpisode
    /\ trace' = <<>> /\ asked' = <<>> /\ merges' = <<>> /\ counted' = NoCounted
Posting ==
    /\ Submit(step') /\ step' \in Nat
    /\ asked' = [s \in DOMAIN asked \cup {step'} |->
                   IF s = step' THEN Len(queue) ELSE asked[s]]
    /\ UNCHANGED <<mode, queue, last, events, trace, merges, counted>>
    /\ requested' = (mode = "sync_hold")
    /\ \/ control = "first" /\ control' = "awaiting" /\ step' = step
       \/ /\ control = "stepping" /\ step' = step + 1 /\ WantsRequest(step + 1)
          /\ control' \in {"tick", "over"}
AddingMerges ==
    /\ Merging /\ ~error /\ requested' = StillRequested
    /\ merges' = merges \o MergeTelemetry /\ UNCHANGED asked
    /\ counted'.stale = counted.stale + StaleNow
FirstMerging ==
    /\ AddingMerges /\ control = "awaiting" /\ queue' = MergeDue.queue /\ queue' # <<>>
    /\ control' = (IF step < EpisodeLength THEN "tick" ELSE "over")
    /\ UNCHANGED <<trace, last>> /\ counted' = [counted EXCEPT !.stale = @ + StaleNow]
Acting ==
    /\ AddingMerges /\ control = "tick" /\ control' = "stepping"
    /\ LET q == MergeDue.queue
           held == q = <<>>
       IN /\ queue' = (IF held THEN q ELSE Tail(q))
          /\ last' = (IF held THEN last ELSE Head(q))
          /\ trace' = Append(trace, [before |-> Len(q), after |-> Len(queue'),
                                     held |-> held, action |-> last'])
          /\ counted' = [holds |-> counted.holds + (IF held THEN 1 ELSE 0),
                         stale |-> counted.stale + StaleNow]
Clearing ==
    /\ DrainFinal
    /\ merges' = merges \o [i \in DOMAIN results |-> NotMerged]
    /\ UNCHANGED <<trace, asked, counted>>
Leaving ==
    /\ control' \in {"next", "closing", "joining", "exit"}
    /\ UNCHANGED <<mode, step, queue, last, requested, events>>
    /\ UNCHANGED worker \/ CloseWorker
GoingOn ==
    /\ control = "stepping" /\ control' \in {"tick", "over"} /\ step' = step + 1
    /\ control' = "tick" => ~WantsRequest(step + 1)
    /\ UNCHANGED <<worker, mode, queue, last, requested, events>>
Finishing ==
    /\ control = "over" /\ control' = "draining" /\ CancelPending
    /\ UNCHANGED <<mode, step, queue, last, requested, events>>
Inferring ==
    /\ UNCHANGED caller
    /\ Take \/ Finish \/ Fail \/ End \/ BecomeDue \/ UNCHANGED worker
Watching ==
    /\ Leaving \/ GoingOn \/ Finishing \/ Inferring
    /\ UNCHANGED written
RecordMoves == Opening \/ Posting \/ FirstMerging \/ Acting \/ Clearing \/ Watching

LEMMA StepsOfRecord ==
    ASSUME Assumed, WorkerType, CallerType, Phased, [AuditNext]_auditVars
    PROVE  RecordMoves
<1> USE Zenon DEF RecordMoves, Watching
<1>0. /\ control \in {"awaiting", "tick"} => mode # "sync"
      /\ control = "first" => submitted = 0
      /\ step \in Nat /\ submitted \in Nat
  BY SMT DEF Phased, CallerType, Assumed, BenchmarkAssumption
<1>1. CASE Opened
  BY <1>1 DEF Opened, Opening
<1>2. CASE Requesting
  <2>0. UNCHANGED <<trace, merges, counted>>
    BY <1>2 DEF Requesting
  <2>1. CASE Crash
    <3>1. UNCHANGED submitted /\ Leaving
      BY <2>1 DEF Crash, Leaving
    <3>2. ~(submitted' > submitted)
      BY <1>0, <3>1, SMT
    <3> QED
      BY <1>2, <2>0, <3>1, <3>2 DEF Requesting, written
  <2>2. CASE SubmitFirst /\ ~error
    <3>1. /\ Submit(0) /\ submitted' = 1 /\ requested' = (mode = "sync_hold")
          /\ control = "first" /\ control' = "awaiting"
          /\ UNCHANGED <<mode, step, queue, last, events>>
      BY <2>2 DEF SubmitFirst
    <3>2. step = 0
      BY <3>1, SMT DEF Phased
    <3>3. submitted' > submitted
      BY <1>0, <3>1, SMT
    <3> QED
      BY <1>0, <1>2, <2>0, <3>1, <3>2, <3>3 DEF Requesting, Posting
  <2>3. CASE StepGoesOn /\ ~(WantsRequest(step + 1) /\ error)
    <3>1. /\ control = "stepping" /\ step' = step + 1 /\ control' \in {"tick", "over"}
          /\ UNCHANGED <<mode, queue, last, events>>
      BY <2>3 DEF StepGoesOn
    <3>2. CASE WantsRequest(step + 1)
      <4>1. /\ Submit(step + 1) /\ submitted' = submitted + 1
            /\ requested' = (mode = "sync_hold")
        BY <2>3, <3>2 DEF StepGoesOn
      <4>2. submitted' > submitted /\ step' \in Nat
        BY <1>0, <3>1, <4>1, SMT
      <4> QED
        BY <1>2, <2>0, <3>1, <3>2, <4>1, <4>2 DEF Requesting, Posting
    <3>3. CASE ~WantsRequest(step + 1)
      <4>1. UNCHANGED <<worker, submitted, requested>>
        BY <2>3, <3>3 DEF StepGoesOn
      <4>2. ~(submitted' > submitted)
        BY <1>0, <4>1, SMT
      <4> QED
        BY <1>2, <2>0, <3>1, <3>3, <4>1, <4>2 DEF Requesting, GoingOn, written
    <3> QED
      BY <3>2, <3>3
  <2> QED
    BY <1>2, <2>1, <2>2, <2>3 DEF Requesting, SubmitFirst, StepGoesOn
<1>3. CASE FirstMerge
  BY <1>0, <1>3, SMT DEF FirstMerge, FirstChunk, Merging, FirstMerging, AddingMerges, WrittenType
<1>4. CASE Dispatching
  <2>1. CASE error
    BY <1>4, <2>1 DEF Dispatching, Tick, Crash, Leaving
  <2>2. CASE ~error
    <3>1. AddingMerges
      <4>1. Merging /\ requested' = StillRequested
        BY <1>0, <1>4, <2>2 DEF Dispatching, Tick, Merging
      <4>2. /\ merges' = merges \o MergeTelemetry /\ UNCHANGED asked
            /\ counted' = [holds |-> counted.holds + (IF MergeDue.queue = <<>> THEN 1 ELSE 0),
                           stale |-> counted.stale + StaleNow]
        BY <1>4, <2>2 DEF Dispatching
      <4>3. counted'.stale = counted.stale + StaleNow
        BY <4>2, SMT
      <4> QED
        BY <2>2, <4>1, <4>2, <4>3 DEF AddingMerges
    <3>2. control = "tick" /\ control' = "stepping"
      BY <1>4, <2>2 DEF Dispatching, Tick
    <3> QED
      BY <1>4, <2>2, <3>1, <3>2 DEF Dispatching, Tick, Acting
  <2> QED
    BY <2>1, <2>2
<1>5. CASE Draining
  BY <1>5 DEF Draining, Clearing
<1>6. CASE Unwritten
  <2>0. UNCHANGED written
    BY <1>6 DEF Unwritten
  <2>1. CASE Crash \/ Record \/ Join
    BY <2>0, <2>1 DEF Crash, Record, Join, Leaving
  <2>2. CASE StepEnds
    BY <2>0, <2>2 DEF StepEnds, GoingOn
  <2>3. CASE FinishEpisode /\ ~error
    BY <2>0, <2>3 DEF FinishEpisode, Finishing
  <2>4. CASE Close
    BY <2>0, <2>4 DEF Close, Leaving
  <2>5. CASE Inference
    BY <2>0, <2>5 DEF Inference, Inferring
  <2> QED
    BY <1>6, <2>1, <2>2, <2>3, <2>4, <2>5
       DEF Unwritten, FirstChunkFails, StepFails, FinishEpisode, DrainFails
<1>7. CASE UNCHANGED auditVars
  BY <1>7 DEF auditVars, vars, Inferring
<1> QED
  BY <1>1, <1>2, <1>3, <1>4, <1>5, <1>6, <1>7 DEF AuditNext

-----------------------------------------------------------------------------
(* What is merged, and what is counted *)

LEMMA QueueBefore ==
    ASSUME Assumed, WorkerType, CallerType, NotAhead, NEW n \in 0..DueCount
    PROVE  QueueAfter(n) \in Seq(Planned) /\ (n = 0 => QueueAfter(n) = queue)
<1>1. DueCount \in 0..Len(results) /\ \A i \in 1..DueCount : Due[i] = results[i]
  BY DueIsPrefix DEF WorkerType
<1>2. n \in Nat /\ Accepting(n) \subseteq 1..n /\ 1..n \subseteq 1..DueCount
  BY <1>1, DueIsPrefix DEF Accepting, WorkerType
<1>3. CASE Accepting(n) = {}
  BY <1>3, Zenon DEF QueueAfter, CallerType
<1>4. CASE Accepting(n) # {}
  <2> DEFINE j == Max(Accepting(n))
  <2>1. j \in Accepting(n) /\ n # 0
    <3>1. j \in Accepting(n)
      BY <1>2, <1>4, LastOf, Zenon
    <3>2. n # 0
      BY <1>2, <1>4
    <3> QED
      BY <3>1, <3>2
  <2>2. QueueAfter(n) = Actions(Due[j], Drop(Due[j]))
    BY <1>4, Zenon DEF QueueAfter
  <2> HIDE DEF j
  <2>3. j \in 1..DueCount /\ Due[j] = results[j] /\ Verdict(results[j]) = "replaced"
    BY <1>1, <1>2, <2>1 DEF Accepting
  <2>4. j \in DOMAIN results
    BY <1>1, <2>3 DEF WorkerType
  <2>5. results[j] \in Results /\ Drop(results[j]) \in Nat /\ Drop(results[j]) < results[j].len
    BY <2>3, <2>4, DropIsAge, Zenon
  <2> QED
    BY <2>1, <2>2, <2>3, <2>5, ActionsOf, Zenon
<1> QED
  BY <1>3, <1>4

LEMMA TelemetryOf ==
    ASSUME Assumed, WorkerType, CallerType, NotAhead
    PROVE  /\ MergeTelemetry \in [1..DueCount -> Found]
           /\ \A i \in 1..DueCount :
                /\ MergeTelemetry[i] # NotMerged /\ MergeTelemetry[i].step = step
                /\ MergeTelemetry[i].before = Len(QueueAfter(i - 1))
<1>1. DueCount \in Nat
  BY DueIsPrefix DEF WorkerType
<1>2. ASSUME NEW i \in 1..DueCount
      PROVE  [step |-> step, before |-> Len(QueueAfter(i - 1))] \in Found
  <2>1. i - 1 \in 0..DueCount
    BY <1>1
  <2>2. QueueAfter(i - 1) \in Seq(Planned)
    BY <2>1, QueueBefore, Zenon
  <2>3. Len(QueueAfter(i - 1)) \in Nat
    BY <2>2
  <2> QED
    BY <2>3 DEF Found, CallerType
<1>3. step \in Nat
  BY DEF CallerType, Assumed, BenchmarkAssumption
<1>4. ASSUME NEW i \in 1..DueCount
      PROVE  /\ MergeTelemetry[i] # NotMerged /\ MergeTelemetry[i].step = step
             /\ MergeTelemetry[i].before = Len(QueueAfter(i - 1))
  <2>1. MergeTelemetry[i] = [step |-> step, before |-> Len(QueueAfter(i - 1))]
    BY Zenon DEF MergeTelemetry
  <2>2. MergeTelemetry[i].step = step
    BY <2>1
  <2>3. NotMerged.step = -1
    BY DEF NotMerged
  <2> QED
    BY <1>3, <2>1, <2>2, <2>3
<1> QED
  BY <1>2, <1>4, Zenon DEF MergeTelemetry

LEMMA MergesGrow ==
    ASSUME Assumed, WorkerType, CallerType, NotAhead, merges \in Seq(Found), AddingMerges
    PROVE  /\ merges' \in Seq(Found) /\ Len(merges') = Len(merges) + DueCount
           /\ \A i \in 1..Len(merges) : merges'[i] = merges[i]
           /\ \A i \in 1..DueCount :
                /\ merges'[Len(merges) + i] # NotMerged
                /\ merges'[Len(merges) + i].step = step
                /\ merges'[Len(merges) + i].before = Len(QueueAfter(i - 1))
<1>1. DueCount \in Nat /\ merges' = merges \o MergeTelemetry
  BY DueIsPrefix DEF WorkerType, AddingMerges
<1>2. /\ merges' \in Seq(Found) /\ Len(merges') = Len(merges) + DueCount
      /\ \A i \in 1..Len(merges) : merges'[i] = merges[i]
      /\ \A i \in 1..DueCount : merges'[Len(merges) + i] = MergeTelemetry[i]
  BY <1>1, TelemetryOf, Joined
<1> QED
  BY <1>2, TelemetryOf

LEMMA MergesEnd ==
    ASSUME WorkerType, merges \in Seq(Found), Clearing
    PROVE  /\ merges' \in Seq(Found) /\ Len(merges') = Len(merges) + Len(results)
           /\ \A i \in 1..Len(merges) : merges'[i] = merges[i]
           /\ \A i \in 1..Len(results) : merges'[Len(merges) + i] = NotMerged
<1> DEFINE n == Len(results)
           new == [i \in 1..n |-> NotMerged]
<1>1. n \in Nat /\ merges' = merges \o new
  BY DEF WorkerType, Clearing
<1>2. new \in [1..n -> Found]
  BY DEF Found
<1>3. \A i \in 1..n : new[i] = NotMerged
  OBVIOUS
<1> HIDE DEF n, new
<1>4. /\ merges \o new \in Seq(Found) /\ Len(merges \o new) = Len(merges) + n
      /\ \A i \in 1..Len(merges) : (merges \o new)[i] = merges[i]
      /\ \A i \in 1..n : (merges \o new)[Len(merges) + i] = new[i]
  <2>1. new \in Seq(Found) /\ Len(new) = n
    BY <1>1, <1>2, Listing
  <2>2. merges \o new \in Seq(Found) /\ Len(merges \o new) = Len(merges) + n
    BY <2>1
  <2>3. \A i \in 1..Len(merges) : (merges \o new)[i] = merges[i]
    BY <2>1
  <2>4. \A i \in 1..n : (merges \o new)[Len(merges) + i] = new[i]
    BY <1>1, <2>1
  <2> QED
    BY <2>2, <2>3, <2>4
<1>5. /\ merges' \in Seq(Found) /\ Len(merges') = Len(merges) + n
      /\ \A i \in 1..Len(merges) : merges'[i] = merges[i]
      /\ \A i \in 1..n : merges'[Len(merges) + i] = new[i]
  BY <1>1, <1>4, Zenon
<1> QED
  BY <1>3, <1>5 DEF n

LEMMA StaleNowCounts ==
    ASSUME Assumed, WorkerType
    PROVE  /\ StaleNow \in Nat
           /\ StaleNow = Cardinality({i \in 1..DueCount : Verdict(results[i]) = "fully_stale"})
<1>1. DueCount \in 0..Len(results) /\ \A i \in 1..DueCount : Due[i] = results[i]
  BY DueIsPrefix DEF WorkerType
<1>2. DOMAIN Due = 1..DueCount
  BY <1>1, DueIsPrefix DEF Due, WorkerType
<1> DEFINE stale == {i \in 1..DueCount : Verdict(results[i]) = "fully_stale"}
<1>3. {i \in DOMAIN Due : Verdict(Due[i]) = "fully_stale"} = stale
  BY <1>1, <1>2
<1>4. StaleNow = Cardinality(stale)
  BY <1>3, Zenon DEF StaleNow
<1>5. stale \subseteq Nat /\ \A i \in stale : i <= Len(results)
  BY <1>1 DEF WorkerType
<1> HIDE DEF stale
<1>6. Cardinality(stale) \in Nat
  <2>1. Len(results) \in Nat /\ stale \in SUBSET Nat
    BY <1>5 DEF WorkerType
  <2>2. IsFiniteSet(stale)
    BY <1>5, <2>1, FS_BoundedSetOfNaturals, Zenon
  <2> QED
    BY <2>2, FS_CardinalityType, Zenon
<1> QED
  BY <1>4, <1>6 DEF stale

LEMMA WrittenTypeKeeps ==
    ASSUME Assumed, WorkerType, CallerType, Phased, Own, NotAhead, WrittenType,
           CallerType', RecordMoves
    PROVE  WrittenType'
<1> USE DEF WrittenType
<1>1. CASE Opening
  BY <1>1 DEF Opening, NoCounted
<1>2. CASE Posting
  BY <1>2 DEF Posting, CallerType
<1>3. CASE FirstMerging
  <2>1. counted' \in [holds : Nat, stale : Nat]
    BY <1>3, StaleNowCounts DEF FirstMerging
  <2> QED
    BY <1>3, <2>1, MergesGrow DEF FirstMerging, AddingMerges
<1>4. CASE Acting
  <2> DEFINE q == MergeDue.queue
             held == q = <<>>
             entry == [before |-> Len(q), after |-> Len(queue'), held |-> held, action |-> last']
  <2>1. q \in Seq(Planned) /\ queue' \in Seq(Planned) /\ last' \in Planned \cup {NoAction}
    BY QueueIsPlanned DEF CallerType
  <2>2. held \in BOOLEAN
    OBVIOUS
  <2>3. entry \in Entries
    BY <2>1, <2>2 DEF Entries
  <2>4. trace' = Append(trace, entry)
    BY <1>4, Zenon DEF Acting
  <2>5. counted' \in [holds : Nat, stale : Nat]
    <3>1. counted' = [holds |-> counted.holds + (IF held THEN 1 ELSE 0),
                      stale |-> counted.stale + StaleNow]
      BY <1>4, Zenon DEF Acting
    <3> HIDE DEF held
    <3> QED
      BY <3>1, StaleNowCounts
  <2>6. merges' \in Seq(Found) /\ UNCHANGED asked
    BY <1>4, MergesGrow DEF Acting, AddingMerges
  <2> HIDE DEF entry
  <2> QED
    BY <2>3, <2>4, <2>5, <2>6
<1>5. CASE Clearing
  BY <1>5, MergesEnd DEF Clearing
<1>6. CASE Watching
  BY <1>6, Zenon DEF Watching, written
<1> QED
  BY <1>1, <1>2, <1>3, <1>4, <1>5, <1>6 DEF RecordMoves

(* The places among the first m and among the n after them.                  *)
AddUp(m, n, A, B, C) ==
    /\ m \in Nat /\ n \in Nat
    /\ A \in SUBSET (1..m) /\ B \in SUBSET (1..n) /\ C \in SUBSET (1..(m + n))
    /\ \A i \in 1..m : i \in C <=> i \in A
    /\ \A i \in 1..n : m + i \in C <=> i \in B

LEMMA PlacesAdd ==
    ASSUME NEW m, NEW n, NEW A, NEW B, NEW C, AddUp(m, n, A, B, C)
    PROVE  /\ Cardinality(A) \in Nat /\ Cardinality(B) \in Nat
           /\ Cardinality(C) = Cardinality(A) + Cardinality(B)
<1> USE DEF AddUp
<1> DEFINE shift == [i \in B |-> m + i]
           D == {c \in C : c > m}
<1>1. IsFiniteSet(1..m) /\ IsFiniteSet(1..n) /\ IsFiniteSet(1..(m + n))
  BY FS_Interval
<1>2. D \in SUBSET (1..(m + n))
  OBVIOUS
<1>3. IsFiniteSet(A) /\ IsFiniteSet(B) /\ IsFiniteSet(D)
  BY <1>1, <1>2, FS_Subset, Zenon
<1>4. /\ Cardinality(A) \in Nat /\ Cardinality(B) \in Nat /\ Cardinality(D) \in Nat
  BY <1>3, FS_CardinalityType, Zenon
<1>5. shift \in [B -> D]
  OBVIOUS
<1>6. \A c \in D : \E i \in B : shift[i] = c
  <2> SUFFICES ASSUME NEW c \in D PROVE \E i \in B : shift[i] = c
    OBVIOUS
  <2>1. c - m \in 1..n /\ m + (c - m) = c
    OBVIOUS
  <2>2. c - m \in B
    BY <2>1
  <2> QED
    BY <2>1, <2>2
<1>7. \A i, j \in B : shift[i] = shift[j] => i = j
  OBVIOUS
<1>8. shift \in Surjection(B, D) /\ shift \in Injection(B, D)
  <2> HIDE DEF shift, D
  <2> QED
    BY <1>5, <1>6, <1>7, Zenon DEF Surjection, Injection, IsInjective
<1>9. Cardinality(D) = Cardinality(B)
  <2> HIDE DEF shift, D
  <2> QED
    BY <1>3, <1>8, FS_Surjection, Zenon
<1>10. C = A \cup D /\ A \cap D = {}
  <2>1. \A c \in 1..(m + n) : c \in 1..m <=> ~(c > m)
    OBVIOUS
  <2>2. \A c : c \in A => c \in 1..m /\ c \in 1..(m + n)
    OBVIOUS
  <2>3. \A c : c \in C => c \in 1..(m + n)
    OBVIOUS
  <2> QED
    BY <2>1, <2>2, <2>3, Zenon
<1>11. Cardinality(C) = Cardinality(A) + Cardinality(D)
  <2> HIDE DEF D
  <2>1. Cardinality(A \cup D) = Cardinality(A) + Cardinality(D) - Cardinality(A \cap D)
    BY <1>3, FS_Union
  <2>2. Cardinality(A \cap D) = 0
    BY <1>10, FS_EmptySet
  <2> QED
    BY <1>4, <1>10, <2>1, <2>2
<1> QED
  BY <1>4, <1>9, <1>11

LEMMA PlaceAdded ==
    ASSUME NEW m \in Nat, NEW A \in SUBSET (1..m), NEW C \in SUBSET (1..(m + 1)),
           \A i \in 1..m : i \in C <=> i \in A
    PROVE  /\ Cardinality(A) \in Nat
           /\ Cardinality(C) = Cardinality(A) + (IF m + 1 \in C THEN 1 ELSE 0)
<1> DEFINE B == IF m + 1 \in C THEN {1} ELSE {}
<1>1. B \in SUBSET (1..1) /\ \A i \in 1..1 : m + i \in C <=> i \in B
  OBVIOUS
<1>2. Cardinality(B) = IF m + 1 \in C THEN 1 ELSE 0
  BY FS_EmptySet, FS_Singleton
<1>3. 1 \in Nat
  OBVIOUS
<1> HIDE DEF B
<1>4. AddUp(m, 1, A, B, C)
  BY <1>1, <1>3, Zenon DEF AddUp
<1>5. /\ Cardinality(A) \in Nat
      /\ Cardinality(C) = Cardinality(A) + Cardinality(B)
  BY ONLY <1>4, PlacesAdd
<1> QED
  BY <1>2, <1>5

LEMMA StaleCounted ==
    ASSUME Assumed, WorkerType, CallerType, WrittenType, Counted, AddingMerges
    PROVE  Cardinality({i \in 1..Len(events') : events'[i] \in StaleEvents}) = counted'.stale
<1> DEFINE m == Len(events)
           A == {i \in 1..m : events[i] \in StaleEvents}
           B == {i \in 1..DueCount : Verdict(results[i]) = "fully_stale"}
           C == {i \in 1..Len(events') : events'[i] \in StaleEvents}
<1>1. m \in Nat /\ DueCount \in Nat
  BY DueIsPrefix DEF WorkerType, CallerType
<1>2. /\ events' \in Seq(Listed) /\ Len(events') = m + DueCount
      /\ \A i \in 1..m : events'[i] = events[i]
      /\ \A i \in 1..DueCount : events'[m + i].verdict = Verdict(results[i])
  BY EventsMerged DEF AddingMerges, Merging
<1>3. A \in SUBSET (1..m) /\ B \in SUBSET (1..DueCount) /\ C \in SUBSET (1..(m + DueCount))
  BY <1>2
<1>4. \A i \in 1..m : i \in C <=> i \in A
  BY <1>1, <1>2
<1>5. \A i \in 1..DueCount : m + i \in C <=> i \in B
  <2> SUFFICES ASSUME NEW i \in 1..DueCount PROVE m + i \in C <=> i \in B
    OBVIOUS
  <2>1. m + i \in 1..Len(events') /\ events'[m + i] \in Listed
    BY <1>1, <1>2
  <2>2. events'[m + i].verdict = Verdict(results[i])
    BY <1>2
  <2> QED
    BY <2>1, <2>2 DEF StaleEvents
<1>6. Cardinality(A) = counted.stale
  BY Zenon DEF Counted
<1>7. StaleNow = Cardinality(B)
  BY StaleNowCounts
<1>8. counted'.stale = counted.stale + StaleNow
  BY DEF AddingMerges
<1>9. Cardinality(C) = Cardinality(A) + Cardinality(B)
  <2> HIDE DEF A, B, C, m
  <2>1. AddUp(m, DueCount, A, B, C)
    BY <1>1, <1>3, <1>4, <1>5, Zenon DEF AddUp
  <2> QED
    BY ONLY <2>1, PlacesAdd
<1> QED
  BY <1>6, <1>7, <1>8, <1>9

LEMMA CountedKeeps ==
    ASSUME Assumed, WorkerType, CallerType, Phased, Own, NotAhead, WrittenType, Counted,
           WrittenType', RecordMoves
    PROVE  Counted'
<1> DEFINE HeldIn(t) == {i \in 1..Len(t) : t[i] \in HeldEntries}
           Stale(e) == {i \in 1..Len(e) : e[i] \in StaleEvents}
<1>0. /\ HeldEntries' = HeldEntries /\ StaleEvents' = StaleEvents
  BY Zenon DEF HeldEntries, StaleEvents
<1> SUFFICES /\ Cardinality(HeldIn(trace')) = counted'.holds
             /\ Cardinality(Stale(events')) = counted'.stale
  BY <1>0, Zenon DEF Counted
<1>1. Cardinality(HeldIn(trace)) = counted.holds /\ Cardinality(Stale(events)) = counted.stale
  BY Zenon DEF Counted
<1>2. CASE Opening
  <2>1. trace' = <<>> /\ events' = <<>> /\ counted' = NoCounted
    BY <1>2, Zenon DEF Opening, StartEpisode
  <2>2. HeldIn(trace') = {} /\ Stale(events') = {}
    BY <2>1
  <2> QED
    BY <2>1, <2>2, FS_EmptySet DEF NoCounted
<1>3. CASE Posting
  <2>1. UNCHANGED <<trace, events, counted>>
    BY <1>3, Zenon DEF Posting
  <2> QED
    BY <1>1, <2>1, Zenon
<1>4. CASE FirstMerging
  <2>1. AddingMerges /\ trace' = trace
    BY <1>4, Zenon DEF FirstMerging
  <2>2. counted'.holds = counted.holds
    BY <1>4 DEF FirstMerging, WrittenType
  <2> QED
    BY <1>1, <2>1, <2>2, StaleCounted, Zenon
<1>5. CASE Acting
  <2> DEFINE m == Len(trace)
             held == MergeDue.queue = <<>>
  <2>1. AddingMerges
    BY <1>5, Zenon DEF Acting
  <2>2. PICK entry : trace' = Append(trace, entry) /\ entry.held = held
    <3> DEFINE some == [before |-> Len(MergeDue.queue), after |-> Len(queue'), held |-> held,
                        action |-> last']
    <3>1. trace' = Append(trace, some)
      BY <1>5, Zenon DEF Acting
    <3>2. some.held = held
      BY Zenon
    <3> QED
      BY <3>1, <3>2, Zenon
  <2>3. m \in Nat /\ Len(trace') = m + 1 /\ trace'[m + 1] = entry
          /\ \A i \in 1..m : trace'[i] = trace[i]
    BY <2>2 DEF WrittenType
  <2>4. m + 1 \in HeldIn(trace') <=> held
    <3>1. entry \in Entries
      BY <2>3 DEF WrittenType
    <3> HIDE DEF held
    <3> QED
      BY <2>2, <2>3, <3>1 DEF HeldEntries
  <2>5. /\ HeldIn(trace) \in SUBSET (1..m) /\ HeldIn(trace') \in SUBSET (1..(m + 1))
        /\ \A i \in 1..m : i \in HeldIn(trace') <=> i \in HeldIn(trace)
    BY <2>3
  <2>6. counted'.holds = counted.holds + (IF held THEN 1 ELSE 0)
    <3>1. counted' = [holds |-> counted.holds + (IF held THEN 1 ELSE 0),
                      stale |-> counted.stale + StaleNow]
      BY <1>5, Zenon DEF Acting
    <3> HIDE DEF held
    <3> QED
      BY <3>1
  <2> HIDE DEF held, HeldIn, m
  <2>7. Cardinality(HeldIn(trace'))
          = Cardinality(HeldIn(trace)) + (IF m + 1 \in HeldIn(trace') THEN 1 ELSE 0)
    BY <2>3, <2>5, PlaceAdded, Zenon
  <2>8. Cardinality(HeldIn(trace')) = counted'.holds
    BY <1>1, <2>4, <2>6, <2>7, Zenon
  <2> QED
    BY <2>1, <2>8, StaleCounted, Zenon
<1>6. CASE Clearing
  <2> DEFINE m == Len(events)
             n == Len(results)
  <2>1. /\ events' \in Seq(Listed) /\ Len(events') = m + n
        /\ \A i \in 1..m : events'[i] = events[i]
        /\ \A i \in 1..n : events'[m + i].verdict = "episode_ended"
    BY <1>6, EventsEnded DEF Clearing
  <2>2. m \in Nat /\ n \in Nat
    BY DEF WorkerType, CallerType
  <2>3. Stale(events') = Stale(events)
    <3>1. \A i \in 1..n : events'[m + i] \notin StaleEvents
      BY <2>1 DEF StaleEvents
    <3>2. \A i \in 1..(m + n) : i \in 1..m \/ (i - m \in 1..n /\ m + (i - m) = i)
      BY <2>2
    <3>3. ASSUME NEW i \in 1..(m + n) PROVE i \in Stale(events') <=> i \in Stale(events)
      <4>1. CASE i \in 1..m
        BY <2>1, <2>2, <4>1
      <4>2. CASE i - m \in 1..n /\ m + (i - m) = i
        <5>1. events'[i] \notin StaleEvents
          BY <3>1, <4>2, Zenon
        <5>2. i \notin 1..m
          BY <2>2, <4>2
        <5> QED
          BY <5>1, <5>2, Zenon
      <4> QED
        BY <3>2, <4>1, <4>2, Zenon
    <3>4. \A i : i \in Stale(events') => i \in 1..(m + n)
      BY <2>1, Zenon
    <3>5. \A i : i \in Stale(events) => i \in 1..(m + n)
      BY <2>2
    <3> QED
      BY <3>3, <3>4, <3>5, Zenon
  <2>4. UNCHANGED <<trace, counted>>
    BY <1>6, Zenon DEF Clearing
  <2> QED
    BY <1>1, <2>3, <2>4, Zenon
<1>7. CASE Watching
  <2>1. UNCHANGED <<trace, events, counted>>
    BY <1>7, Zenon DEF Watching, written, Leaving, GoingOn, Finishing, Inferring, caller
  <2> QED
    BY <1>1, <2>1, Zenon
<1> QED
  BY <1>2, <1>3, <1>4, <1>5, <1>6, <1>7 DEF RecordMoves

LEMMA NoneDiscardedKeeps ==
    ASSUME WorkerType, NothingOutlives, NoneDiscarded, WorkerMoves
    PROVE  NoneDiscarded'
<1> USE DEF NoneDiscarded
<1>0. count \in Counts
  BY DEF WorkerType
<1>1. CASE ResetEpisode
  BY <1>1 DEF ResetEpisode, NoCounts
<1>2. ASSUME NEW obs \in 0..EpisodeLength, Submit(obs) PROVE NoneDiscarded'
  BY <1>0, <1>2 DEF Submit, Counts
<1>3. CASE CancelPending
  BY <1>0, <1>3 DEF CancelPending, Counts
<1>4. CASE Take
  BY <1>0, <1>4 DEF Take, Counts
<1>5. CASE Finish
  <2>1. ~Abandons => active.gen = generation
    BY <1>5 DEF Finish, NothingOutlives, Running
  <2> QED
    BY <1>0, <1>5, <2>1 DEF Finish, Counts
<1>6. CASE DrainDue \/ DrainAll \/ CloseWorker \/ Fail \/ End \/ BecomeDue \/ SyncStart
             \/ UNCHANGED worker
  BY <1>6, Zenon DEF DrainDue, DrainAll, CloseWorker, Fail, End, BecomeDue, SyncStart, worker
<1> QED
  BY <1>1, <1>2, <1>3, <1>4, <1>5, <1>6, Zenon DEF WorkerMoves

(* What was asked for, by what the worker does.                              *)
RequestsAsked ==
    /\ \A i \in DOMAIN results : results[i].obs \in DOMAIN asked
    /\ Running => active.obs \in DOMAIN asked
    /\ Waiting => pending.obs \in DOMAIN asked

LEMMA WorkerAsked ==
    ASSUME Assumed, WorkerType, RequestsAsked, UNCHANGED asked,
           DrainDue \/ DrainAll \/ CancelPending \/ CloseWorker \/ Take \/ Finish \/ Fail \/ End
             \/ BecomeDue \/ UNCHANGED worker
    PROVE  RequestsAsked'
<1> USE DEF RequestsAsked, Running, Waiting
<1>1. CASE DrainDue
  <2>1. DueCount \in 0..Len(results) /\ results \in Seq(Results)
    BY DueIsPrefix DEF WorkerType
  <2>2. /\ UNCHANGED <<active, pending, generation>>
        /\ results' = SubSeq(results, DueCount + 1, Len(results))
    BY <1>1 DEF DrainDue
  <2>3. \A i \in DOMAIN results' : results'[i].obs \in DOMAIN asked
    BY <2>1, <2>2, Rest
  <2> QED
    BY <2>2, <2>3, Zenon
<1>2. CASE DrainAll \/ CancelPending \/ CloseWorker \/ Fail \/ End \/ UNCHANGED worker
  BY <1>2 DEF DrainAll, CancelPending, CloseWorker, Fail, End, worker
<1>3. CASE Take
  BY <1>3, Zenon DEF Take
<1>4. CASE Finish
  <2>1. CASE UNCHANGED results
    BY <1>4, <2>1, Zenon DEF Finish
  <2>2. ASSUME active.gen = generation, NEW n \in ChunkLengths, results' = Append(results,
                 [gen |-> active.gen, obs |-> active.obs, len |-> n, due |-> FALSE])
        PROVE  RequestsAsked'
    <3>1. /\ UNCHANGED <<pending, generation, asked>> /\ active' = NoRequest
          /\ active # NoRequest
      BY <1>4, Zenon DEF Finish
    <3>2. \A i \in DOMAIN results' : results'[i].obs \in DOMAIN asked
      BY <2>2, <3>1 DEF WorkerType
    <3> QED
      BY <3>1, <3>2, Zenon
  <2> QED
    BY <1>4, <2>1, <2>2, Zenon DEF Finish
<1>5. CASE BecomeDue
  <2>1. PICK k \in DOMAIN results : results' = [results EXCEPT ![k].due = TRUE]
    BY <1>5 DEF BecomeDue
  <2>2. \A i \in DOMAIN results : results'[i].obs = results[i].obs
    BY <2>1 DEF WorkerType, Results
  <2>3. DOMAIN results' = DOMAIN results /\ UNCHANGED <<active, pending, generation>>
    BY <1>5, <2>1 DEF BecomeDue
  <2> QED
    BY <2>2, <2>3, Zenon
<1> QED
  BY <1>1, <1>2, <1>3, <1>4, <1>5, Zenon

LEMMA AskedForKeeps ==
    ASSUME Assumed, WorkerType, CallerType, AskedFor, Phased', RecordMoves
    PROVE  AskedFor'
<1>0. RequestsAsked /\ \A i \in DOMAIN events : events[i].obs \in DOMAIN asked
  BY Zenon DEF AskedFor, RequestsAsked
<1> SUFFICES RequestsAsked' /\ \A i \in DOMAIN events' : events'[i].obs \in DOMAIN asked'
  BY Zenon DEF AskedFor, RequestsAsked
<1>1. CASE Opening
  <2>1. control' = "first" /\ events' = <<>>
    BY <1>1, Zenon DEF Opening, StartEpisode
  <2>2. ~Running' /\ ~Waiting' /\ results' = <<>>
    BY <2>1 DEF Phased
  <2> QED
    BY <2>1, <2>2 DEF RequestsAsked
<1>2. CASE Posting
  <2>1. UNCHANGED <<events, active, results, generation>> /\ pending'.obs = step'
    BY <1>2 DEF Posting, Submit
  <2>2. DOMAIN asked \subseteq DOMAIN asked' /\ step' \in DOMAIN asked'
    BY <1>2 DEF Posting
  <2>3. Running' => active'.obs \in DOMAIN asked'
    BY <1>0, <2>1, <2>2, Zenon DEF Running, RequestsAsked
  <2>4. \A i \in DOMAIN results' : results'[i].obs \in DOMAIN asked'
    BY <1>0, <2>1, <2>2, Zenon DEF RequestsAsked
  <2>5. \A i \in DOMAIN events' : events'[i].obs \in DOMAIN asked'
    BY <1>0, <2>1, <2>2, Zenon
  <2> QED
    BY <2>1, <2>2, <2>3, <2>4, <2>5, Zenon DEF RequestsAsked
<1>3. CASE FirstMerging \/ Acting
  <2>1. Merging /\ DrainDue /\ UNCHANGED asked
    BY <1>3, Zenon DEF FirstMerging, Acting, AddingMerges, Merging
  <2>2. RequestsAsked'
    BY <1>0, <2>1, WorkerAsked, Zenon
  <2>3. DueCount \in 0..Len(results) /\ results \in Seq(Results) /\ events \in Seq(Listed)
    BY DueIsPrefix DEF WorkerType, CallerType
  <2>4. \A i \in 1..DueCount : i \in DOMAIN results
    BY <2>3
  <2>5. ASSUME NEW i \in DOMAIN events' PROVE events'[i].obs \in DOMAIN asked
    <3>1. /\ events' \in Seq(Listed) /\ Len(events') = Len(events) + DueCount
          /\ \A k \in 1..Len(events) : events'[k] = events[k]
          /\ \A k \in 1..DueCount : events'[Len(events) + k].obs = results[k].obs
      BY <2>1, EventsMerged DEF Merging
    <3>2. CASE i \in 1..Len(events)
      BY <1>0, <2>3, <3>1, <3>2
    <3>3. CASE i \notin 1..Len(events)
      <4>1. i - Len(events) \in 1..DueCount /\ Len(events) + (i - Len(events)) = i
        BY <2>3, <3>1, <3>3
      <4>2. events'[i].obs = results[i - Len(events)].obs
        BY <3>1, <4>1, Zenon
      <4> QED
        BY <1>0, <2>4, <4>1, <4>2, Zenon DEF RequestsAsked
    <3> QED
      BY <3>2, <3>3
  <2> QED
    BY <2>1, <2>2, <2>5, Zenon
<1>4. CASE Clearing
  <2>1. DrainFinal /\ DrainAll /\ UNCHANGED asked
    BY <1>4, Zenon DEF Clearing, DrainFinal
  <2>2. RequestsAsked'
    BY <1>0, <2>1, WorkerAsked, Zenon
  <2>3. results \in Seq(Results) /\ events \in Seq(Listed)
    BY DEF WorkerType, CallerType
  <2>4. ASSUME NEW i \in DOMAIN events' PROVE events'[i].obs \in DOMAIN asked
    <3>1. /\ events' \in Seq(Listed) /\ Len(events') = Len(events) + Len(results)
          /\ \A k \in 1..Len(events) : events'[k] = events[k]
          /\ \A k \in 1..Len(results) : events'[Len(events) + k].obs = results[k].obs
      BY <2>1, EventsEnded
    <3>2. CASE i \in 1..Len(events)
      BY <1>0, <2>3, <3>1, <3>2
    <3>3. CASE i \notin 1..Len(events)
      <4>1. i - Len(events) \in DOMAIN results /\ Len(events) + (i - Len(events)) = i
        BY <2>3, <3>1, <3>3
      <4>2. events'[i].obs = results[i - Len(events)].obs
        BY <2>3, <3>1, <4>1
      <4> QED
        BY <1>0, <4>1, <4>2, Zenon DEF RequestsAsked
    <3> QED
      BY <3>2, <3>3
  <2> QED
    BY <2>1, <2>2, <2>4, Zenon
<1>5. CASE Watching
  <2>1. UNCHANGED <<asked, events>>
    BY <1>5, Zenon DEF Watching, written, Leaving, GoingOn, Finishing, Inferring, caller
  <2>2. CloseWorker \/ CancelPending \/ Take \/ Finish \/ Fail \/ End \/ BecomeDue
          \/ UNCHANGED worker
    BY <1>5, Zenon DEF Watching, Leaving, GoingOn, Finishing, Inferring
  <2>3. RequestsAsked'
    BY <1>0, <2>1, <2>2, WorkerAsked, Zenon
  <2> QED
    BY <1>0, <2>1, <2>3, Zenon
<1> QED
  BY <1>1, <1>2, <1>3, <1>4, <1>5 DEF RecordMoves

LEMMA FoundSteps == ASSUME NEW e \in Found PROVE e.step \in Int /\ e.before \in Int
BY DEF Found, NotMerged

LEMMA ResultsAreOwn ==
    ASSUME Assumed, WorkerType, Own, NEW i \in DOMAIN results
    PROVE  /\ Verdict(results[i]) \in {"fully_stale", "replaced"}
           /\ mode = "sync_hold" => Verdict(results[i]) = "replaced"
<1>1. results[i].gen = generation /\ results[i] \in Results
  BY DEF Own, WorkerType
<1>2. results[i].len \in Nat /\ results[i].len > 0
  BY <1>1, ResultShape, Zenon
<1> QED
  BY <1>1, <1>2 DEF Verdict, Drop

LEMMA MatchedKeeps ==
    ASSUME Assumed, EpisodeLength > 0, WorkerType, CallerType, Phased, Own, NotAhead,
           WrittenType, Matched, RecordMoves
    PROVE  Matched'
<1>0. /\ Len(merges) = Len(events) /\ Len(events) \in Nat /\ step \in Nat
      /\ merges \in Seq(Found) /\ events \in Seq(Listed) /\ results \in Seq(Results)
  BY DEF CallerType, WorkerType, WrittenType, Matched, Assumed, BenchmarkAssumption
<1>a. \A i \in 1..Len(events) : MatchedAt(i) /\ merges[i].step \in Int
  BY <1>0, FoundSteps DEF Matched
<1> SUFFICES Len(merges') = Len(events') /\ \A i \in 1..Len(events') : MatchedAt(i)'
  BY Zenon DEF Matched
<1>1. CASE Opening
  BY <1>1 DEF Opening, StartEpisode
<1>2. CASE Posting
  <2>1. UNCHANGED <<events, merges>>
    BY <1>2, Zenon DEF Posting
  <2>2. step <= step' /\ (Over' => step < step')
    BY <1>0, <1>2 DEF Posting, Over
  <2>3. ASSUME NEW i \in 1..Len(events') PROVE MatchedAt(i)'
    <3>1. MatchedAt(i) /\ merges[i].step \in Int /\ step' \in Nat
      BY <1>a, <1>0, <1>2, <2>1, Zenon DEF Posting
    <3> QED
      BY <1>0, <2>1, <2>2, <3>1 DEF MatchedAt
  <2> QED
    BY <1>0, <2>1, <2>3, Zenon
<1>3. CASE FirstMerging \/ Acting
  <2>0. DueCount \in Nat /\ \A k \in 1..DueCount : k \in DOMAIN results
    BY <1>0, DueIsPrefix
  <2>1. Merging /\ AddingMerges /\ UNCHANGED step
    BY <1>3, Zenon DEF FirstMerging, Acting, AddingMerges, Merging
  <2>2. ~Over'
    <3>1. control = "awaiting" => step = 0
      BY DEF Phased
    <3> QED
      BY <1>3, <3>1 DEF FirstMerging, Acting, Over
  <2>3. /\ Len(events') = Len(events) + DueCount
        /\ \A k \in 1..Len(events) : events'[k] = events[k]
        /\ \A k \in 1..DueCount : events'[Len(events) + k].verdict = Verdict(results[k])
    BY <2>1, EventsMerged DEF Merging
  <2>4. /\ Len(merges') = Len(events) + DueCount
        /\ \A k \in 1..Len(events) : merges'[k] = merges[k]
        /\ \A k \in 1..DueCount :
             /\ merges'[Len(events) + k] # NotMerged
             /\ merges'[Len(events) + k].step = step
    BY <1>0, <2>1, MergesGrow
  <2>5. ASSUME NEW i \in 1..Len(events) PROVE MatchedAt(i)'
    <3>1. MatchedAt(i)
      BY <1>a
    <3> QED
      BY <2>1, <2>2, <2>3, <2>4, <3>1, Zenon DEF MatchedAt
  <2>6. ASSUME NEW k \in 1..DueCount, NEW i, i = Len(events) + k PROVE MatchedAt(i)'
    <3>1. Verdict(results[k]) # "old_episode"
      BY <2>0, ResultsAreOwn
    <3>2. step <= step
      BY <1>0
    <3> QED
      BY <2>1, <2>2, <2>3, <2>4, <2>6, <3>1, <3>2, Zenon DEF MatchedAt
  <2>7. \A i \in 1..Len(events') :
         i \in 1..Len(events) \/ \E k \in 1..DueCount : i = Len(events) + k
    <3>1. Len(events') = Len(events) + DueCount
      BY <2>3, Zenon
    <3>2. ASSUME NEW i \in 1..Len(events'), i \notin 1..Len(events)
          PROVE  i - Len(events) \in 1..DueCount /\ i = Len(events) + (i - Len(events))
      BY <1>0, <2>0, <3>1, <3>2
    <3> QED
      BY <3>2, Zenon
  <2> QED
    BY <2>3, <2>4, <2>5, <2>6, <2>7, Zenon
<1>4. CASE Clearing
  <2>0. Len(results) \in Nat
    BY <1>0
  <2>1. DrainFinal /\ Over /\ Over' /\ UNCHANGED step
    BY <1>4 DEF Clearing, DrainFinal, Over
  <2>2. /\ Len(events') = Len(events) + Len(results)
        /\ \A k \in 1..Len(events) : events'[k] = events[k]
        /\ \A k \in 1..Len(results) : events'[Len(events) + k].verdict = "episode_ended"
    BY <2>1, EventsEnded
  <2>3. /\ Len(merges') = Len(events) + Len(results)
        /\ \A k \in 1..Len(events) : merges'[k] = merges[k]
        /\ \A k \in 1..Len(results) : merges'[Len(events) + k] = NotMerged
    BY <1>0, <1>4, MergesEnd
  <2>4. ASSUME NEW i \in 1..Len(events) PROVE MatchedAt(i)'
    <3>1. MatchedAt(i)
      BY <1>a
    <3> QED
      BY <2>1, <2>2, <2>3, <3>1, Zenon DEF MatchedAt
  <2>5. ASSUME NEW k \in 1..Len(results), NEW i, i = Len(events) + k PROVE MatchedAt(i)'
    <3>1. NotMerged.step <= step /\ NotMerged.step < step
      BY <1>0 DEF NotMerged
    <3> QED
      BY <2>1, <2>2, <2>3, <2>5, <3>1, Zenon DEF MatchedAt
  <2>6. \A i \in 1..Len(events') :
         i \in 1..Len(events) \/ \E k \in 1..Len(results) : i = Len(events) + k
    <3>1. Len(events') = Len(events) + Len(results)
      BY <2>2, Zenon
    <3>2. ASSUME NEW i \in 1..Len(events'), i \notin 1..Len(events)
          PROVE  i - Len(events) \in 1..Len(results) /\ i = Len(events) + (i - Len(events))
      BY <1>0, <2>0, <3>1, <3>2
    <3> QED
      BY <3>2, Zenon
  <2> QED
    BY <2>2, <2>3, <2>4, <2>5, <2>6, Zenon
<1>5. CASE Watching
  <2>1. UNCHANGED <<events, merges>>
    BY <1>5, Zenon DEF Watching, written, Leaving, GoingOn, Finishing, Inferring, caller
  <2>2. step <= step' /\ (Over' => (Over /\ step' = step) \/ step < step') /\ step' \in Nat
    BY <1>0, <1>5 DEF Watching, Leaving, GoingOn, Finishing, Inferring, caller, Over
  <2>3. ASSUME NEW i \in 1..Len(events') PROVE MatchedAt(i)'
    <3>1. MatchedAt(i) /\ merges[i].step \in Int
      BY <1>a, <2>1, Zenon
    <3> QED
      BY <1>0, <2>1, <2>2, <3>1 DEF MatchedAt
  <2> QED
    BY <1>0, <2>1, <2>3, Zenon
<1> QED
  BY <1>1, <1>2, <1>3, <1>4, <1>5 DEF RecordMoves

(* A drain lists, and the first one leaves something on the list.            *)
LEMMA ListGrows ==
    ASSUME Assumed, WorkerType, CallerType, Phased, NotAhead, RecordMoves
    PROVE  /\ (FirstMerging \/ Acting \/ Clearing) /\ events # <<>> => events' # <<>>
           /\ FirstMerging => events' # <<>> /\ DueCount # 0
<1>0. Len(events) \in Nat /\ Len(results) \in Nat /\ DueCount \in Nat /\ events \in Seq(Listed)
  BY DueIsPrefix DEF CallerType, WorkerType
<1>1. Merging => Len(events') = Len(events) + DueCount /\ events' \in Seq(Listed)
  BY EventsMerged DEF Merging
<1>2. Clearing => Len(events') = Len(events) + Len(results) /\ events' \in Seq(Listed)
  BY EventsEnded DEF Clearing
<1>3. FirstMerging => DueCount # 0
  <2> SUFFICES ASSUME FirstMerging PROVE \E i \in 1..DueCount : TRUE
    BY <1>0
  <2>1. queue = <<>> /\ MergeDue.queue # <<>>
    BY DEF FirstMerging, Phased
  <2> QED
    BY <2>1, QueueMerged, Zenon
<1>4. FirstMerging \/ Acting => Merging
  BY Zenon DEF FirstMerging, Acting, AddingMerges
<1>5. Len(events') > 0 => events' # <<>>
  BY EmptyHasNone
<1>6. events # <<>> => Len(events) > 0
  BY <1>0
<1> QED
  BY <1>0, <1>1, <1>2, <1>3, <1>4, <1>5, <1>6

LEMMA ReachedKeeps ==
    ASSUME Assumed, EpisodeLength > 0, WorkerType, CallerType, Phased, NotAhead,
           WrittenType, Reached, RecordMoves
    PROVE  Reached'
<1> USE DEF Reached, Moving, Over
<1>0. step \in Nat /\ Len(trace) \in Nat /\ trace \in Seq(Entries) /\ Len(<<>>) = 0
  BY EmptyHasNone DEF CallerType, WrittenType, Assumed, BenchmarkAssumption
<1>1. CASE Opening
  BY <1>1 DEF Opening, StartEpisode
<1>2. CASE Posting
  <2>1. UNCHANGED <<events, trace, mode>>
    BY <1>2, Zenon DEF Posting
  <2>2. CASE control = "first" /\ control' = "awaiting"
    BY <2>1, <2>2
  <2>3. CASE control = "stepping" /\ step' = step + 1 /\ control' \in {"tick", "over"}
    BY <1>0, <2>1, <2>3
  <2> QED
    BY <1>2, <2>2, <2>3 DEF Posting
<1>3. CASE FirstMerging
  <2>1. control = "awaiting" /\ step = 0 /\ step' = step /\ trace' = trace /\ trace = <<>>
    BY <1>3 DEF FirstMerging, AddingMerges, Merging, Phased
  <2>2. control' = "tick"
    BY <1>3, <2>1 DEF FirstMerging
  <2> QED
    BY <1>0, <1>3, <2>1, <2>2, ListGrows
<1>4. CASE Acting
  <2>1. control = "tick" /\ control' = "stepping" /\ step' = step
    BY <1>4, Zenon DEF Acting, AddingMerges, Merging
  <2>2. Len(trace') = Len(trace) + 1
    <3>1. \E entry : trace' = Append(trace, entry)
      BY <1>4, Zenon DEF Acting
    <3> QED
      BY <1>0, <3>1
  <2> QED
    BY <1>0, <1>4, <2>1, <2>2, ListGrows
<1>5. CASE Clearing
  <2>1. control = "draining" /\ control' = "recorded" /\ mode # "sync"
          /\ UNCHANGED <<trace, step, mode>>
    BY <1>5 DEF Clearing, DrainFinal, Phased
  <2> QED
    BY <1>0, <1>5, <2>1, ListGrows
<1>6. CASE Watching
  <2>1. UNCHANGED <<events, trace, mode>>
    BY <1>6, Zenon DEF Watching, written, Leaving, GoingOn, Finishing, Inferring, caller
  <2>2. CASE Leaving
    BY <2>1, <2>2 DEF Leaving
  <2>3. CASE GoingOn
    BY <1>0, <2>1, <2>3 DEF GoingOn
  <2>4. CASE Finishing
    BY <1>0, <2>1, <2>4 DEF Finishing
  <2>5. CASE Inferring
    BY <2>1, <2>5, Zenon DEF Inferring, caller
  <2> QED
    BY <1>6, <2>2, <2>3, <2>4, <2>5, Zenon DEF Watching
<1> QED
  BY <1>1, <1>2, <1>3, <1>4, <1>5, <1>6 DEF RecordMoves

LEMMA TracedKeeps ==
    ASSUME Assumed, WorkerType, CallerType, Phased, Own, NotAhead, WrittenType, Reached, Traced,
           CallerType', RecordMoves
    PROVE  Traced'
<1>0. Len(trace) \in Nat /\ trace \in Seq(Entries) /\ \A i \in 1..Len(trace) : EntryHolds(i)
  BY DEF WrittenType, Traced
<1>1. CASE Opening
  BY <1>1 DEF Opening, StartEpisode, Traced
<1>2. CASE FirstMerging
  <2>1. trace' = <<>> /\ queue' # <<>>
    BY <1>2 DEF FirstMerging, Reached
  <2> QED
    BY <2>1 DEF Traced
<1>3. CASE Acting
  <2> DEFINE q == MergeDue.queue
             held == q = <<>>
             entry == [before |-> Len(q), after |-> Len(queue'), held |-> held, action |-> last']
             n == Len(trace)
  <2>1. control = "tick" /\ control' = "stepping"
    BY <1>3, Zenon DEF Acting
  <2>2. q \in Seq(Planned) /\ (q = queue \/ q # <<>>)
    BY QueueIsPlanned, Zenon
  <2>3. trace' = Append(trace, entry)
    BY <1>3, Zenon DEF Acting
  <2>4. /\ trace' \in Seq(Entries) \/ TRUE
        /\ Len(trace') = n + 1 /\ trace'[n + 1] = entry /\ trace' # <<>>
        /\ \A i \in 1..n : trace'[i] = trace[i]
    <3> HIDE DEF entry
    <3> QED
      BY <1>0, <2>3
  <2>5. ASSUME NEW i \in 1..n PROVE EntryHolds(i)'
    <3>1. EntryHolds(i) /\ trace'[i] = trace[i]
      BY <1>0, <2>4
    <3>2. i > 1 => trace'[i - 1] = trace[i - 1]
      <4>1. i > 1 => i - 1 \in 1..n
        BY <1>0
      <4> QED
        BY <2>4, <4>1, Zenon
    <3> HIDE DEF n, entry
    <3> QED
      BY <3>1, <3>2, Zenon DEF EntryHolds
  <2>6. ASSUME NEW i, i = n + 1 PROVE EntryHolds(i)'
    <3>1. trace'[i] = entry /\ i \in Nat
      BY <1>0, <2>4, <2>6
    <3>2. CASE held
      <4>1. queue' = <<>> /\ last' = last /\ Len(<<>>) = 0
        BY <1>3, <3>2, EmptyHasNone, Zenon DEF Acting
      <4>2. trace # <<>> /\ trace[Len(trace)].action = last
        BY <2>1, <2>2, <3>2 DEF Traced
      <4>3. i > 1 /\ i - 1 \in 1..n /\ i - 1 = Len(trace)
        BY <1>0, <2>6, <4>2
      <4>4. trace'[i - 1].action = last
        BY <2>4, <4>2, <4>3
      <4>5. entry.held /\ entry.before = 0 /\ entry.after = 0 /\ entry.action = last
        BY <3>2, <4>1, Zenon
      <4> HIDE DEF entry, held, q, n
      <4> QED
        BY <3>1, <4>3, <4>4, <4>5, Zenon DEF EntryHolds
    <3>3. CASE ~held
      <4>1. queue' = Tail(q)
        BY <1>3, <3>3, Zenon DEF Acting
      <4>2. Len(q) > 0 /\ Len(queue') = Len(q) - 1
        <5> HIDE DEF q
        <5> QED
          BY <2>2, <3>3, <4>1, Popped
      <4>3. ~entry.held /\ entry.before = Len(q) /\ entry.after = Len(queue')
        BY <3>3, Zenon
      <4> HIDE DEF entry, held, q, n
      <4> QED
        BY <3>1, <4>2, <4>3, Zenon DEF EntryHolds
    <3> QED
      BY <3>2, <3>3
  <2>7. ASSUME NEW i \in 1..Len(trace') PROVE EntryHolds(i)'
    <3>1. i \in 1..n \/ i = n + 1
      <4> HIDE DEF entry
      <4> QED
        BY <1>0, <2>4
    <3> QED
      BY <2>5, <2>6, <3>1, Zenon
  <2>8. trace'[Len(trace')].action = last'
    <3>1. trace'[Len(trace')] = entry
      BY <2>4, Zenon
    <3>2. entry.action = last'
      BY Zenon
    <3> HIDE DEF entry
    <3> QED
      BY <3>1, <3>2, Zenon
  <2> HIDE DEF entry, held, q, n
  <2> QED
    BY <2>4, <2>7, <2>8, Zenon DEF Traced
<1>4. CASE Clearing \/ Posting \/ Watching
  <2>1. UNCHANGED trace
    BY <1>4, Zenon DEF Clearing, Posting, Watching, written
  <2>2. control' \in {"tick", "stepping"}
          => control \in {"tick", "stepping"} /\ UNCHANGED <<queue, last>>
    BY <1>4 DEF Clearing, DrainFinal, Posting, Watching, Leaving, GoingOn, Finishing, Inferring,
       caller
  <2>3. \A i \in 1..Len(trace') : EntryHolds(i)'
    BY <1>0, <2>1, Zenon DEF EntryHolds
  <2> QED
    BY <2>1, <2>2, <2>3, Zenon DEF Traced
<1> QED
  BY <1>1, <1>2, <1>3, <1>4 DEF RecordMoves

-----------------------------------------------------------------------------
(* Stop and wait *)

LEMMA AtMostOne ==
    ASSUME Assumed, WorkerType, Held, mode = "sync_hold", ~error,
           control \in {"tick", "stepping", "awaiting"}
    PROVE  DueCount \in {0, 1} /\ (DueCount = 1 => requested)
<1>1. DueCount \in 0..Len(results) /\ Len(results) \in Nat
  BY DueIsPrefix DEF WorkerType
<1>2. Len(results) <= IF requested THEN 1 ELSE 0
  BY <1>1 DEF Held
<1> QED
  BY <1>1, <1>2

LEMMA NothingMerged ==
    ASSUME Assumed, WorkerType, DueCount = 0
    PROVE  MergeDue.queue = queue /\ Due = <<>>
<1>1. Accepting(DueCount) = {} /\ Due = <<>>
  BY DueIsPrefix DEF Accepting, Due, WorkerType
<1> QED
  BY <1>1, Zenon DEF MergeDue, QueueAfter

StoppedAt(i) ==
    /\ merges[i] # NotMerged => Accepted(i) /\ merges[i].before = 0
    /\ i > 1 => merges[i].step # 0

(* What one answer adds: it finds nothing left, and is accepted.             *)
LEMMA OneAnswer ==
    ASSUME Assumed, WorkerType, CallerType, Own, NotAhead, WrittenType, Matched,
           mode = "sync_hold", AddingMerges, DueCount = 1, queue = <<>>,
           NEW i, i = Len(events) + 1
    PROVE  /\ Len(events') = i /\ Accepted(i)' /\ merges'[i].before = 0 /\ merges'[i].step = step
<1>1. Len(merges) = Len(events) /\ Len(events) \in Nat /\ merges \in Seq(Found)
  BY DEF Matched, CallerType, WrittenType
<1>2. 1 \in 1..DueCount /\ 1 \in DOMAIN results /\ 0 \in 0..DueCount
  BY DueIsPrefix DEF WorkerType
<1>3. /\ Len(events') = Len(events) + DueCount
      /\ \A k \in 1..DueCount : events'[Len(events) + k].verdict = Verdict(results[k])
  BY EventsMerged DEF AddingMerges, Merging
<1>4. \A k \in 1..DueCount : /\ merges'[Len(events) + k].step = step
                             /\ merges'[Len(events) + k].before = Len(QueueAfter(k - 1))
  BY <1>1, MergesGrow
<1>5. QueueAfter(0) = <<>> /\ Len(<<>>) = 0
  BY <1>2, QueueBefore, EmptyHasNone, Zenon
<1>6. events'[i].verdict = "replaced"
  BY <1>2, <1>3, ResultsAreOwn
<1>7. merges'[i].step = step /\ merges'[i].before = 0
  BY <1>2, <1>4, <1>5
<1> QED
  BY <1>3, <1>6, <1>7 DEF Accepted

LEMMA StopAndWaitKeeps ==
    ASSUME Assumed, WorkerType, CallerType, Phased, Own, NotAhead, Held, WrittenType, Matched,
           Reached, StopAndWait, RecordMoves, Reached'
    PROVE  StopAndWait'
<1>0. mode' = mode
  BY Zenon DEF RecordMoves, Opening, StartEpisode, Posting, FirstMerging, Acting, AddingMerges,
     Merging, Clearing, DrainFinal, Watching, Leaving, GoingOn, Finishing, Inferring, caller
<1> SUFFICES ASSUME mode = "sync_hold" PROVE StopAndWait'
  BY <1>0, Zenon DEF StopAndWait
<1>1. /\ \A s \in DOMAIN asked : asked[s] = 0
      /\ \A i \in 1..Len(events) : StoppedAt(i)
      /\ control \in {"tick", "stepping"} /\ requested => queue = <<>> /\ step > 0
      /\ Moving => Accepted(1) /\ merges[1].step = 0
  BY Zenon DEF StopAndWait, StoppedAt
<1>2. /\ Len(merges) = Len(events) /\ Len(events) \in Nat /\ step \in Nat
      /\ merges \in Seq(Found) /\ events \in Seq(Listed) /\ Len(results) \in Nat
      /\ events # <<>> => 1 \in 1..Len(events)
  BY DEF CallerType, WorkerType, WrittenType, Matched, Assumed, BenchmarkAssumption
<1> SUFFICES /\ \A s \in DOMAIN asked' : asked'[s] = 0
             /\ \A i \in 1..Len(events') : StoppedAt(i)'
             /\ control' \in {"tick", "stepping"} /\ requested' => queue' = <<>> /\ step' > 0
             /\ Moving' => Accepted(1)' /\ merges'[1].step = 0
  BY Zenon DEF StopAndWait, StoppedAt
<1>3. CASE Opening
  BY <1>3 DEF Opening, StartEpisode, Moving, Over
<1>4. CASE Posting
  <2>1. UNCHANGED <<queue, events, merges>>
    BY <1>4, Zenon DEF Posting
  <2>2. queue = <<>> /\ Len(queue) = 0
    BY <1>4, EmptyHasNone DEF Posting, WantsRequest, Phased
  <2>3. \A s \in DOMAIN asked' : asked'[s] = 0
    BY <1>1, <1>4, <2>2 DEF Posting
  <2>4. Moving' => Moving /\ step' > 0
    BY <1>2, <1>4 DEF Posting, Moving, Over
  <2>5. control' \in {"tick", "stepping"} => Moving'
    BY DEF Moving
  <2>6. \A i \in 1..Len(events') : StoppedAt(i)'
    BY <1>1, <2>1, Zenon DEF StoppedAt, Accepted
  <2>7. Moving' => Accepted(1)' /\ merges'[1].step = 0
    BY <1>1, <2>1, <2>4, Zenon DEF Accepted
  <2> QED
    BY <2>1, <2>2, <2>3, <2>4, <2>5, <2>6, <2>7, Zenon
<1>5. CASE FirstMerging
  <2>1. /\ AddingMerges /\ UNCHANGED asked /\ control = "awaiting" /\ ~error
        /\ requested' = (requested /\ Due = <<>>)
    BY <1>5, Zenon DEF FirstMerging, AddingMerges, StillRequested
  <2>2. queue = <<>> /\ step = 0 /\ events = <<>> /\ Len(events) = 0
    BY <2>1, EmptyHasNone DEF Phased, Reached
  <2>3. DueCount = 1 /\ Due # <<>>
    <3>1. DueCount = 1
      BY <2>1, <1>5, AtMostOne, ListGrows
    <3>2. Len(Due) = DueCount /\ Len(<<>>) = 0
      BY DueIsPrefix, EmptyHasNone, Zenon DEF WorkerType
    <3>3. Len(Due) # Len(<<>>)
      BY <3>1, <3>2
    <3> QED
      BY <3>1, <3>3, Zenon
  <2>4. Len(events') = 1 /\ Accepted(1)' /\ merges'[1].before = 0 /\ merges'[1].step = step
    <3>1. 1 = Len(events) + 1
      BY <2>2
    <3> QED
      BY <2>1, <2>2, <2>3, <3>1, OneAnswer, Zenon
  <2>5. \A i \in 1..Len(events') : i = 1
    BY <2>4
  <2>6. ~(1 > 1)
    OBVIOUS
  <2>7. \A i \in 1..Len(events') : StoppedAt(i)'
    BY <2>4, <2>5, <2>6, Zenon DEF StoppedAt
  <2> QED
    BY <1>1, <2>1, <2>2, <2>3, <2>4, <2>7, Zenon
<1>6. CASE Acting
  <2>1. /\ AddingMerges /\ UNCHANGED <<asked, step>> /\ control = "tick" /\ ~error
        /\ requested' = (requested /\ Due = <<>>)
    BY <1>6, Zenon DEF Acting, AddingMerges, Merging, StillRequested
  <2>2. DueCount \in {0, 1} /\ (DueCount = 1 => requested)
    BY <2>1, AtMostOne
  <2>3. Moving /\ Accepted(1) /\ merges[1].step = 0 /\ 1 \in 1..Len(events)
    BY <1>1, <1>2, <2>1 DEF Moving, Reached
  <2>4. /\ Len(events') = Len(events) + DueCount
        /\ \A i \in 1..Len(events) : events'[i] = events[i] /\ merges'[i] = merges[i]
    BY <1>2, <2>1, EventsMerged, MergesGrow DEF AddingMerges, Merging
  <2>5. Accepted(1)' /\ merges'[1].step = 0
    BY <2>3, <2>4, Zenon DEF Accepted
  <2>6. \A i \in 1..Len(events) : StoppedAt(i)'
    BY <1>1, <2>4, Zenon DEF StoppedAt, Accepted
  <2>7. ASSUME DueCount = 1, NEW i, i = Len(events) + 1 PROVE StoppedAt(i)'
    <3>1. queue = <<>> /\ step > 0
      BY <1>1, <2>1, <2>2, <2>7
    <3>2. Accepted(i)' /\ merges'[i].before = 0 /\ merges'[i].step = step
      BY <2>1, <2>7, <3>1, OneAnswer, Zenon
    <3>3. merges'[i].step # 0
      BY <1>2, <3>1, <3>2
    <3> QED
      BY <3>2, <3>3, Zenon DEF StoppedAt
  <2>8. \A i \in 1..Len(events') :
          i \in 1..Len(events) \/ (DueCount = 1 /\ i = Len(events) + 1)
    BY <1>2, <2>2, <2>4
  <2>9. requested' => queue' = <<>> /\ step' > 0
    <3> SUFFICES ASSUME requested, Due = <<>> PROVE queue' = <<>> /\ step' > 0
      BY <2>1, Zenon
    <3>1. queue = <<>> /\ step > 0
      BY <1>1, <2>1
    <3>2. DueCount = 0
      BY <2>2, DueIsPrefix, EmptyHasNone DEF WorkerType
    <3>3. MergeDue.queue = <<>>
      BY <3>1, <3>2, NothingMerged, Zenon
    <3>4. queue' = <<>>
      BY <1>6, <3>3, Zenon DEF Acting
    <3> QED
      BY <2>1, <3>1, <3>4, Zenon
  <2> QED
    BY <1>1, <2>1, <2>5, <2>6, <2>7, <2>8, <2>9, Zenon
<1>7. CASE Clearing
  <2>1. control' = "recorded" /\ Moving /\ UNCHANGED asked
    BY <1>7 DEF Clearing, DrainFinal, Moving, Over
  <2>2. Accepted(1) /\ merges[1].step = 0 /\ 1 \in 1..Len(events)
    BY <1>1, <1>2, <2>1 DEF Reached
  <2>3. /\ Len(events') = Len(events) + Len(results)
        /\ \A i \in 1..Len(events) : events'[i] = events[i] /\ merges'[i] = merges[i]
        /\ \A k \in 1..Len(results) : merges'[Len(events) + k] = NotMerged
    BY <1>2, <1>7, EventsEnded, MergesEnd DEF Clearing
  <2>4. Accepted(1)' /\ merges'[1].step = 0
    BY <2>2, <2>3, Zenon DEF Accepted
  <2>5. \A i \in 1..Len(events) : StoppedAt(i)'
    BY <1>1, <2>3, Zenon DEF StoppedAt, Accepted
  <2>6. ASSUME NEW i \in 1..Len(events'), i \notin 1..Len(events) PROVE StoppedAt(i)'
    <3>1. i - Len(events) \in 1..Len(results) /\ Len(events) + (i - Len(events)) = i
      BY <1>2, <2>3, <2>6
    <3>2. merges'[i] = NotMerged
      BY <2>3, <3>1, Zenon
    <3>3. NotMerged.step # 0
      BY DEF NotMerged
    <3> QED
      BY <3>2, <3>3, Zenon DEF StoppedAt
  <2>7. control' \notin {"tick", "stepping"}
    BY <2>1
  <2> QED
    BY <1>1, <2>1, <2>4, <2>5, <2>6, <2>7, Zenon
<1>8. CASE Watching
  <2>1. UNCHANGED <<asked, events, merges>>
    BY <1>8, Zenon DEF Watching, written, Leaving, GoingOn, Finishing, Inferring, caller
  <2>2. Moving' => Moving
    BY <1>8 DEF Watching, Leaving, GoingOn, Finishing, Inferring, caller, Moving, Over
  <2>3. control' \in {"tick", "stepping"} => /\ control \in {"tick", "stepping"}
                                             /\ UNCHANGED <<queue, requested>> /\ step' >= step
    BY <1>2, <1>8 DEF Watching, Leaving, GoingOn, Finishing, Inferring, caller
  <2>4. control' \in {"tick", "stepping"} => step' \in Nat
    BY <1>2, <1>8 DEF Watching, Leaving, GoingOn, Finishing, Inferring, caller
  <2>5. control' \in {"tick", "stepping"} /\ requested' => queue' = <<>> /\ step' > 0
    <3> SUFFICES ASSUME control' \in {"tick", "stepping"}, requested'
                 PROVE  queue' = <<>> /\ step' > 0
      BY Zenon
    <3>1. control \in {"tick", "stepping"} /\ queue' = queue /\ requested /\ step' >= step
      BY <2>3, Zenon
    <3>2. queue = <<>> /\ step > 0 /\ step' \in Nat
      BY <1>1, <2>4, <3>1, Zenon
    <3> QED
      BY <1>2, <3>1, <3>2
  <2>6. \A i \in 1..Len(events') : StoppedAt(i)'
    BY <1>1, <2>1, Zenon DEF StoppedAt, Accepted
  <2>7. Moving' => Accepted(1)' /\ merges'[1].step = 0
    BY <1>1, <2>1, <2>2, Zenon DEF Accepted
  <2> QED
    BY <1>1, <2>1, <2>5, <2>6, <2>7, Zenon
<1> QED
  BY <1>3, <1>4, <1>5, <1>6, <1>7, <1>8 DEF RecordMoves

-----------------------------------------------------------------------------
(* No request of sync_hold is lost *)

LEMMA WorkerLoses ==
    ASSUME Assumed, WorkerType, Own, UNCHANGED <<asked, events>>,
           Take \/ Finish \/ Fail \/ End \/ BecomeDue \/ UNCHANGED worker,
           ~error', NEW s, Somewhere(s)
    PROVE  Somewhere(s)'
<1> USE DEF Running, Waiting
<1>0. count \in Counts /\ (count'.cancelled = count.cancelled \/ UNCHANGED count)
  BY DEF WorkerType, Counts, Take, Finish, Fail, End, BecomeDue, worker
<1>1. CASE \E i \in DOMAIN events : events[i].obs = s
  BY <1>1, Zenon DEF Somewhere
<1>2. CASE count.cancelled > 0 /\ \A t \in DOMAIN asked : t <= s
  BY <1>0, <1>2, Zenon DEF Somewhere
<1>3. CASE Take
  <2>1. /\ UNCHANGED <<results, generation>> /\ active' = pending
        /\ active = NoRequest /\ pending # NoRequest /\ pending.gen = generation
    BY <1>3 DEF Take, Own
  <2> QED
    BY <1>1, <1>2, <2>1, Zenon DEF Somewhere
<1>4. CASE Finish
  <2>1. UNCHANGED <<pending, generation>>
    BY <1>4 DEF Finish
  <2>2. CASE active.gen = generation
    <3>1. PICK n \in ChunkLengths : results' = Append(results,
                 [gen |-> active.gen, obs |-> active.obs, len |-> n, due |-> FALSE])
      BY <1>4, <2>2 DEF Finish
    <3>2. /\ DOMAIN results' = DOMAIN results \cup {Len(results) + 1}
          /\ \A i \in DOMAIN results : results'[i] = results[i]
          /\ results'[Len(results) + 1].obs = active.obs
      BY <3>1 DEF WorkerType
    <3>3. \A x : (\E i \in DOMAIN results : results[i].obs = x) \/ active.obs = x
             => \E i \in DOMAIN results' : results'[i].obs = x
      BY <3>2, Zenon
    <3> QED
      BY <1>1, <1>2, <2>1, <3>3, Zenon DEF Somewhere
  <2>3. CASE active.gen # generation
    <3>1. UNCHANGED results
      BY <1>4, <2>3 DEF Finish
    <3> QED
      BY <1>1, <1>2, <2>1, <2>3, <3>1, Zenon DEF Somewhere
  <2> QED
    BY <2>2, <2>3
<1>5. CASE BecomeDue
  <2>1. PICK k \in DOMAIN results : results' = [results EXCEPT ![k].due = TRUE]
    BY <1>5 DEF BecomeDue
  <2>2. DOMAIN results' = DOMAIN results
    BY <2>1
  <2>3. \A i \in DOMAIN results : results'[i].obs = results[i].obs
    BY <2>1 DEF WorkerType, Results
  <2>4. UNCHANGED <<pending, active, generation>>
    BY <1>5 DEF BecomeDue
  <2> QED
    BY <1>1, <1>2, <2>2, <2>3, <2>4, Zenon DEF Somewhere
<1>6. CASE End \/ UNCHANGED worker
  <2>1. UNCHANGED <<pending, active, results, generation>>
    BY <1>6, Zenon DEF End, worker
  <2> QED
    BY <1>1, <1>2, <2>1, Zenon DEF Somewhere
<1>7. CASE Fail
  BY <1>7 DEF Fail
<1> QED
  BY <1>3, <1>4, <1>5, <1>6, <1>7

LEMMA DrainLoses ==
    ASSUME Assumed, WorkerType, CallerType, UNCHANGED asked, NEW s, Somewhere(s),
           (Merging \/ Clearing)
    PROVE  Somewhere(s)'
<1> USE DEF Running, Waiting
<1> DEFINE n == IF Merging THEN DueCount ELSE Len(results)
<1>0. /\ results \in Seq(Results) /\ Len(results) \in Nat /\ n \in 0..Len(results)
      /\ events \in Seq(Listed) /\ Len(events) \in Nat
  BY DueIsPrefix DEF WorkerType, CallerType
<1>1. UNCHANGED <<pending, active, generation, count>>
  BY Zenon DEF Merging, DrainDue, Clearing, DrainFinal, DrainAll
<1>2. /\ events' \in Seq(Listed) /\ Len(events') = Len(events) + n
      /\ \A i \in 1..Len(events) : events'[i] = events[i]
      /\ \A i \in 1..n : events'[Len(events) + i].obs = results[i].obs
  <2>1. CASE Merging
    BY <2>1, EventsMerged DEF Merging
  <2>2. CASE ~Merging
    <3>1. DrainFinal /\ n = Len(results)
      BY <2>2, Zenon DEF Clearing
    <3> HIDE DEF n
    <3> QED
      BY <3>1, EventsEnded
  <2> QED
    BY <2>1, <2>2
<1>3. CASE \E i \in DOMAIN events : events[i].obs = s
  <2> HIDE DEF n
  <2>1. PICK i \in DOMAIN events : events[i].obs = s
    BY <1>3
  <2>2. i \in DOMAIN events' /\ events'[i].obs = s
    BY <1>0, <1>2, <2>1
  <2> QED
    BY <2>2, Zenon DEF Somewhere
<1>4. CASE \E i \in DOMAIN results : results[i].obs = s
  <2>1. PICK i \in DOMAIN results : results[i].obs = s
    BY <1>4
  <2>2. CASE i \in 1..n
    <3> HIDE DEF n
    <3>1. Len(events) + i \in DOMAIN events' /\ events'[Len(events) + i].obs = s
      BY <1>0, <1>2, <2>1, <2>2
    <3> QED
      BY <3>1, Zenon DEF Somewhere
  <2>3. CASE i \notin 1..n
    <3>1. Merging /\ DueCount \in 0..Len(results) /\ i \notin 1..DueCount
      BY <1>0, <2>1, <2>3
    <3>2. results' = SubSeq(results, DueCount + 1, Len(results))
      BY <3>1 DEF Merging, DrainDue
    <3>3. /\ results' \in Seq(Results) /\ Len(results') = Len(results) - DueCount
          /\ \A k \in 1..(Len(results) - DueCount) : results'[k] = results[k + DueCount]
      BY <1>0, <3>1, <3>2, Rest
    <3>4. i - DueCount \in 1..(Len(results) - DueCount) /\ (i - DueCount) + DueCount = i
      BY <1>0, <2>1, <3>1
    <3>5. results'[i - DueCount] = results[i]
      BY <3>3, <3>4, Zenon
    <3>6. i - DueCount \in DOMAIN results'
      BY <3>3, <3>4
    <3> QED
      BY <2>1, <3>5, <3>6, Zenon DEF Somewhere
  <2> QED
    BY <2>2, <2>3
<1> QED
  BY <1>1, <1>3, <1>4, Zenon DEF Somewhere

LEMMA PostingLoses ==
    ASSUME Assumed, WorkerType, CallerType, Phased, Held, NoneLost, mode = "sync_hold",
           Posting, ~error, NEW s \in DOMAIN asked'
    PROVE  Somewhere(s)'
<1> USE DEF Running, Waiting
<1>1. /\ UNCHANGED <<events, active, results, generation>> /\ control \in {"first", "stepping"}
      /\ pending' = [gen |-> generation, obs |-> step'] /\ step' \in Nat
  BY DEF Posting, Submit
<1>2. DOMAIN asked' = DOMAIN asked \cup {step'}
  BY DEF Posting
<1>3. pending = NoRequest
  <2>1. CASE control = "first"
    BY <2>1 DEF Phased
  <2>2. CASE control = "stepping"
    <3>1. ~requested
      BY <2>2 DEF Posting, WantsRequest
    <3> QED
      BY <2>2, <3>1 DEF Held, WorkerType
  <2> QED
    BY <1>1, <2>1, <2>2
<1>4. CASE s = step'
  <2>1. pending' # NoRequest /\ pending'.obs = s
    BY <1>1, <1>4 DEF NoRequest
  <2> QED
    BY <2>1, Zenon DEF Somewhere
<1>5. CASE s \in DOMAIN asked
  <2>1. Somewhere(s) /\ count.cancelled = 0
    BY <1>1, <1>5, Zenon DEF NoneLost
  <2>2. ~(count.cancelled > 0)
    BY <2>1
  <2> QED
    BY <1>1, <1>3, <2>1, <2>2, Zenon DEF Somewhere
<1> QED
  BY <1>2, <1>4, <1>5, Zenon

LEMMA NoneLostKeeps ==
    ASSUME Assumed, WorkerType, CallerType, Phased, Own, Held, WrittenType, NoneLost,
           RecordMoves
    PROVE  NoneLost'
<1>0. mode' = mode
  BY Zenon DEF RecordMoves, Opening, StartEpisode, Posting, FirstMerging, Acting, AddingMerges,
     Merging, Clearing, DrainFinal, Watching, Leaving, GoingOn, Finishing, Inferring, caller
<1> SUFFICES ASSUME mode = "sync_hold" PROVE NoneLost'
  BY <1>0, Zenon DEF NoneLost
<1> DEFINE There == ~error /\ control \notin {"next", "closing", "joining", "exit"}
           Early == control \in {"first", "awaiting", "tick", "stepping"}
<1>1. /\ There => \A s \in DOMAIN asked : Somewhere(s)
      /\ \A s \in DOMAIN asked : s \in Int /\ s <= step
      /\ Waiting => \A s \in DOMAIN asked : s <= pending.obs
      /\ Early => count.cancelled = 0
  BY Zenon DEF NoneLost
<1>2. step \in Nat /\ count \in Counts
  BY DEF CallerType, WorkerType, Assumed, BenchmarkAssumption
<1> SUFFICES /\ There' => \A s \in DOMAIN asked' : Somewhere(s)'
             /\ \A s \in DOMAIN asked' : s \in Int /\ s <= step'
             /\ Waiting' => \A s \in DOMAIN asked' : s <= pending'.obs
             /\ Early' => count'.cancelled = 0
  BY Zenon DEF NoneLost
<1>3. CASE Opening
  <2>1. asked' = <<>> /\ count' = NoCounts
    BY <1>3, Zenon DEF Opening, StartEpisode, ResetEpisode
  <2>2. DOMAIN asked' = {} /\ count'.cancelled = 0
    BY <2>1 DEF NoCounts
  <2> QED
    BY <2>2, Zenon
<1>4. CASE Posting
  <2>1. /\ pending'.obs = step' /\ step' \in Nat /\ step' >= step /\ UNCHANGED error
        /\ Early /\ (count' = count \/ count' = [count EXCEPT !.replaced = @ + 1])
        /\ control \in {"first", "stepping"}
    BY <1>2, <1>4 DEF Posting, Submit
  <2>2. DOMAIN asked' = DOMAIN asked \cup {step'}
    BY <1>4 DEF Posting
  <2>3. \A s \in DOMAIN asked' : s \in Int /\ s <= step'
    BY <1>1, <1>2, <2>1, <2>2
  <2>4. count'.cancelled = count.cancelled
    BY <1>2, <2>1 DEF Counts
  <2>5. There' => \A s \in DOMAIN asked' : Somewhere(s)'
    BY <1>4, <2>1, PostingLoses, Zenon
  <2> QED
    BY <1>1, <2>1, <2>3, <2>4, <2>5, Zenon
<1>5. CASE FirstMerging \/ Acting \/ Clearing
  <2>1. (Merging \/ Clearing) /\ UNCHANGED <<asked, pending, error, count, step>>
    BY <1>5, Zenon DEF FirstMerging, Acting, AddingMerges, Merging, Clearing, DrainFinal,
       DrainDue, DrainAll
  <2>2. control \notin {"next", "closing", "joining", "exit"} /\ (Early' => Early)
    BY <1>5 DEF FirstMerging, Acting, AddingMerges, Merging, Clearing, DrainFinal
  <2>3. There' => \A s \in DOMAIN asked' : Somewhere(s)'
    <3> SUFFICES ASSUME There', NEW s \in DOMAIN asked' PROVE Somewhere(s)'
      BY Zenon
    <3>1. Somewhere(s)
      BY <1>1, <2>1, <2>2, Zenon
    <3> QED
      BY <2>1, <3>1, DrainLoses, Zenon
  <2>4. Waiting' <=> Waiting
    BY <2>1, Zenon DEF Waiting
  <2> QED
    BY <1>1, <2>1, <2>2, <2>3, <2>4, Zenon
<1>6. CASE Watching
  <2>0. UNCHANGED asked
    BY <1>6, Zenon DEF Watching, written
  <2>1. CASE Leaving
    <3>1. /\ control' \in {"next", "closing", "joining", "exit"} /\ UNCHANGED step
          /\ Waiting' => UNCHANGED pending
      BY <2>1 DEF Leaving, worker, CloseWorker, Waiting
    <3>2. ~There' /\ ~Early'
      BY <3>1
    <3> QED
      BY <1>1, <2>0, <3>1, <3>2, Zenon DEF Waiting
  <2>2. CASE Finishing
    <3>1. /\ control = "over" /\ control' = "draining" /\ ~Waiting' /\ UNCHANGED <<step, error>>
          /\ UNCHANGED <<active, results, events, generation>>
          /\ count' = (IF Waiting THEN [count EXCEPT !.cancelled = @ + 1] ELSE count)
      BY <2>2 DEF Finishing, CancelPending, Waiting
    <3>2. There' => There
      BY <3>1
    <3>3. ~Early'
      BY <3>1
    <3>4. count'.cancelled >= count.cancelled /\ (Waiting => count'.cancelled > 0)
      BY <1>2, <3>1 DEF Counts
    <3>5. There' => \A s \in DOMAIN asked' : Somewhere(s)'
      <4> SUFFICES ASSUME There', NEW s \in DOMAIN asked' PROVE Somewhere(s)'
        BY Zenon
      <4>1. Somewhere(s)
        BY <1>1, <2>0, <3>2, Zenon
      <4>2. count.cancelled > 0 => count'.cancelled > 0
        BY <1>2, <3>4, <3>1 DEF Counts
      <4>3. Running' <=> Running
        BY <3>1, Zenon DEF Running
      <4>4. Waiting /\ pending.obs = s => count'.cancelled > 0 /\ \A t \in DOMAIN asked : t <= s
        BY <1>1, <3>4
      <4> QED
        BY <2>0, <3>1, <4>1, <4>2, <4>3, <4>4, Zenon DEF Somewhere
    <3> QED
      BY <1>1, <2>0, <3>1, <3>3, <3>5, Zenon
  <2>3. CASE GoingOn
    <3>1. /\ UNCHANGED <<worker, events>> /\ control = "stepping" /\ control' \in {"tick", "over"}
          /\ step' = step + 1
      BY <2>3, Zenon DEF GoingOn
    <3>2. Early /\ There' => There
      BY <3>1 DEF worker
    <3>3. Early
      BY <3>1
    <3>4. \A s \in DOMAIN asked' : s \in Int /\ s <= step'
      BY <1>1, <1>2, <2>0, <3>1
    <3>5. There' => \A s \in DOMAIN asked' : Somewhere(s)'
      BY <1>1, <2>0, <3>1, <3>2, <3>3, Zenon DEF Somewhere, worker, Running, Waiting
    <3>6. UNCHANGED <<pending, count>> /\ (Waiting' <=> Waiting)
      BY <3>1, Zenon DEF worker, Waiting
    <3> QED
      BY <1>1, <2>0, <3>3, <3>4, <3>5, <3>6, Zenon
  <2>4. CASE Inferring
    <3>1. /\ UNCHANGED <<control, step, events>>
          /\ Take \/ Finish \/ Fail \/ End \/ BecomeDue \/ UNCHANGED worker
      BY <2>4, Zenon DEF Inferring, caller
    <3>2. (error => error') /\ (Waiting' => Waiting /\ UNCHANGED pending)
      BY <3>1 DEF Take, Finish, Fail, End, BecomeDue, worker, Waiting
    <3>3. There' => There
      BY <3>1, <3>2
    <3>4. count'.cancelled = count.cancelled
      BY <1>2, <3>1 DEF Counts, Take, Finish, Fail, End, BecomeDue, worker
    <3>5. There' => \A s \in DOMAIN asked' : Somewhere(s)'
      BY <1>1, <2>0, <3>1, <3>3, WorkerLoses, Zenon
    <3> QED
      BY <1>1, <2>0, <3>1, <3>2, <3>4, <3>5, Zenon
  <2> QED
    BY <1>6, <2>1, <2>2, <2>3, <2>4, Zenon DEF Watching
<1> QED
  BY <1>3, <1>4, <1>5, <1>6, Zenon DEF RecordMoves

(* A hold begins in the step that the request before it was asked for.       *)
LEMMA HoldsBeginKeeps ==
    ASSUME Assumed, WorkerType, CallerType, Phased, Own, NotAhead, WrittenType, Reached, Traced,
           StopAndWait, HoldsBegin, RecordMoves
    PROVE  HoldsBegin'
<1>0. mode' = mode
  BY Zenon DEF RecordMoves, Opening, StartEpisode, Posting, FirstMerging, Acting, AddingMerges,
     Merging, Clearing, DrainFinal, Watching, Leaving, GoingOn, Finishing, Inferring, caller
<1> SUFFICES ASSUME mode = "sync_hold" PROVE HoldsBegin'
  BY <1>0, Zenon DEF HoldsBegin
<1> DEFINE Consumed == trace # <<>> /\ ~trace[Len(trace)].held
<1>1. /\ \A s \in 0..(Len(trace) - 1) : HoldStart(s) => s > 0 /\ s \in DOMAIN asked
      /\ Consumed /\ control = "stepping" => ~requested
      /\ Consumed /\ control = "tick" /\ queue = <<>> => step \in DOMAIN asked
  BY Zenon DEF HoldsBegin
<1>2. trace \in Seq(Entries) /\ Len(trace) \in Nat /\ step \in Nat
  BY DEF WrittenType, CallerType, Assumed, BenchmarkAssumption
<1> SUFFICES /\ \A s \in 0..(Len(trace') - 1) : HoldStart(s)' => s > 0 /\ s \in DOMAIN asked'
             /\ Consumed' /\ control' = "stepping" => ~requested'
             /\ Consumed' /\ control' = "tick" /\ queue' = <<>> => step' \in DOMAIN asked'
  BY Zenon DEF HoldsBegin
<1>3. CASE Opening \/ FirstMerging
  <2>1. trace' = <<>>
    BY <1>3, Zenon DEF Opening, FirstMerging, AddingMerges, Merging, Reached
  <2>2. 0..(Len(trace') - 1) = {}
    BY <2>1
  <2> QED
    BY <2>1, <2>2, Zenon
<1>4. CASE Posting
  <2>1. /\ UNCHANGED trace /\ DOMAIN asked' = DOMAIN asked \cup {step'}
        /\ control' # "stepping"
    BY <1>4 DEF Posting
  <2>2. \A s \in 0..(Len(trace') - 1) : HoldStart(s)' <=> HoldStart(s)
    BY <2>1, Zenon DEF HoldStart
  <2> QED
    BY <1>1, <2>1, <2>2, Zenon
<1>5. CASE Acting
  <2> DEFINE q == MergeDue.queue
             held == q = <<>>
             entry == [before |-> Len(q), after |-> Len(queue'), held |-> held, action |-> last']
             n == Len(trace)
  <2>1. /\ control = "tick" /\ control' = "stepping" /\ UNCHANGED asked
        /\ requested' = (requested /\ Due = <<>>)
    BY <1>5, Zenon DEF Acting, AddingMerges, StillRequested
  <2>2. trace' = Append(trace, entry)
    BY <1>5, Zenon DEF Acting
  <2>3. q = queue \/ q # <<>>
    BY QueueIsPlanned, Zenon
  <2>4. n = step
    BY <2>1 DEF Reached, Moving
  <2>5. entry.held <=> q = <<>>
    BY Zenon
  <2> HIDE DEF q, held, entry
  <2>6. Len(trace') = n + 1 /\ trace'[n + 1] = entry /\ \A i \in 1..n : trace'[i] = trace[i]
    BY <1>2, <2>2
  <2>7. ASSUME NEW s \in 0..(Len(trace') - 1), HoldStart(s)' PROVE s > 0 /\ s \in DOMAIN asked'
    <3>1. CASE s # n
      <4>1. s \in 0..(n - 1) /\ s + 1 \in 1..n /\ (s > 0 => s \in 1..n)
        BY <1>2, <2>6, <2>7, <3>1
      <4>2. HoldStart(s)
        BY <2>6, <2>7, <4>1, Zenon DEF HoldStart
      <4> QED
        BY <1>1, <2>1, <4>1, <4>2, Zenon
    <3>2. CASE s = n
      <4>1. q = <<>> /\ queue = <<>>
        BY <2>3, <2>5, <2>6, <2>7, <3>2, Zenon DEF HoldStart
      <4>2. trace # <<>>
        BY <2>1, <4>1 DEF Traced
      <4>3. s > 0 /\ s \in 1..n
        BY <1>2, <3>2, <4>2
      <4>4. ~trace[n].held
        BY <2>6, <2>7, <3>2, <4>3, Zenon DEF HoldStart
      <4> QED
        BY <1>1, <2>1, <2>4, <3>2, <4>1, <4>2, <4>3, <4>4, Zenon
    <3> QED
      BY <3>1, <3>2
  <2>8. Consumed' => ~requested'
    <3> SUFFICES ASSUME requested' PROVE trace'[Len(trace')].held
      BY Zenon
    <3>1. queue = <<>> /\ Due = <<>>
      BY <2>1, Zenon DEF StopAndWait
    <3>2. DueCount = 0
      BY <3>1, DueIsPrefix, EmptyHasNone DEF WorkerType
    <3>3. q = <<>>
      BY <3>1, <3>2, NothingMerged, Zenon DEF q
    <3> QED
      BY <2>5, <2>6, <3>3, Zenon
  <2>9. control' # "tick"
    BY <2>1
  <2> QED
    BY <2>7, <2>8, <2>9, Zenon
<1>6. CASE Clearing \/ Watching
  <2>1. UNCHANGED <<trace, asked>>
    BY <1>6, Zenon DEF Clearing, Watching, written
  <2>2. \A s \in 0..(Len(trace') - 1) : HoldStart(s)' <=> HoldStart(s)
    BY <2>1, Zenon DEF HoldStart
  <2>3. control' = "stepping" => control = "stepping" /\ UNCHANGED requested
    BY <1>6 DEF Clearing, DrainFinal, Watching, Leaving, GoingOn, Finishing, Inferring, caller
  <2>4. control' = "tick" =>
          /\ UNCHANGED queue
          /\ \/ control = "tick" /\ UNCHANGED step
             \/ control = "stepping" /\ ~(queue = <<>> /\ ~requested)
    BY <1>6 DEF Clearing, DrainFinal, Watching, Leaving, GoingOn, WantsRequest, Finishing,
       Inferring, caller
  <2>5. \A s \in 0..(Len(trace') - 1) : HoldStart(s)' => s > 0 /\ s \in DOMAIN asked'
    BY <1>1, <2>1, <2>2, Zenon
  <2>6. Consumed' <=> Consumed
    BY <2>1, Zenon
  <2> HIDE DEF Consumed
  <2>7. Consumed' /\ control' = "stepping" => ~requested'
    BY <1>1, <2>3, <2>6
  <2>8. Consumed' /\ control' = "tick" /\ queue' = <<>> => step' \in DOMAIN asked'
    BY <1>1, <2>1, <2>4, <2>6
  <2> QED
    BY <2>5, <2>7, <2>8, Zenon
<1> QED
  BY <1>3, <1>4, <1>5, <1>6, Zenon DEF RecordMoves

-----------------------------------------------------------------------------
(* What is written passes the report *)

LEMMA AuditStarts == ASSUME Assumed, AuditInit PROVE AuditInv
<1> USE DEF AuditInit, Init, WorkerInit
<1>1. EpisodeLength \in Nat
  BY DEF Assumed, BenchmarkAssumption
<1>2. WrittenType
  BY DEF WrittenType, NoCounted
<1>3. AskedFor /\ Matched
  BY EmptyHasNone DEF AskedFor, Matched, Running, Waiting
<1>4. Reached
  BY DEF Reached, Moving, Over
<1>5. Counted
  <2>1. {i \in 1..Len(trace) : trace[i] \in HeldEntries} = {}
    BY EmptyHasNone
  <2>2. {i \in 1..Len(events) : events[i] \in StaleEvents} = {}
    BY EmptyHasNone
  <2>3. counted.holds = 0 /\ counted.stale = 0
    BY DEF NoCounted
  <2> QED
    BY <2>1, <2>2, <2>3, FS_EmptySet, Zenon DEF Counted
<1>6. NoneDiscarded
  BY DEF NoneDiscarded, NoCounts
<1>7. Traced
  BY EmptyHasNone DEF Traced
<1>8. StopAndWait
  BY EmptyHasNone DEF StopAndWait, Moving, Over
<1>9. NoneLost /\ HoldsBegin
  BY DEF NoneLost, HoldsBegin, Waiting
<1> QED
  BY <1>2, <1>3, <1>4, <1>5, <1>6, <1>7, <1>8, <1>9, Zenon DEF AuditInv

LEMMA AuditKeeps ==
    ASSUME Assumed, EpisodeLength > 0, LegacyInv, AuditInv, [AuditNext]_auditVars
    PROVE  AuditInv'
<1>1. /\ WorkerType /\ CallerType /\ Phased /\ NothingOutlives /\ Own /\ NotAhead /\ Held
      /\ WrittenType /\ AskedFor /\ Matched /\ Reached /\ Counted /\ NoneDiscarded
      /\ Traced /\ StopAndWait /\ NoneLost /\ HoldsBegin
  BY Zenon DEF LegacyInv, AuditInv
<1>2. [Next]_vars
  BY RecordingWatches
<1>3. CallerType' /\ Phased'
  BY <1>2, LegacyKeeps, Zenon DEF LegacyInv
<1>4. RecordMoves /\ WorkerMoves
  BY <1>1, <1>2, StepsOfRecord, StepsOfWorker, Zenon
<1>5. WrittenType' /\ AskedFor' /\ Matched' /\ Reached'
  BY <1>1, <1>3, <1>4, WrittenTypeKeeps, AskedForKeeps, MatchedKeeps, ReachedKeeps, Zenon
<1>6. Counted' /\ NoneDiscarded' /\ Traced' /\ StopAndWait'
  BY <1>1, <1>3, <1>4, <1>5, CountedKeeps, NoneDiscardedKeeps, TracedKeeps, StopAndWaitKeeps,
     Zenon
<1>7. NoneLost' /\ HoldsBegin'
  BY <1>1, <1>4, NoneLostKeeps, HoldsBeginKeeps, Zenon
<1> QED
  BY <1>5, <1>6, <1>7, Zenon DEF AuditInv

LEMMA RowsAddUp ==
    ASSUME Assumed, ~Abandons, LegacyInv, AuditInv, control = "recorded"
    PROVE  RowPasses /\ StepsPass /\ EventsPass /\ TotalsPass
<1>1. /\ WrittenType /\ AskedFor /\ Matched /\ Reached /\ Counted /\ NoneDiscarded
      /\ CallerType /\ WorkerType
  BY Zenon DEF LegacyInv, AuditInv
<1>2. /\ Over /\ Moving /\ mode # "sync" /\ step > 0 /\ Len(trace) = step /\ events # <<>>
  BY <1>1 DEF Reached, Over, Moving
<1>3. /\ step \in 0..EpisodeLength /\ EpisodeLength \in Nat
      /\ events \in Seq(Listed) /\ Len(events) \in Nat /\ Len(events) > 0
      /\ DOMAIN events = 1..Len(events)
      /\ trace \in Seq(Entries) /\ DOMAIN trace = 1..Len(trace)
      /\ merges \in Seq(Found) /\ Len(merges) = Len(events)
  BY <1>1, <1>2 DEF CallerType, WrittenType, Matched, Assumed, BenchmarkAssumption
<1>4. count.started = Len(events)
  BY <1>2, RecordFollows DEF RequestsAccounted
<1>5. RowPasses
  <2>1. {i \in DOMAIN events : events[i].verdict \in {"old_episode"}} = {}
    BY <1>1, <1>3 DEF Matched, MatchedAt
  <2>2. Events({"old_episode"}) = 0
    BY <2>1, FS_EmptySet, Zenon DEF Events
  <2>3. count.discarded = 0
    BY <1>1 DEF NoneDiscarded
  <2>4. step \in 1..EpisodeLength /\ count.started > 0
    BY <1>2, <1>3, <1>4
  <2> QED
    BY <2>2, <2>3, <2>4, Zenon DEF RowPasses
<1>6. StepsPass
  <2>1. \A i \in 1..Len(trace) : trace[i] \in Entries
    BY <1>3
  <2>2. \A i \in 1..Len(trace) : trace[i].held <=> trace[i] \in HeldEntries
    BY <2>1, Zenon DEF HeldEntries
  <2>3. {i \in DOMAIN trace : trace[i].held}
          = {i \in 1..Len(trace) : trace[i] \in HeldEntries}
    BY <1>3, <2>2, Zenon
  <2>4. \A i \in DOMAIN trace : trace[i].before >= 0 /\ trace[i].after >= 0
    BY <1>3, <2>1 DEF Entries
  <2>5. Cardinality({i \in DOMAIN trace : trace[i].held}) = counted.holds
    BY <1>1, <2>3, Zenon DEF Counted
  <2> QED
    BY <1>2, <2>4, <2>5, Zenon DEF StepsPass
<1>7. EventsPass
  <2> SUFFICES ASSUME NEW i \in DOMAIN events PROVE EventPasses(i)
    BY <1>2, Zenon DEF EventsPass
  <2>1. i \in 1..Len(events) /\ MatchedAt(i) /\ merges[i] \in Found
    BY <1>1, <1>3 DEF Matched
  <2>2. events[i].obs \in DOMAIN asked /\ asked[events[i].obs] >= 0
    <3>1. events[i].obs \in DOMAIN asked
      BY <1>1, Zenon DEF AskedFor
    <3>2. asked[events[i].obs] \in Nat
      BY <1>1, <3>1, Zenon DEF WrittenType
    <3> QED
      BY <3>1, <3>2
  <2>3. CASE merges[i] = NotMerged
    BY <2>1, <2>2, <2>3, Zenon DEF EventPasses, MatchedAt
  <2>4. CASE merges[i] # NotMerged
    <3>1. merges[i].step \in 0..EpisodeLength
      BY <2>1, <2>4 DEF Found
    <3>2. merges[i].step < step
      BY <1>2, <2>1, Zenon DEF MatchedAt
    <3>3. merges[i].step >= 0
      BY <1>3, <3>1
    <3> QED
      BY <2>2, <2>4, <3>2, <3>3, Zenon DEF EventPasses
  <2> QED
    BY <2>3, <2>4
<1>8. TotalsPass
  <2>1. \A i \in 1..Len(events) : events[i] \in Listed
    BY <1>3
  <2>2. \A i \in 1..Len(events) :
          events[i].verdict \in {"fully_stale"} <=> events[i] \in StaleEvents
    BY <2>1 DEF StaleEvents
  <2>3. {i \in DOMAIN events : events[i].verdict \in {"fully_stale"}}
          = {i \in 1..Len(events) : events[i] \in StaleEvents}
    BY <1>3, <2>2, Zenon
  <2>4. Events({"fully_stale"}) = counted.stale
    BY <1>1, <2>3, Zenon DEF Counted, Events
  <2> QED
    BY <1>4, <2>4, Zenon DEF TotalsPass
<1> QED
  BY <1>5, <1>6, <1>7, <1>8

LEMMA StopsAndWaits ==
    ASSUME Assumed, ~Abandons, LegacyInv, AuditInv, control = "recorded", mode = "sync_hold"
    PROVE  StopAndWaitPasses /\ HoldsAskedFor
<1>1. /\ WrittenType /\ AskedFor /\ CallerType /\ Traced /\ Reached
      /\ \A s \in DOMAIN asked : asked[s] = 0
      /\ \A i \in 1..Len(events) : StoppedAt(i)
      /\ Moving => Accepted(1) /\ merges[1].step = 0
  BY Zenon DEF LegacyInv, AuditInv, StopAndWait, StoppedAt
<1>2. /\ Moving /\ events # <<>> /\ events \in Seq(Listed)
      /\ DOMAIN events = 1..Len(events) /\ Len(events) \in Nat /\ 1 \in 1..Len(events)
      /\ DOMAIN trace = 1..Len(trace)
  BY <1>1 DEF Reached, Moving, Over, CallerType, WrittenType
<1>3. Cardinality({i \in DOMAIN events : Accepted(i) /\ merges[i].step = 0}) = 1
  <2>1. ASSUME NEW i \in DOMAIN events, merges[i].step = 0 PROVE i = 1
    <3>1. i \in 1..Len(events) /\ ~(i > 1)
      BY <1>1, <1>2, <2>1, Zenon DEF StoppedAt
    <3> QED
      BY <1>2, <3>1
  <2>2. {i \in DOMAIN events : Accepted(i) /\ merges[i].step = 0} = {1}
    BY <1>1, <1>2, <2>1, Zenon
  <2> QED
    BY <2>2, FS_Singleton, Zenon
<1>4. ASSUME NEW i \in DOMAIN events
      PROVE  /\ asked[events[i].obs] = 0
             /\ merges[i] # NotMerged => Accepted(i) /\ merges[i].before = 0
  BY <1>1, <1>2, <1>4, Zenon DEF AskedFor, StoppedAt
<1>5. ASSUME NEW i \in DOMAIN trace
      PROVE  IF trace[i].held
             THEN /\ i > 1 /\ trace[i].before = 0 /\ trace[i].after = 0
                  /\ trace[i].action = trace[i - 1].action
             ELSE trace[i].before > 0 /\ trace[i].after = trace[i].before - 1
  BY <1>1, <1>2, <1>5, Zenon DEF Traced, EntryHolds
<1>6. HoldsAskedFor
  <2> SUFFICES ASSUME NEW s \in HoldStarts
               PROVE  /\ s > 0 /\ s \in DOMAIN asked
                      /\ \/ s \in RequestSteps
                         \/ count.cancelled > 0 /\ \A t \in DOMAIN asked : t <= s
    BY Zenon DEF HoldsAskedFor
  <2>1. s > 0 /\ s \in DOMAIN asked
    BY Zenon DEF HoldStarts, LegacyInv, AuditInv, HoldsBegin
  <2>2. ~error /\ ~Running /\ ~Waiting /\ results = <<>>
    BY DEF LegacyInv, Phased, Idle, Running, Waiting
  <2>3. Somewhere(s)
    <3>1. control \notin {"next", "closing", "joining", "exit"}
      OBVIOUS
    <3> QED
      BY <2>1, <2>2, <3>1, Zenon DEF AuditInv, NoneLost
  <2>4. ~\E i \in DOMAIN results : results[i].obs = s
    BY <2>2
  <2>5. (\E i \in DOMAIN events : events[i].obs = s) => s \in RequestSteps
    BY <2>1 DEF RequestSteps
  <2> QED
    BY <2>1, <2>2, <2>3, <2>4, <2>5, Zenon DEF Somewhere
<1> QED
  BY <1>3, <1>4, <1>5, <1>6, Zenon DEF StopAndWaitPasses

(* For every mode, chunk and length: what the loop writes of an episode      *)
(* passes every check of the report that reads it but one, and in sync_hold  *)
(* is stop-and-wait.  The check on the requests of the holds is passed too   *)
(* unless the last request was cancelled, and then it fails for that one     *)
(* hold at most.  An episode has a step, and the caller ends with an         *)
(* exception: one that went on could have an answer of the last episode      *)
(* discarded in this one.                                                    *)
THEOREM RecordsAreTrue ==
    ASSUME Assumed, EpisodeLength > 0, ~Abandons
    PROVE  AuditSpec => [](RecordedPasses /\ RecordedStopAndWait)
<1> DEFINE Both == LegacyInv /\ AuditInv
<1>1. AuditInit => Both
  BY LegacyInit, AuditStarts DEF AuditInit
<1>2. Both /\ [AuditNext]_auditVars => Both'
  BY LegacyKeeps, AuditKeeps, RecordingWatches
<1>3. Both => RecordedPasses /\ RecordedStopAndWait
  BY RowsAddUp, StopsAndWaits DEF RecordedPasses, RecordedStopAndWait
<1> HIDE DEF Both
<1> QED
  BY <1>1, <1>2, <1>3, PTL DEF AuditSpec

-----------------------------------------------------------------------------
(* The study of the queue pressure on this loop: two studies, by kind.       *)
CONSTANTS StudySteps, StudyBases, StudyOutcomes, StudyPlans, Headroom
VARIABLES commit, plans, runs, selection, pressure
Study(kind) == INSTANCE M4Evidence WITH
    Steps <- StudySteps[kind], Bases <- StudyBases[kind], Outcomes <- StudyOutcomes[kind],
    MaxPlans <- StudyPlans[kind]

LEMMA LeastDelay ==
    ASSUME NEW S, S \subseteq Nat, S # {}
    PROVE  Min(S) \in S /\ \A c \in S : Min(S) <= c
<1> DEFINE Before == {pair \in Nat \X Nat : pair[1] < pair[2]}
<1>1. PICK first \in S : \A c \in S : <<c, first>> \notin Before
  <2>1. IsWellFoundedOn(Before, Nat)
    BY NatLessThanWellFounded, Zenon DEF OpToRel
  <2> HIDE DEF Before
  <2> QED
    BY <2>1, WFMin
<1>2. \A c \in S : first <= c
  <2> SUFFICES ASSUME NEW c \in S PROVE first <= c
    OBVIOUS
  <2>1. <<c, first>> \in Before <=> c < first
    OBVIOUS
  <2> QED
    BY <1>1, <2>1
<1> QED
  BY <1>2 DEF Min

-----------------------------------------------------------------------------
(* What rounding does. *)

(* A delay is a multiple of 50 ms, never negative, and within 25 ms of what  *)
(* was wanted unless that is negative.                                       *)
LEMMA RoundedSays ==
    ASSUME NEW kind, NEW ms \in Int
    PROVE  /\ Study(kind)!Rounded(ms) \in Nat /\ Study(kind)!Rounded(ms) % 50 = 0
           /\ ms <= 0 => Study(kind)!Rounded(ms) = 0
           /\ ms > 0 => /\ 2 * (Study(kind)!Rounded(ms) - ms) <= 50
                        /\ 2 * (ms - Study(kind)!Rounded(ms)) <= 50
<1>1. CASE ms <= 0
  BY <1>1 DEF Study!Rounded
<1>2. CASE ms > 0
  <2> DEFINE down == ms \div 50
             rest == ms % 50
  <2>1. down \in Nat /\ rest \in 0..49 /\ ms = 50 * down + rest
    BY <1>2
  <2>2. Study(kind)!Rounded(ms) = 50 * down \/ Study(kind)!Rounded(ms) = 50 * (down + 1)
    BY <1>2, <2>1 DEF Study!Rounded, Study!RoundingMs
  <2>3. Study(kind)!Rounded(ms) = 50 * down => 2 * rest <= 50
    BY <1>2, <2>1 DEF Study!Rounded, Study!RoundingMs
  <2>4. Study(kind)!Rounded(ms) = 50 * (down + 1) => 2 * rest >= 50
    BY <1>2, <2>1 DEF Study!Rounded, Study!RoundingMs
  <2> HIDE DEF down, rest
  <2>5. (50 * down) % 50 = 0 /\ (50 * (down + 1)) % 50 = 0
    BY <2>1
  <2> QED
    BY <1>2, <2>1, <2>2, <2>3, <2>4, <2>5
<1> QED
  BY <1>1, <1>2

(* Later wishes are not rounded to earlier delays. *)
LEMMA RoundedGrows ==
    ASSUME NEW kind, NEW a \in Int, NEW b \in Int, a <= b
    PROVE  Study(kind)!Rounded(a) <= Study(kind)!Rounded(b)
<1> DEFINE x == Study(kind)!Rounded(a)
           y == Study(kind)!Rounded(b)
<1>1. x \in Nat /\ y \in Nat /\ x % 50 = 0 /\ y % 50 = 0
  BY RoundedSays
<1>2. CASE a = b
  BY <1>1, <1>2
<1>3. CASE a <= 0
  <2>1. x = 0
    BY <1>3, RoundedSays
  <2> QED
    BY <1>1, <2>1
<1>4. CASE a > 0 /\ a < b
  <2>1. 2 * (x - a) <= 50 /\ 2 * (b - y) <= 50
    BY <1>4, RoundedSays
  <2> HIDE DEF x, y
  <2>2. x - y < 50
    BY <1>1, <1>4, <2>1
  <2> QED
    BY <1>1, <2>2 DEF x, y
<1> QED
  BY <1>2, <1>3, <1>4

LEMMA TargetsGrow ==
    ASSUME NEW kind, Headroom \in Nat, NEW long \in Nat, NEW ratio \in {50, 75, 100, 120, 150}
    PROVE  /\ Study(kind)!TargetMs(long, ratio) \in Nat
           /\ Study(kind)!TargetMs(long, ratio) <= Study(kind)!TargetMs(long, 150)
<1> DEFINE k == Headroom * long
<1>1. k \in Nat
  OBVIOUS
<1>2. Headroom * ratio * long = ratio * k /\ Headroom * 150 * long = 150 * k
  OBVIOUS
<1> HIDE DEF k
<1>3. ratio * k \in Nat /\ ratio * k <= 150 * k
  BY <1>1
<1>4. (ratio * k) \div 100 \in Nat /\ (ratio * k) \div 100 <= (150 * k) \div 100
  BY <1>1, <1>3
<1> QED
  BY <1>2, <1>4 DEF Study!TargetMs

-----------------------------------------------------------------------------
(* The artifacts of the study. *)

Percents == {50, 75, 100, 120, 150}
IsDelay(d) == d \in Nat /\ d % 50 = 0
PlansMade == [step : Nat \ {0}, base : Nat, commit : 1..2]
PlansInv(kind) ==
    /\ commit \in 1..2 /\ plans \in Seq(PlansMade) /\ Len(plans) <= StudyPlans[kind]
    /\ \A i \in DOMAIN plans : plans[i].commit <= commit
MeasuredInv(kind) ==
    \A d \in DOMAIN runs :
       /\ IsDelay(d)
       /\ runs[d].commit \in 1..commit /\ runs[d].seen \in StudyOutcomes[kind]
(* A selection is what its runs, none of which has changed since, decide.    *)
ChoiceInv(kind) ==
    selection # Study(kind)!NoSelection =>
      /\ selection.plan \in 1..Len(plans) /\ selection.commit \in 1..commit
      /\ Study(kind)!Choosable(selection.tested)
      /\ selection.status = "selected" => selection.delay # -1
      /\ selection.delay = Study(kind)!Chosen(selection.tested)
      /\ selection.decisions = Study(kind)!Decisions(selection.tested)
PressureInv(kind) ==
    /\ selection.tested \subseteq DOMAIN runs
    /\ pressure # Study(kind)!NoPressure =>
         pressure.delay \in DOMAIN runs /\ pressure.commit \in 1..commit
StudyInv(kind) ==
    PlansInv(kind) /\ MeasuredInv(kind) /\ ChoiceInv(kind) /\ PressureInv(kind)

-----------------------------------------------------------------------------
LEMMA DelayIsRounded ==
    ASSUME NEW kind, Study(kind)!M4Assumption, NEW p \in PlansMade,
           NEW ratio \in Percents
    PROVE  /\ Study(kind)!TargetMs(p.step, ratio) \in Nat
           /\ Study(kind)!TargetMs(p.step, ratio) <= Study(kind)!TargetMs(p.step, 150)
           /\ Study(kind)!DelayFor(p, ratio) =
                Study(kind)!Rounded(Study(kind)!TargetMs(p.step, ratio) - p.base)
           /\ IsDelay(Study(kind)!DelayFor(p, ratio))
<1>1. p.step \in Nat /\ p.base \in Nat /\ Headroom \in Nat
  BY DEF PlansMade, Study!M4Assumption
<1>2. Study(kind)!TargetMs(p.step, ratio) \in Nat
      /\ Study(kind)!TargetMs(p.step, ratio) <= Study(kind)!TargetMs(p.step, 150)
  BY <1>1, TargetsGrow DEF Percents
<1>3. Study(kind)!DelayFor(p, ratio) =
        Study(kind)!Rounded(Study(kind)!TargetMs(p.step, ratio) - p.base)
  BY Zenon DEF Study!DelayFor
<1>4. Study(kind)!TargetMs(p.step, ratio) - p.base \in Int
  BY <1>1, <1>2
<1> QED
  BY <1>2, <1>3, <1>4, RoundedSays DEF IsDelay

(* The plan on disk, and the delays it speaks of. *)
LEMMA PlannedDelays ==
    ASSUME NEW kind, Study(kind)!M4Assumption, PlansInv(kind), plans # <<>>
    PROVE  /\ Study(kind)!Plan \in PlansMade /\ Study(kind)!Plan = plans[Len(plans)]
           /\ Len(plans) \in DOMAIN plans /\ Len(plans) \in Nat /\ Len(plans) > 0
           /\ \A d \in Study(kind)!Initial(Study(kind)!Plan)
                         \cup {Study(kind)!Extension(Study(kind)!Plan)} : IsDelay(d)
<1> DEFINE p == Study(kind)!Plan
<1>1. /\ p \in PlansMade /\ p = plans[Len(plans)]
      /\ Len(plans) \in DOMAIN plans /\ Len(plans) \in Nat /\ Len(plans) > 0
  BY DEF PlansInv, Study!Plan
<1>2. \A ratio \in Percents : IsDelay(Study(kind)!DelayFor(p, ratio))
  <2> HIDE DEF p
  <2> QED
    BY <1>1, DelayIsRounded, Zenon
<1>3. /\ \A d \in Study(kind)!Initial(p) :
           \E ratio \in Percents : d = Study(kind)!DelayFor(p, ratio)
      /\ Study(kind)!Extension(p) = Study(kind)!DelayFor(p, 150) /\ 150 \in Percents
  BY DEF Study!Initial, Study!Extension, Study!TargetRatios, Study!ExtensionRatio, Percents
<1> HIDE DEF p
<1> QED
  BY <1>1, <1>2, <1>3, Zenon DEF p

(* No delay, or the least that qualifies. *)
LEMMA ChosenSays ==
    ASSUME NEW kind, MeasuredInv(kind), NEW tested, tested \subseteq DOMAIN runs
    PROVE  /\ Study(kind)!Chosen(tested) = -1 <=> Study(kind)!Qualifying(tested) = {}
           /\ Study(kind)!Chosen(tested) # -1 =>
                /\ Study(kind)!Chosen(tested) \in Study(kind)!Qualifying(tested)
                /\ \A d \in Study(kind)!Qualifying(tested) : Study(kind)!Chosen(tested) <= d
<1> DEFINE S == Study(kind)!Qualifying(tested)
<1>1. S \subseteq Nat
  BY DEF Study!Qualifying, MeasuredInv, IsDelay
<1>2. Study(kind)!Min(S) = Min(S)
  BY Zenon DEF Min, Study!Min
<1>3. Study(kind)!Chosen(tested) = IF S = {} THEN -1 ELSE Min(S)
  BY <1>2, Zenon DEF Study!Chosen
<1> HIDE DEF S
<1>4. S # {} => Min(S) \in S /\ \A c \in S : Min(S) <= c
  BY <1>1, LeastDelay, Zenon
<1>5. S # {} => Min(S) # -1
  BY <1>1, <1>4
<1> QED
  BY <1>3, <1>4, <1>5, Zenon DEF S

(* A run that was made is not made again. *)
LEMMA MeasuredStay ==
    ASSUME NEW kind, Study(kind)!Next
    PROVE  \A d \in DOMAIN runs : d \in DOMAIN runs' /\ runs'[d] = runs[d]
<1>1. CASE UNCHANGED runs
  BY <1>1
<1>2. CASE Study(kind)!Calibrate
  BY <1>2 DEF Study!Calibrate
<1> QED
  BY <1>1, <1>2, Zenon DEF Study!Next, Study!MakePlan, Study!Recommit, Study!Select,
     Study!RunPressure

(* So what was decided from some runs would be decided from them again. *)
LEMMA DecisionStays ==
    ASSUME NEW kind, Study(kind)!Next, NEW tested, tested \subseteq DOMAIN runs,
           Study(kind)!Choosable(tested)
    PROVE  /\ \A d \in tested : DOMAIN runs'[d].seen = Study(kind)!Modes
           /\ {d \in tested : Study(kind)!Pressure(runs'[d].seen)} =
                Study(kind)!Qualifying(tested)
           /\ {[delay |-> d, seen |-> runs'[d].seen] : d \in tested} =
                Study(kind)!Decisions(tested)
BY MeasuredStay DEF Study!Choosable, Study!Qualifying, Study!Decisions

LEMMA StudyStarts ==
    ASSUME NEW kind, Study(kind)!M4Assumption, Study(kind)!Init
    PROVE  StudyInv(kind)
<1> USE DEF Study!Init
<1>1. PlansInv(kind)
  BY DEF PlansInv, Study!M4Assumption
<1>2. MeasuredInv(kind)
  BY DEF MeasuredInv
<1>3. ChoiceInv(kind) /\ PressureInv(kind)
  BY DEF ChoiceInv, PressureInv, Study!NoSelection
<1> QED
  BY <1>1, <1>2, <1>3 DEF StudyInv

LEMMA PlansKept ==
    ASSUME NEW kind, Study(kind)!M4Assumption, StudyInv(kind), Study(kind)!Next
    PROVE  PlansInv(kind)'
<1> USE DEF StudyInv, PlansInv
<1>1. CASE Study(kind)!MakePlan
  <2>1. PICK long \in StudySteps[kind], base \in StudyBases[kind] :
          plans' = Append(plans, [step |-> long, base |-> base, commit |-> commit])
    BY <1>1 DEF Study!MakePlan
  <2>2. commit' = commit /\ Len(plans) < StudyPlans[kind] /\ StudyPlans[kind] \in Nat
    BY <1>1 DEF Study!MakePlan, Study!M4Assumption
  <2>3. [step |-> long, base |-> base, commit |-> commit] \in PlansMade
    BY DEF PlansMade, Study!M4Assumption
  <2> QED
    BY <2>1, <2>2, <2>3
<1>2. CASE Study(kind)!Recommit
  <2>1. commit' = 2 /\ plans' = plans
    BY <1>2 DEF Study!Recommit
  <2>2. ASSUME NEW i \in DOMAIN plans PROVE plans[i].commit <= 2
    <3>1. plans[i] \in PlansMade
      OBVIOUS
    <3> QED
      BY <3>1 DEF PlansMade
  <2> QED
    BY <2>1, <2>2
<1>3. CASE UNCHANGED <<commit, plans>>
  BY <1>3
<1> QED
  BY <1>1, <1>2, <1>3, Zenon DEF Study!Next, Study!Calibrate, Study!Select, Study!RunPressure

LEMMA MeasuredKept ==
    ASSUME NEW kind, Study(kind)!M4Assumption, StudyInv(kind), Study(kind)!Next
    PROVE  MeasuredInv(kind)'
<1>1. CASE Study(kind)!Calibrate
  <2> DEFINE first == Study(kind)!Initial(Study(kind)!Plan)
             beyond == {Study(kind)!Extension(Study(kind)!Plan)}
             spoken == first \cup beyond
                       \cup (IF Study(kind)!Includes300(Study(kind)!Plan) THEN {300} ELSE {})
             with(d, seen) ==
               [x \in DOMAIN runs \cup {d} |->
                  IF x = d THEN [commit |-> commit, seen |-> seen] ELSE runs[x]]
  <2>0. \E d \in spoken :
          /\ d \notin DOMAIN runs
          /\ \E seen \in StudyOutcomes[kind] : runs' = with(d, seen)
    BY <1>1 DEF Study!Calibrate
  <2>1. PICK d \in spoken, seen \in StudyOutcomes[kind] : runs' = with(d, seen)
    <3> HIDE DEF first, beyond, spoken, with
    <3> QED
      BY <2>0, Zenon
  <2>2. plans # <<>> /\ commit' = commit
    BY <1>1 DEF Study!Calibrate
  <2>3. \A x \in first \cup beyond : IsDelay(x)
    BY <2>2, PlannedDelays, Zenon DEF StudyInv
  <2>4. d \in first \cup beyond \/ d = 300
    BY Zenon
  <2>5. IsDelay(d)
    <3> HIDE DEF first, beyond, spoken
    <3> QED
      BY <2>3, <2>4 DEF IsDelay
  <2> HIDE DEF first, beyond, spoken
  <2> QED
    BY <2>1, <2>2, <2>5 DEF MeasuredInv, StudyInv, PlansInv, with
<1>2. CASE Study(kind)!Recommit
  BY <1>2 DEF Study!Recommit, MeasuredInv, StudyInv
<1>3. CASE UNCHANGED <<commit, runs>>
  BY <1>3 DEF MeasuredInv, StudyInv
<1> QED
  BY <1>1, <1>2, <1>3, Zenon DEF Study!Next, Study!MakePlan, Study!Select, Study!RunPressure

(* A selection stays what its runs decide: they stay, and plans and commits   *)
(* only grow.                                                                 *)
LEMMA ChoiceKept ==
    ASSUME NEW kind, Study(kind)!M4Assumption, StudyInv(kind), Study(kind)!Next
    PROVE  ChoiceInv(kind)'
<1>1. CASE Study(kind)!Select
  <2> DEFINE made(tested) ==
               [plan |-> Len(plans), commit |-> commit, tested |-> tested,
                status |-> IF Study(kind)!Chosen(tested) # -1 THEN "selected"
                           ELSE IF Study(kind)!Extension(Study(kind)!Plan) \in tested
                                THEN "no_pressure_after_extension"
                                ELSE "needs_extension",
                delay |-> Study(kind)!Chosen(tested),
                decisions |-> Study(kind)!Decisions(tested)]
  <2>0. \E tested \in (SUBSET DOMAIN runs) \ {{}} :
          Study(kind)!Choosable(tested) /\ selection' = made(tested)
    BY <1>1 DEF Study!Select
  <2>1. PICK tested \in (SUBSET DOMAIN runs) \ {{}} :
          Study(kind)!Choosable(tested) /\ selection' = made(tested)
    <3> HIDE DEF made
    <3> QED
      BY <2>0, Zenon
  <2>2. plans # <<>> /\ UNCHANGED <<commit, plans, runs>>
    BY <1>1 DEF Study!Select
  <2>3. Len(plans) \in 1..Len(plans) /\ commit \in 1..commit
    <3>1. Len(plans) \in Nat /\ Len(plans) > 0 /\ commit \in 1..2
      BY <2>2, PlannedDelays, Zenon DEF StudyInv, PlansInv
    <3> QED
      BY <3>1
  <2>4. /\ selection'.plan = Len(plans) /\ selection'.commit = commit /\ selection'.tested = tested
        /\ selection'.delay = Study(kind)!Chosen(tested)
        /\ selection'.decisions = Study(kind)!Decisions(tested)
        /\ selection'.status = "selected" => Study(kind)!Chosen(tested) # -1
    BY <2>1
  <2>5. /\ Study(kind)!Choosable(selection.tested)'
        /\ Study(kind)!Chosen(selection.tested)' = Study(kind)!Chosen(tested)
        /\ Study(kind)!Decisions(selection.tested)' = Study(kind)!Decisions(tested)
    BY <2>1, <2>2, <2>4, Zenon
       DEF Study!Choosable, Study!Chosen, Study!Qualifying, Study!Decisions
  <2> QED
    BY <2>2, <2>3, <2>4, <2>5 DEF ChoiceInv
<1>2. CASE ~Study(kind)!Select /\ selection # Study(kind)!NoSelection
  <2>1. selection' = selection
    BY <1>2, Zenon DEF Study!Next, Study!MakePlan, Study!Recommit, Study!Calibrate,
       Study!RunPressure
  <2>2. /\ selection.plan \in 1..Len(plans) /\ selection.commit \in 1..commit
        /\ selection.status = "selected" => selection.delay # -1
        /\ Study(kind)!Choosable(selection.tested)
        /\ selection.delay = Study(kind)!Chosen(selection.tested)
        /\ selection.decisions = Study(kind)!Decisions(selection.tested)
        /\ selection.tested \subseteq DOMAIN runs
    BY <1>2, Zenon DEF StudyInv, ChoiceInv, PressureInv
  <2>3. Len(plans) <= Len(plans') /\ Len(plans) \in Nat /\ Len(plans') \in Nat
    <3>1. plans \in Seq(PlansMade)
      BY DEF StudyInv, PlansInv
    <3>2. CASE \E made : plans' = Append(plans, made)
      BY <3>1, <3>2
    <3>3. CASE plans' = plans
      BY <3>1, <3>3
    <3> QED
      BY <3>2, <3>3, Zenon DEF Study!Next, Study!MakePlan, Study!Recommit,
         Study!Calibrate, Study!Select, Study!RunPressure
  <2>4. commit \in Nat /\ commit' \in Nat /\ commit <= commit'
    BY DEF StudyInv, PlansInv, Study!Next, Study!MakePlan, Study!Recommit,
       Study!Calibrate, Study!Select, Study!RunPressure
  <2>5. selection.plan \in 1..Len(plans') /\ selection.commit \in 1..commit'
    BY <2>2, <2>3, <2>4 DEF StudyInv, PlansInv
  <2>6. /\ \A d \in selection.tested : DOMAIN runs'[d].seen = Study(kind)!Modes
        /\ {d \in selection.tested : Study(kind)!Pressure(runs'[d].seen)} =
             Study(kind)!Qualifying(selection.tested)
        /\ {[delay |-> d, seen |-> runs'[d].seen] : d \in selection.tested} =
             Study(kind)!Decisions(selection.tested)
    BY <2>2, DecisionStays, Zenon
  <2>7. Study(kind)!Choosable(selection.tested)'
    BY <2>1, <2>6, Zenon DEF Study!Choosable, Study!Modes
  <2>8. Study(kind)!Decisions(selection.tested)' = Study(kind)!Decisions(selection.tested)
    BY <2>1, <2>6, Zenon DEF Study!Decisions
  <2>9. Study(kind)!Qualifying(selection.tested)' = Study(kind)!Qualifying(selection.tested)
    BY <2>1, <2>6, Zenon DEF Study!Qualifying
  <2>10. Study(kind)!Chosen(selection.tested)' = Study(kind)!Chosen(selection.tested)
    BY <2>9, Zenon DEF Study!Chosen
  <2> QED
    BY <2>1, <2>2, <2>5, <2>7, <2>8, <2>10, Zenon DEF ChoiceInv
<1>3. CASE ~Study(kind)!Select /\ selection = Study(kind)!NoSelection
  <2>1. selection' = selection
    BY <1>3, Zenon DEF Study!Next, Study!MakePlan, Study!Recommit, Study!Calibrate,
       Study!RunPressure
  <2> QED
    BY <1>3, <2>1, Zenon DEF ChoiceInv, Study!NoSelection
<1> QED
  BY <1>1, <1>2, <1>3, Zenon

(* Pressure is run only at a delay that was runs. *)
LEMMA PressureKept ==
    ASSUME NEW kind, Study(kind)!M4Assumption, StudyInv(kind), Study(kind)!Next
    PROVE  PressureInv(kind)'
<1>1. DOMAIN runs \subseteq DOMAIN runs'
  BY MeasuredStay
<1>2. selection'.tested \subseteq DOMAIN runs
  <2>1. CASE Study(kind)!Select
    BY <2>1 DEF Study!Select
  <2>2. CASE selection' = selection
    BY <2>2 DEF StudyInv, PressureInv
  <2> QED
    BY <2>1, <2>2, Zenon DEF Study!Next, Study!MakePlan, Study!Recommit, Study!Calibrate,
       Study!RunPressure
<1>3. commit \in Nat /\ commit' \in Nat /\ commit <= commit' /\ commit >= 1
  BY DEF StudyInv, PlansInv, Study!Next, Study!MakePlan, Study!Recommit,
     Study!Calibrate, Study!Select, Study!RunPressure
<1>4. CASE Study(kind)!RunPressure
  <2>1. selection.status = "selected" /\ selection # Study(kind)!NoSelection
    BY <1>4 DEF Study!RunPressure, Study!NoSelection
  <2>2. selection.delay = Study(kind)!Chosen(selection.tested) /\ selection.delay # -1
        /\ selection.tested \subseteq DOMAIN runs
    BY <2>1, Zenon DEF StudyInv, ChoiceInv, PressureInv
  <2>3. selection.delay \in selection.tested
    BY <2>2, ChosenSays, Zenon DEF StudyInv, Study!Qualifying
  <2>4. pressure'.delay = selection.delay /\ pressure'.commit = commit
    BY <1>4 DEF Study!RunPressure
  <2> QED
    BY <1>1, <1>2, <1>3, <2>2, <2>3, <2>4 DEF PressureInv
<1>5. CASE pressure' = pressure
  BY <1>1, <1>2, <1>3, <1>5 DEF StudyInv, PressureInv, Study!NoPressure
<1> QED
  BY <1>4, <1>5, Zenon DEF Study!Next, Study!MakePlan, Study!Recommit, Study!Calibrate,
     Study!Select

LEMMA StudyKept ==
    ASSUME NEW kind, Study(kind)!M4Assumption, StudyInv(kind), [Study(kind)!Next]_(Study(kind)!vars)
    PROVE  StudyInv(kind)'
<1>1. CASE Study(kind)!Next
  BY <1>1, PlansKept, MeasuredKept, ChoiceKept, PressureKept, Zenon DEF StudyInv
<1>2. CASE UNCHANGED <<commit, plans, runs, selection, pressure>>
  <2>1. commit' = commit /\ plans' = plans /\ runs' = runs /\ selection' = selection
        /\ pressure' = pressure
    BY <1>2, Zenon
  <2>2. PlansInv(kind)'
    BY <2>1, Zenon DEF StudyInv, PlansInv
  <2>3. MeasuredInv(kind)'
    BY <2>1, Zenon DEF StudyInv, MeasuredInv
  <2>4. /\ Study(kind)!Choosable(selection.tested)' = Study(kind)!Choosable(selection.tested)
        /\ Study(kind)!Qualifying(selection.tested)' = Study(kind)!Qualifying(selection.tested)
        /\ Study(kind)!Decisions(selection.tested)' = Study(kind)!Decisions(selection.tested)
    BY <2>1, Zenon DEF Study!Choosable, Study!Qualifying, Study!Decisions
  <2>5. Study(kind)!Chosen(selection.tested)' = Study(kind)!Chosen(selection.tested)
    BY <2>4, Zenon DEF Study!Chosen
  <2>6. ChoiceInv(kind)'
    BY <2>1, <2>4, <2>5, Zenon DEF StudyInv, ChoiceInv
  <2>7. PressureInv(kind)'
    BY <2>1, Zenon DEF StudyInv, PressureInv
  <2> QED
    BY <2>2, <2>3, <2>6, <2>7, Zenon DEF StudyInv
<1> QED
  BY <1>1, <1>2, Zenon DEF Study!vars

-----------------------------------------------------------------------------
(* What it says. *)

(* Pressure over two modes is pressure in one of them, and none is none.      *)
LEMMA PressureSays ==
    ASSUME NEW kind, Study(kind)!M4Assumption, NEW seen \in StudyOutcomes[kind],
           DOMAIN seen = Study(kind)!Modes
    PROVE  /\ Study(kind)!Pressure(seen) =>
                \E m \in Study(kind)!Modes :
                   seen[m].age >= Headroom \/ seen[m].holds > 0 \/ seen[m].stale > 0
           /\ ~Study(kind)!Pressure(seen) =>
                \A m \in Study(kind)!Modes : seen[m].holds = 0 /\ seen[m].stale = 0
<1> DEFINE naive == seen["async_naive"]
           aligned == seen["async_aligned"]
<1>1. Study(kind)!Modes = {"async_naive", "async_aligned"}
  BY Zenon DEF Study!Modes
<1>2. \A m \in {"async_naive", "async_aligned"} :
        seen[m] \in [age : Nat, holds : Nat, stale : Nat]
  BY <1>1, Zenon DEF Study!M4Assumption
<1>3. /\ naive.age \in Nat /\ naive.holds \in Nat /\ naive.stale \in Nat
      /\ aligned.age \in Nat /\ aligned.holds \in Nat /\ aligned.stale \in Nat
      /\ Headroom \in Nat
  BY <1>2 DEF Study!M4Assumption
<1>4. Study(kind)!Pressure(seen) <=>
        \/ naive.age + aligned.age >= 2 * Headroom
        \/ naive.holds + aligned.holds > 0
        \/ naive.stale + aligned.stale > 0
  BY DEF Study!Pressure, Study!Total
<1> HIDE DEF naive, aligned
<1>5. Study(kind)!Pressure(seen) =>
        \/ naive.age >= Headroom \/ naive.holds > 0 \/ naive.stale > 0
        \/ aligned.age >= Headroom \/ aligned.holds > 0 \/ aligned.stale > 0
  BY <1>3, <1>4
<1>6. ~Study(kind)!Pressure(seen) =>
        naive.holds = 0 /\ naive.stale = 0 /\ aligned.holds = 0 /\ aligned.stale = 0
  <2>1. \A a, b \in Nat : ~(a + b > 0) => a = 0 /\ b = 0
    OBVIOUS
  <2>2. ~Study(kind)!Pressure(seen) =>
          ~(naive.holds + aligned.holds > 0) /\ ~(naive.stale + aligned.stale > 0)
    BY <1>4, Zenon
  <2> QED
    BY <1>3, <2>1, <2>2, Zenon
<1> QED
  BY <1>1, <1>5, <1>6, Zenon DEF naive, aligned

(* The report accepts only what the rule decided. *)
LEMMA AcceptedSays ==
    ASSUME NEW kind, Study(kind)!M4Assumption, StudyInv(kind)
    PROVE  Study(kind)!AcceptedIsDecided
<1> SUFFICES ASSUME NEW tested \in SUBSET DOMAIN runs, Study(kind)!Accepted(tested)
             PROVE  /\ selection.plan = Len(plans)
                    /\ \A ratio \in Study(kind)!TargetRatios :
                         Study(kind)!DelayFor(Study(kind)!Plan, ratio) \in tested
                    /\ \A d \in tested : d \in Study(kind)!Initial(Study(kind)!Plan)
                                         \/ d = Study(kind)!Extension(Study(kind)!Plan)
                    /\ \E m \in Study(kind)!Modes :
                         \/ runs[pressure.delay].seen[m].age >= Headroom
                         \/ runs[pressure.delay].seen[m].holds > 0
                         \/ runs[pressure.delay].seen[m].stale > 0
                    /\ \A d \in tested : d < pressure.delay =>
                         \A m \in Study(kind)!Modes :
                           /\ runs[d].seen[m].holds = 0
                           /\ runs[d].seen[m].stale = 0
  BY DEF Study!AcceptedIsDecided
<1>1. /\ selection.plan = Len(plans) /\ selection.status = "selected" /\ selection.tested = tested
      /\ Study(kind)!Initial(Study(kind)!Plan) \subseteq tested
      /\ tested \subseteq Study(kind)!Initial(Study(kind)!Plan)
                            \cup {Study(kind)!Extension(Study(kind)!Plan)}
      /\ Study(kind)!Choosable(tested) /\ Study(kind)!Chosen(tested) = selection.delay
      /\ pressure.delay = selection.delay /\ selection # Study(kind)!NoSelection
  BY Zenon DEF Study!Accepted, Study!Proven
<1>2. \A ratio \in Study(kind)!TargetRatios :
        Study(kind)!DelayFor(Study(kind)!Plan, ratio) \in tested
  BY <1>1, Zenon DEF Study!Initial
<1>3. selection.delay # -1
  BY <1>1, Zenon DEF StudyInv, ChoiceInv
<1>4. /\ selection.delay \in Study(kind)!Qualifying(tested)
      /\ \A d \in Study(kind)!Qualifying(tested) : selection.delay <= d
  BY <1>1, <1>3, ChosenSays, Zenon DEF StudyInv
<1>5. \A d \in tested : /\ runs[d].seen \in StudyOutcomes[kind]
                        /\ DOMAIN runs[d].seen = Study(kind)!Modes
                        /\ d \in Nat
  BY <1>1, Zenon DEF StudyInv, MeasuredInv, Study!Choosable, IsDelay
<1>6. selection.delay \in tested /\ Study(kind)!Pressure(runs[selection.delay].seen)
  BY <1>4, Zenon DEF Study!Qualifying
<1>7. \A d \in tested : d < selection.delay => ~Study(kind)!Pressure(runs[d].seen)
  <2> SUFFICES ASSUME NEW d \in tested, d < selection.delay,
                      Study(kind)!Pressure(runs[d].seen)
               PROVE  FALSE
    BY Zenon
  <2>1. d \in Study(kind)!Qualifying(tested)
    BY Zenon DEF Study!Qualifying
  <2>2. selection.delay <= d
    BY <1>4, <2>1, Zenon
  <2> QED
    BY <1>5, <1>6, <2>2
<1>8. \E m \in Study(kind)!Modes :
         \/ runs[pressure.delay].seen[m].age >= Headroom
         \/ runs[pressure.delay].seen[m].holds > 0
         \/ runs[pressure.delay].seen[m].stale > 0
  BY <1>1, <1>5, <1>6, PressureSays, Zenon
<1>9. \A d \in tested : d < pressure.delay =>
        \A m \in Study(kind)!Modes :
          runs[d].seen[m].holds = 0 /\ runs[d].seen[m].stale = 0
  BY <1>1, <1>5, <1>7, PressureSays, Zenon
<1> QED
  BY <1>1, <1>2, <1>8, <1>9, Zenon

(* Whoever follows the plan at one commit is accepted. *)
LEMMA FollowingSays ==
    ASSUME NEW kind, Study(kind)!M4Assumption, StudyInv(kind)
    PROVE  Study(kind)!FollowingThePlanIsAccepted
<1> SUFFICES ASSUME Len(plans) = 1, commit = 1, selection.status = "selected",
                    pressure.delay = selection.delay,
                    Study(kind)!Initial(Study(kind)!Plan) \subseteq selection.tested,
                    selection.tested \subseteq Study(kind)!Initial(Study(kind)!Plan)
                                              \cup {Study(kind)!Extension(Study(kind)!Plan)}
             PROVE  Study(kind)!Accepted(selection.tested)
  BY Zenon DEF Study!FollowingThePlanIsAccepted
<1>1. selection # Study(kind)!NoSelection
  BY DEF Study!NoSelection
<1>2. /\ selection.plan \in 1..Len(plans) /\ selection.commit \in 1..commit
      /\ selection.delay # -1 /\ Study(kind)!Choosable(selection.tested)
      /\ selection.delay = Study(kind)!Chosen(selection.tested)
      /\ selection.decisions = Study(kind)!Decisions(selection.tested)
      /\ selection.tested \subseteq DOMAIN runs
  BY <1>1, Zenon DEF StudyInv, ChoiceInv, PressureInv
<1>3. pressure # Study(kind)!NoPressure
  BY <1>2 DEF Study!NoPressure
<1>4. selection.plan = 1 /\ selection.commit = 1
  BY <1>2
<1>5. pressure.commit = 1
  BY <1>3 DEF StudyInv, PressureInv
<1>6. plans # <<>> /\ Study(kind)!Plan.commit = 1
  <2>1. plans \in Seq(PlansMade) /\ 1 \in DOMAIN plans /\ plans[1].commit <= commit
    BY DEF StudyInv, PlansInv
  <2>2. plans # <<>>
    <3>1. CASE plans = <<>>
      <4>1. Len(<<>>) = 0
        OBVIOUS
      <4> QED
        BY <3>1, <4>1
    <3> QED
      BY <3>1
  <2>3. plans[1] \in PlansMade
    <3> DEFINE made == PlansMade
    <3>1. plans \in Seq(made) /\ 1 \in DOMAIN plans
      BY <2>1
    <3> HIDE DEF made
    <3>2. plans[1] \in made
      BY <3>1
    <3> QED
      BY <3>2 DEF made
  <2>4. plans[1].commit \in 1..2
    BY <2>3 DEF PlansMade
  <2>5. Study(kind)!Plan = plans[1]
    BY Zenon DEF Study!Plan
  <2>6. plans[1].commit = 1
    BY <2>1, <2>4
  <2> QED
    BY <2>2, <2>5, <2>6, Zenon
<1>7. \A d \in selection.tested : runs[d].commit = 1
  BY <1>2 DEF StudyInv, MeasuredInv
<1>8. {runs[d].commit : d \in selection.tested}
        \cup {Study(kind)!Plan.commit, selection.commit, pressure.commit} = {1}
  BY <1>4, <1>5, <1>6, <1>7
<1>9. Study(kind)!Cardinality({1}) = 1
  <2>1. Study(kind)!Cardinality({1}) = Cardinality({1})
    BY Zenon DEF Cardinality, Study!Cardinality
  <2> QED
    BY <2>1, FS_Singleton
<1>10. Study(kind)!Proven(selection.tested)
  BY <1>2, <1>4, Zenon DEF Study!Proven
<1> QED
  BY <1>1, <1>3, <1>6, <1>8, <1>9, <1>10, Zenon DEF Study!Accepted

(* The delays of a plan hit their targets. *)
LEMMA TargetsAreHit ==
    ASSUME NEW kind, Study(kind)!M4Assumption, StudyInv(kind)
    PROVE  Study(kind)!DelaysHitTargets
<1> SUFFICES ASSUME NEW i \in DOMAIN plans, NEW p, p = plans[i]
             PROVE  /\ \A ratio \in Study(kind)!TargetRatios \cup {Study(kind)!ExtensionRatio} :
                         LET off == p.base + Study(kind)!DelayFor(p, ratio)
                                      - Study(kind)!TargetMs(p.step, ratio)
                         IN /\ -2 * off <= Study(kind)!RoundingMs
                            /\ 2 * off <= Study(kind)!RoundingMs
                               \/ Study(kind)!DelayFor(p, ratio) = 0
                    /\ \A d \in Study(kind)!Initial(p) : d <= Study(kind)!Extension(p)
  BY DEF Study!DelaysHitTargets
<1>1. p \in PlansMade /\ p.base \in Nat
  <2>1. plans \in Seq(PlansMade)
    BY Zenon DEF StudyInv, PlansInv
  <2>2. p \in PlansMade
    BY <2>1
  <2> QED
    BY <2>2 DEF PlansMade
<1>2. Study(kind)!TargetRatios \cup {Study(kind)!ExtensionRatio} = Percents
  BY DEF Study!TargetRatios, Study!ExtensionRatio, Percents
<1>3. ASSUME NEW ratio \in Percents
      PROVE  LET off == p.base + Study(kind)!DelayFor(p, ratio)
                          - Study(kind)!TargetMs(p.step, ratio)
             IN /\ -2 * off <= Study(kind)!RoundingMs
                /\ 2 * off <= Study(kind)!RoundingMs \/ Study(kind)!DelayFor(p, ratio) = 0
  <2> DEFINE target == Study(kind)!TargetMs(p.step, ratio)
             delay == Study(kind)!DelayFor(p, ratio)
             ms == target - p.base
  <2>1. target \in Nat /\ delay = Study(kind)!Rounded(ms) /\ delay \in Nat
    BY <1>1, DelayIsRounded DEF IsDelay
  <2>2. ms \in Int
    BY <1>1, <2>1
  <2>3. /\ ms <= 0 => delay = 0
        /\ ms > 0 => 2 * (delay - ms) <= 50 /\ 2 * (ms - delay) <= 50
    BY <2>1, <2>2, RoundedSays
  <2> HIDE DEF target, delay
  <2> QED
    BY <1>1, <2>1, <2>3 DEF Study!RoundingMs, target, delay
<1>4. ASSUME NEW d \in Study(kind)!Initial(p) PROVE d <= Study(kind)!Extension(p)
  <2>1. PICK ratio \in Percents : d = Study(kind)!DelayFor(p, ratio)
    BY <1>2, Zenon DEF Study!Initial
  <2>2. Study(kind)!Extension(p) = Study(kind)!DelayFor(p, 150) /\ 150 \in Percents
    BY DEF Study!Extension, Study!ExtensionRatio, Percents
  <2> DEFINE low == Study(kind)!TargetMs(p.step, ratio)
             high == Study(kind)!TargetMs(p.step, 150)
  <2>a. /\ low \in Nat /\ low <= high
        /\ Study(kind)!DelayFor(p, ratio) = Study(kind)!Rounded(low - p.base)
    BY <1>1, <2>1, DelayIsRounded, Zenon
  <2>b. /\ high \in Nat
        /\ Study(kind)!DelayFor(p, 150) = Study(kind)!Rounded(high - p.base)
    BY <1>1, <2>2, DelayIsRounded, Zenon
  <2> HIDE DEF low, high
  <2>4. low - p.base \in Int /\ high - p.base \in Int /\ low - p.base <= high - p.base
    BY <1>1, <2>a, <2>b
  <2> QED
    BY <2>1, <2>2, <2>a, <2>b, <2>4, RoundedGrows
<1> QED
  BY <1>2, <1>3, <1>4, Zenon

LEMMA StudySays ==
    ASSUME NEW kind, Study(kind)!M4Assumption, StudyInv(kind)
    PROVE  /\ Study(kind)!TypeOK /\ Study(kind)!AcceptedIsDecided
           /\ Study(kind)!FollowingThePlanIsAccepted /\ Study(kind)!DelaysHitTargets
<1>1. commit \in 1..2 /\ Len(plans) <= StudyPlans[kind]
  BY Zenon DEF StudyInv, PlansInv
<1>2. \A d \in DOMAIN runs :
        d % Study(kind)!RoundingMs = 0 /\ runs[d].commit \in 1..commit
  BY DEF StudyInv, MeasuredInv, IsDelay, Study!RoundingMs
<1>3. selection.tested \subseteq DOMAIN runs
  BY Zenon DEF StudyInv, PressureInv
<1>4. pressure.delay \in DOMAIN runs \cup {-1}
  BY DEF StudyInv, PressureInv, Study!NoPressure
<1>5. Study(kind)!TypeOK
  BY <1>1, <1>2, <1>3, <1>4, Zenon DEF Study!TypeOK
<1> QED
  BY <1>5, AcceptedSays, FollowingSays, TargetsAreHit, Zenon

(* The delay a report accepts was decided by the plan it shows, and the      *)
(* delays of every plan hit their targets.                                   *)
DecisionHolds(kind) ==
    /\ Study(kind)!TypeOK /\ Study(kind)!AcceptedIsDecided
    /\ Study(kind)!FollowingThePlanIsAccepted /\ Study(kind)!DelaysHitTargets

(* What a report on the queue pressure accepts was decided by its plan:      *)
(* every delay of it measured, pressure shown at the chosen one, none held   *)
(* or stale at a smaller one; whoever follows the plan at one commit is      *)
(* accepted; and the delays are within the rounding of their targets:        *)
(* whatever the timings, outcomes and headroom.                              *)
THEOREM DelaysAreDecided ==
    ASSUME NEW kind, Study(kind)!M4Assumption
    PROVE  Study(kind)!Spec => []DecisionHolds(kind)
<1>1. Study(kind)!Init => StudyInv(kind)
  BY StudyStarts
<1>2. StudyInv(kind) /\ [Study(kind)!Next]_(Study(kind)!vars) => StudyInv(kind)'
  BY StudyKept
<1>3. StudyInv(kind) => DecisionHolds(kind)
  BY StudySays, Zenon DEF DecisionHolds
<1> QED
  BY <1>1, <1>2, <1>3, PTL DEF Study!Spec

-----------------------------------------------------------------------------
(* The blocking baseline, whose pacing the loop shares.                      *)
CONSTANTS Period, Chunk, Horizon, Latencies, StepTimes, MaxJitter
VARIABLES stage, now, scheduled, first, chunk, steps, missed, dispatched
Baseline == INSTANCE SyncEpisode WITH epoch <- first, pending <- chunk, step <- steps

Meant == [observed : Nat, offset : Nat]
Done == [tick : Nat, at : Nat, action : Meant]
PacedType ==
    /\ stage \in {"loop", "dispatch", "done"}
    /\ now \in Nat /\ scheduled \in Nat /\ first \in Nat \cup {-1} /\ missed \in Nat
    /\ chunk \in Seq(Meant) /\ Len(chunk) <= Chunk
    /\ steps \in 0..Horizon /\ dispatched \in Seq(Done) /\ Len(dispatched) = steps

(* Before the first delivery there is nothing; an action is dispatched from  *)
(* what is left, less than a period and the jitter after its tick.           *)
Started ==
    /\ first = -1 => steps = 0 /\ missed = 0 /\ chunk = <<>> /\ stage # "dispatch"
    /\ stage = "dispatch" => /\ chunk # <<>> /\ steps < Horizon
                             /\ scheduled <= now /\ now < scheduled + Period + MaxJitter

(* What is left is meant for the coming steps, of an observation taken when  *)
(* a whole number of chunks was used up.                                     *)
LeftAt(i) ==
    chunk[i].observed + chunk[i].offset = steps + i - 1 /\ chunk[i].observed % Chunk = 0
Left ==
    /\ \A i \in 1..Len(chunk) : LeftAt(i)
    /\ \E m \in Nat : steps + Len(chunk) = m * Chunk

(* No tick is given twice.                                                   *)
NextTick ==
    steps > 0 /\ stage # "done" => dispatched[steps].tick + Period <= scheduled

PacingInv ==
    /\ PacedType /\ Started /\ Left /\ NextTick
    /\ Baseline!TicksAccounted /\ Baseline!OnItsTick /\ Baseline!OpenLoopInOrder

LEMMA WholePeriods ==
    ASSUME NEW x \in Nat, NEW p \in Nat, p > 0
    PROVE  x \div p \in Nat /\ (x \div p) * p <= x /\ x < (x \div p) * p + p
OBVIOUS

LEMMA WholeChunks ==
    ASSUME NEW m \in Nat, NEW c \in Nat, c > 0
    PROVE  (m * c) % c = 0 /\ m * c + c = (m + 1) * c
OBVIOUS

LEMMA NothingYet == ASSUME NEW x \in Nat, NEW p \in Nat PROVE x + p * (0 + 0) = x
OBVIOUS

LEMMA PacingStarts == ASSUME Baseline!SyncAssumption, Baseline!Init PROVE PacingInv
<1> USE DEF Baseline!SyncAssumption, Baseline!Init
<1>1. PacedType
  BY DEF PacedType
<1>2. Started /\ NextTick
  BY DEF Started, NextTick
<1>3. Left
  <2>1. 0 \in Nat /\ steps + Len(chunk) = 0 * Chunk
    OBVIOUS
  <2>2. \A i \in 1..Len(chunk) : LeftAt(i)
    OBVIOUS
  <2> QED
    BY <2>1, <2>2, Zenon DEF Left
<1>4. Baseline!TicksAccounted
  BY DEF Baseline!TicksAccounted
<1>5. Baseline!OnItsTick /\ Baseline!OpenLoopInOrder
  BY DEF Baseline!OnItsTick, Baseline!OpenLoopInOrder
<1> QED
  BY <1>1, <1>2, <1>3, <1>4, <1>5, Zenon DEF PacingInv

LEMMA InferPaced ==
    ASSUME Baseline!SyncAssumption, PacingInv, NEW latency \in Latencies, Baseline!Infer(latency)
    PROVE  PacingInv'
<1> DEFINE new == [i \in 1..Chunk |-> [observed |-> steps, offset |-> i - 1]]
<1>0. /\ Period \in Nat /\ Chunk \in Nat /\ Chunk > 0 /\ Horizon \in Nat /\ MaxJitter \in Nat
      /\ latency \in Nat
  BY DEF Baseline!SyncAssumption
<1>1. /\ PacedType /\ Started /\ Left /\ NextTick
      /\ Baseline!TicksAccounted /\ Baseline!OnItsTick /\ Baseline!OpenLoopInOrder
  BY Zenon DEF PacingInv
<1>2. /\ stage = "loop" /\ steps < Horizon /\ chunk = <<>> /\ now' = now + latency
      /\ chunk' = new /\ UNCHANGED <<stage, steps, missed, dispatched>>
      /\ IF first = -1 THEN first' = now' /\ scheduled' = now' ELSE UNCHANGED <<first, scheduled>>
  BY Zenon DEF Baseline!Infer
<1>3. /\ steps \in Nat /\ now \in Nat /\ scheduled \in Nat /\ missed \in Nat
      /\ first \in Nat \cup {-1} /\ Len(dispatched) = steps /\ dispatched \in Seq(Done)
  BY <1>0, <1>1 DEF PacedType
<1>4. new \in Seq(Meant) /\ Len(new) = Chunk /\ \A i \in 1..Chunk : new[i].observed = steps
                                                      /\ new[i].offset = i - 1
  BY <1>0, <1>3 DEF Meant
<1> HIDE DEF new
<1>5. first' \in Nat /\ scheduled' \in Nat /\ now' \in Nat
  BY <1>0, <1>2, <1>3
<1>6. PacedType'
  BY <1>0, <1>1, <1>2, <1>4, <1>5 DEF PacedType
<1>7. Started'
  BY <1>2, <1>5 DEF Started
<1>8. Left'
  <2>1. PICK m \in Nat : steps + Len(chunk) = m * Chunk
    BY <1>1, Zenon DEF Left
  <2>2. steps = m * Chunk
    BY <1>2, <1>3, <2>1
  <2>3. steps % Chunk = 0 /\ steps + Chunk = (m + 1) * Chunk /\ m + 1 \in Nat
    BY <1>0, <2>2, WholeChunks
  <2>4. ASSUME NEW i \in 1..Len(chunk') PROVE LeftAt(i)'
    <3>1. i \in 1..Chunk /\ chunk'[i].observed = steps /\ chunk'[i].offset = i - 1 /\ steps' = steps
      BY <1>2, <1>4
    <3>2. steps + (i - 1) = steps + i - 1
      BY <1>0, <1>3, <3>1
    <3> QED
      BY <2>3, <3>1, <3>2, Zenon DEF LeftAt
  <2>5. steps' + Len(chunk') = (m + 1) * Chunk
    BY <1>2, <1>4, <2>3, Zenon
  <2> QED
    BY <2>3, <2>4, <2>5, Zenon DEF Left
<1>9. NextTick' /\ Baseline!TicksAccounted'
  <2>1. CASE first = -1
    <3>1. steps = 0 /\ missed = 0 /\ scheduled' = first'
      BY <1>1, <1>2, <2>1 DEF Started
    <3>2. steps' = 0 /\ missed' = 0 /\ ~(steps' > 0)
      BY <1>2, <3>1
    <3>3. first' + Period * (steps' + missed') = first'
      <4>1. first' + Period * (0 + 0) = first'
        BY <1>0, <1>5, NothingYet
      <4> QED
        BY <3>2, <4>1, Zenon
    <3> QED
      BY <3>1, <3>2, <3>3, Zenon DEF NextTick, Baseline!TicksAccounted
  <2>2. CASE first # -1
    <3>1. UNCHANGED <<first, scheduled>>
      BY <1>2, <2>2, Zenon
    <3> QED
      BY <1>1, <1>2, <3>1, Zenon DEF NextTick, Baseline!TicksAccounted
  <2> QED
    BY <2>1, <2>2
<1>10. Baseline!OnItsTick' /\ Baseline!OpenLoopInOrder'
  BY <1>1, <1>2, Zenon DEF Baseline!OnItsTick, Baseline!OpenLoopInOrder
<1> QED
  BY <1>6, <1>7, <1>8, <1>9, <1>10, Zenon DEF PacingInv

LEMMA PacePaced ==
    ASSUME Baseline!SyncAssumption, PacingInv, NEW jitter \in 0..MaxJitter, Baseline!Pace(jitter)
    PROVE  PacingInv'
<1> DEFINE skipped == Baseline!Missed
<1>0. /\ Period \in Nat /\ Period > 0 /\ MaxJitter \in Nat /\ jitter \in Nat
      /\ jitter <= MaxJitter /\ Horizon \in Nat
  BY DEF Baseline!SyncAssumption
<1>1. /\ PacedType /\ Started /\ Left /\ NextTick
      /\ Baseline!TicksAccounted /\ Baseline!OnItsTick /\ Baseline!OpenLoopInOrder
  BY Zenon DEF PacingInv
<1>2. /\ stage = "loop" /\ chunk # <<>> /\ steps < Horizon
      /\ missed' = missed + skipped /\ scheduled' = scheduled + skipped * Period
      /\ now' = Baseline!Later(now + jitter, scheduled') /\ stage' = "dispatch"
      /\ UNCHANGED <<first, chunk, steps, dispatched>>
  BY Zenon DEF Baseline!Pace
<1>3. /\ steps \in Nat /\ now \in Nat /\ scheduled \in Nat /\ missed \in Nat
      /\ first \in Nat \cup {-1} /\ dispatched \in Seq(Done) /\ Len(dispatched) = steps
  BY <1>0, <1>1 DEF PacedType
<1>4. /\ skipped \in Nat /\ skipped * Period \in Nat
      /\ now <= scheduled => skipped * Period = 0
      /\ now > scheduled => scheduled + skipped * Period <= now
                            /\ now < scheduled + skipped * Period + Period
  <2>1. CASE now <= scheduled
    BY <1>0, <1>3, <2>1 DEF Baseline!Missed
  <2>2. CASE now > scheduled
    <3>1. now - scheduled \in Nat /\ skipped = (now - scheduled) \div Period
      BY <1>3, <2>2 DEF Baseline!Missed
    <3>2. /\ skipped \in Nat /\ skipped * Period <= now - scheduled
          /\ now - scheduled < skipped * Period + Period
      BY <1>0, <3>1, WholePeriods
    <3>3. skipped * Period \in Nat
      BY <1>0, <3>2
    <3> HIDE DEF skipped
    <3> QED
      BY <1>0, <1>3, <2>2, <3>2, <3>3
  <2> QED
    BY <1>3, <2>1, <2>2
<1> HIDE DEF skipped
<1>5. /\ scheduled' \in Nat /\ now' \in Nat /\ missed' \in Nat
      /\ scheduled' <= now' /\ now' < scheduled' + Period + MaxJitter /\ scheduled' >= scheduled
  BY <1>0, <1>2, <1>3, <1>4 DEF Baseline!Later
<1>6. PacedType'
  BY <1>1, <1>2, <1>5 DEF PacedType
<1>7. Started'
  BY <1>1, <1>2, <1>5 DEF Started
<1>8. Left'
  BY <1>1, <1>2, Zenon DEF Left, LeftAt
<1>9. NextTick'
  <2>1. steps > 0 => steps \in 1..Len(dispatched)
    BY <1>3
  <2>2. steps > 0 => dispatched[steps] \in Done
    BY <1>3, <2>1
  <2>3. steps > 0 => dispatched[steps].tick \in Nat
    BY <2>2 DEF Done
  <2>4. UNCHANGED <<steps, dispatched>> /\ (steps > 0 => stage # "done")
    BY <1>1, <1>2, Zenon
  <2>5. steps > 0 => dispatched[steps].tick + Period <= scheduled
    BY <1>1, <2>4, Zenon DEF NextTick
  <2>6. steps > 0 => dispatched[steps].tick + Period <= scheduled'
    BY <1>0, <1>3, <1>5, <2>3, <2>5
  <2> QED
    BY <2>4, <2>6, Zenon DEF NextTick
<1>10. Baseline!TicksAccounted'
  <2>1. first # -1 => scheduled = first + Period * (steps + missed)
    BY <1>1, <1>2 DEF Baseline!TicksAccounted
  <2>2. first # -1 => scheduled' = first + Period * (steps + missed')
    BY <1>0, <1>2, <1>3, <1>4, <2>1
  <2> QED
    BY <1>2, <2>2 DEF Baseline!TicksAccounted
<1>11. Baseline!OnItsTick' /\ Baseline!OpenLoopInOrder'
  BY <1>1, <1>2, Zenon DEF Baseline!OnItsTick, Baseline!OpenLoopInOrder
<1> QED
  BY <1>6, <1>7, <1>8, <1>9, <1>10, <1>11, Zenon DEF PacingInv

LEMMA DispatchPaced ==
    ASSUME Baseline!SyncAssumption, PacingInv, NEW duration \in StepTimes, NEW ends \in BOOLEAN,
           Baseline!Dispatch(duration, ends)
    PROVE  PacingInv'
<1> DEFINE entry == [tick |-> scheduled, at |-> now, action |-> Head(chunk)]
<1>0. /\ Period \in Nat /\ Period > 0 /\ Chunk \in Nat /\ Chunk > 0 /\ MaxJitter \in Nat
      /\ duration \in Nat /\ Horizon \in Nat
  BY DEF Baseline!SyncAssumption
<1>1. /\ PacedType /\ Started /\ Left /\ NextTick
      /\ Baseline!TicksAccounted /\ Baseline!OnItsTick /\ Baseline!OpenLoopInOrder
  BY Zenon DEF PacingInv
<1>2. /\ stage = "dispatch" /\ dispatched' = Append(dispatched, entry) /\ chunk' = Tail(chunk)
      /\ now' = now + duration /\ steps' = steps + 1 /\ UNCHANGED <<first, missed>>
      /\ \/ stage' = "done" /\ scheduled' = scheduled
         \/ stage' = "loop" /\ scheduled' = scheduled + Period
  BY Zenon DEF Baseline!Dispatch, Baseline!NextAction
<1>3. /\ steps \in Nat /\ now \in Nat /\ scheduled \in Nat /\ missed \in Nat
      /\ first \in Nat \cup {-1} /\ dispatched \in Seq(Done) /\ Len(dispatched) = steps
      /\ chunk \in Seq(Meant) /\ Len(chunk) <= Chunk /\ chunk # <<>> /\ steps < Horizon
      /\ scheduled <= now /\ now < scheduled + Period + MaxJitter
  BY <1>0, <1>1, <1>2 DEF PacedType, Started
<1>4. /\ chunk' \in Seq(Meant) /\ Len(chunk) \in Nat /\ Len(chunk) > 0
      /\ Len(chunk') = Len(chunk) - 1 /\ Head(chunk) = chunk[1] /\ chunk[1] \in Meant
      /\ \A i \in 1..Len(chunk') : chunk'[i] = chunk[i + 1]
  BY <1>2, <1>3
<1>5. entry \in Done
  BY <1>3, <1>4 DEF Done
<1> HIDE DEF entry
<1>6. /\ dispatched' \in Seq(Done) /\ Len(dispatched') = steps + 1
      /\ dispatched'[steps + 1] = entry
      /\ \A n \in 1..steps : dispatched'[n] = dispatched[n]
  BY <1>2, <1>3, <1>5
<1>7. scheduled' \in Nat /\ now' \in Nat /\ steps' \in 0..Horizon /\ steps' = steps + 1
  BY <1>0, <1>2, <1>3
<1>8. PacedType'
  BY <1>0, <1>2, <1>3, <1>4, <1>6, <1>7 DEF PacedType
<1>9. Started'
  <2>1. first # -1
    BY <1>1, <1>2 DEF Started
  <2> QED
    BY <1>2, <2>1 DEF Started
<1>10. Left'
  <2>1. PICK m \in Nat : steps + Len(chunk) = m * Chunk
    BY <1>1, Zenon DEF Left
  <2>2. steps' + Len(chunk') = m * Chunk
    <3>1. steps + 1 + (Len(chunk) - 1) = steps + Len(chunk)
      BY <1>3, <1>4
    <3> QED
      BY <1>2, <1>4, <2>1, <3>1, Zenon
  <2>3. ASSUME NEW i \in 1..Len(chunk') PROVE LeftAt(i)'
    <3>1. i + 1 \in 1..Len(chunk) /\ chunk'[i] = chunk[i + 1]
      BY <1>4
    <3>2. LeftAt(i + 1)
      BY <1>1, <3>1, Zenon DEF Left
    <3>3. steps + (i + 1) - 1 = steps' + i - 1
      BY <1>2, <1>3
    <3> QED
      BY <3>1, <3>2, <3>3, Zenon DEF LeftAt
  <2> QED
    BY <2>2, <2>3, Zenon DEF Left
<1>11. entry.tick = scheduled /\ entry.at = now /\ entry.action = chunk[1]
  BY <1>4 DEF entry
<1>12. NextTick'
  BY <1>2, <1>3, <1>6, <1>7, <1>11 DEF NextTick
<1>13. Baseline!TicksAccounted'
  <2>1. first # -1 => scheduled = first + Period * (steps + missed)
    BY <1>1, <1>2 DEF Baseline!TicksAccounted
  <2>2. first # -1 => scheduled + Period = first + Period * (steps + 1 + missed)
    BY <1>0, <1>3, <2>1
  <2> QED
    BY <1>2, <2>2, Zenon DEF Baseline!TicksAccounted
<1>14. ASSUME NEW n \in 1..Len(dispatched') PROVE n \in 1..steps \/ n = steps + 1
  BY <1>3, <1>6
<1>15. Baseline!OnItsTick'
  <2> DEFINE InTime(n) == /\ dispatched[n].at >= dispatched[n].tick
                          /\ dispatched[n].at < dispatched[n].tick + Period + MaxJitter
                          /\ n > 1 => dispatched[n].tick >= dispatched[n - 1].tick + Period
  <2>1. \A n \in 1..steps : InTime(n)
    BY <1>1, <1>3, Zenon DEF Baseline!OnItsTick
  <2>2. ASSUME NEW n \in 1..steps PROVE InTime(n)'
    <3>1. dispatched'[n] = dispatched[n] /\ (n > 1 => dispatched'[n - 1] = dispatched[n - 1])
      <4>1. n > 1 => n - 1 \in 1..steps
        BY <1>3
      <4> QED
        BY <1>6, <4>1, Zenon
    <3> QED
      BY <2>1, <3>1, Zenon
  <2>3. ASSUME NEW n, n = steps + 1 PROVE InTime(n)'
    <3>1. dispatched'[n] = entry
      BY <1>6, <2>3, Zenon
    <3>2. n > 1 => scheduled >= dispatched'[n - 1].tick + Period
      <4> SUFFICES ASSUME steps > 0 PROVE scheduled >= dispatched'[steps].tick + Period
        BY <1>3, <2>3
      <4>1. steps \in 1..steps
        BY <1>3
      <4>2. dispatched'[steps] = dispatched[steps] /\ dispatched[steps] \in Done
        BY <1>3, <1>6, <4>1
      <4>3. dispatched[steps].tick \in Nat
        BY <4>2 DEF Done
      <4>4. dispatched[steps].tick + Period <= scheduled
        BY <1>1, <1>2 DEF NextTick
      <4> QED
        BY <1>0, <1>3, <4>2, <4>3, <4>4
    <3> QED
      BY <1>0, <1>3, <1>11, <3>1, <3>2
  <2> HIDE DEF InTime
  <2>4. \A n \in 1..Len(dispatched') : InTime(n)'
    BY <1>14, <2>2, <2>3, Zenon
  <2> QED
    BY <2>4, Zenon DEF Baseline!OnItsTick, InTime
<1>16. Baseline!OpenLoopInOrder'
  <2> DEFINE Fits(n) == /\ dispatched[n].action.observed + dispatched[n].action.offset = n - 1
                        /\ dispatched[n].action.observed % Chunk = 0
  <2>1. \A n \in 1..steps : Fits(n)
    BY <1>1, <1>3, Zenon DEF Baseline!OpenLoopInOrder
  <2>2. ASSUME NEW n \in 1..steps PROVE Fits(n)'
    BY <1>6, <2>1, Zenon
  <2>3. ASSUME NEW n, n = steps + 1 PROVE Fits(n)'
    <3>1. dispatched'[n].action = chunk[1]
      BY <1>6, <1>11, <2>3, Zenon
    <3>2. LeftAt(1) /\ steps + 1 - 1 = n - 1
      <4>1. 1 \in 1..Len(chunk) /\ steps + 1 - 1 = n - 1
        BY <1>3, <1>4, <2>3
      <4> QED
        BY <1>1, <4>1, Zenon DEF Left
    <3> QED
      BY <3>1, <3>2, Zenon DEF LeftAt
  <2> HIDE DEF Fits
  <2>4. \A n \in 1..Len(dispatched') : Fits(n)'
    BY <1>14, <2>2, <2>3, Zenon
  <2> QED
    BY <2>4, Zenon DEF Baseline!OpenLoopInOrder, Fits
<1> QED
  BY <1>8, <1>9, <1>10, <1>12, <1>13, <1>15, <1>16, Zenon DEF PacingInv

LEMMA PacingKeeps ==
    ASSUME Baseline!SyncAssumption, PacingInv, [Baseline!Next]_(Baseline!vars)
    PROVE  PacingInv'
<1>1. ASSUME NEW latency \in Latencies, Baseline!Infer(latency) PROVE PacingInv'
  BY <1>1, InferPaced, Zenon
<1>2. ASSUME NEW jitter \in 0..MaxJitter, Baseline!Pace(jitter) PROVE PacingInv'
  BY <1>2, PacePaced, Zenon
<1>3. ASSUME NEW duration \in StepTimes, NEW ends \in BOOLEAN, Baseline!Dispatch(duration, ends)
      PROVE  PacingInv'
  BY <1>3, DispatchPaced, Zenon
<1>4. CASE Baseline!Truncate
  <2>1. stage = "loop" /\ stage' = "done"
        /\ UNCHANGED <<now, scheduled, first, chunk, steps, missed, dispatched>>
    BY <1>4, Zenon DEF Baseline!Truncate
  <2>2. PacedType' /\ Started' /\ NextTick'
    BY <2>1 DEF PacingInv, PacedType, Started, NextTick
  <2>3. Left' /\ Baseline!TicksAccounted' /\ Baseline!OnItsTick' /\ Baseline!OpenLoopInOrder'
    BY <2>1, Zenon DEF PacingInv, Left, LeftAt, Baseline!TicksAccounted, Baseline!OnItsTick,
       Baseline!OpenLoopInOrder
  <2> QED
    BY <2>2, <2>3, Zenon DEF PacingInv
<1>5. CASE UNCHANGED Baseline!vars
  BY <1>5, Zenon DEF Baseline!vars, PacingInv, PacedType, Started, Left, LeftAt, NextTick,
     Baseline!TicksAccounted, Baseline!OnItsTick, Baseline!OpenLoopInOrder
<1> QED
  BY <1>1, <1>2, <1>3, <1>4, <1>5, Zenon DEF Baseline!Next

LEMMA PacingSays ==
    ASSUME Baseline!SyncAssumption, PacingInv
    PROVE  /\ Baseline!TypeOK /\ Baseline!TicksAccounted
           /\ Baseline!OnItsTick /\ Baseline!OpenLoopInOrder
BY DEF PacingInv, PacedType, Baseline!TypeOK, Baseline!SyncAssumption

(* For every period, chunk, horizon and duration: the blocking baseline acts *)
(* on its ticks, never early and less than a period and the jitter late, no  *)
(* tick twice; each tick is an action or a counted miss; and the n-th step   *)
(* executes the action meant for it.                                         *)
THEOREM BaselineKeepsTime ==
    ASSUME Baseline!SyncAssumption
    PROVE  Baseline!Spec => [](/\ Baseline!TypeOK /\ Baseline!TicksAccounted
                               /\ Baseline!OnItsTick /\ Baseline!OpenLoopInOrder)
<1>1. Baseline!Init => PacingInv
  BY PacingStarts
<1>2. PacingInv /\ [Baseline!Next]_(Baseline!vars) => PacingInv'
  BY PacingKeeps
<1>3. PacingInv => /\ Baseline!TypeOK /\ Baseline!TicksAccounted
                   /\ Baseline!OnItsTick /\ Baseline!OpenLoopInOrder
  BY PacingSays
<1> QED
  BY <1>1, <1>2, <1>3, PTL DEF Baseline!Spec
=============================================================================
