---------------------------- MODULE ModelSelection ----------------------------
(***************************************************************************)
(* The training loops of the completion models: completion_v2.train        *)
(* ("first"), completion_adapt.train ("adapted") and                       *)
(* train_visual_completion.train ("visual").  Each epoch optimises the     *)
(* network, scores it on the validation episodes, appends the score to     *)
(* metrics.jsonl and keeps the checkpoint when its key is the smallest so  *)
(* far; the adapted one also runs the simulator on from every stop its     *)
(* network would make, once per stop.  frozen.json is written after the    *)
(* last epoch and names the kept checkpoint.  The run can be killed        *)
(* between any two writes and inside a torch.save; the directory it leaves *)
(* is never reused (EvidenceChain).                                        *)
(*                                                                         *)
(* A network is its epoch; what it decides of the validation images is any *)
(* member of Opinions.                                                     *)
(***************************************************************************)
EXTENDS Integers, Sequences, FiniteSets, FiniteSetsExt

CONSTANTS
    Trainer,        \* "first", "adapted" or "visual"
    Epochs,
    Episodes,       \* the adapted trainer's validation episodes
    Truth,          \* episode -> control -> strictly complete
    HoldsOn,        \* <<episode, control>> -> stopping there keeps it complete
    MinCompleted,   \* minimum_completed_validation_episodes
    MaxDelay,       \* max_confirmation_delay_s, in controls
    Opinions,       \* decisions of a network: [Episodes -> SUBSET Controls]
    Auxiliaries,    \* [false, confident]: errors on the auxiliary samples
    Keys            \* the other trainers: tuples of metrics

SelectionAssumption ==
    /\ Trainer \in {"first", "adapted", "visual"}
    /\ Epochs \in Nat \ {0} /\ {MinCompleted, MaxDelay} \subseteq Nat
    /\ IsFiniteSet(Episodes) /\ \A e \in Episodes : DOMAIN Truth[e] \subseteq Nat
    /\ \A o \in Opinions : \A e \in Episodes : o[e] \subseteq DOMAIN Truth[e]
    /\ \A aux \in Auxiliaries : {aux.false, aux.confident} \subseteq Nat
    /\ Keys \subseteq Seq(Int) \ {<<>>} /\ \A k, l \in Keys : Len(k) = Len(l)

VARIABLES
    pc, epoch,
    opinion,     \* the decisions of this epoch's network
    todo,        \* episodes not yet scored in this epoch
    events,      \* episode -> its metrics in this epoch
    postCache,   \* <<episode, claim>> -> the probe's verdict
    key, best,   \* this epoch's key, and the smallest so far; <<>> is None
    selected,    \* the epoch it is of
    log,         \* metrics.jsonl: [key, events]
    bestFile, predictions, lastFile,    \* the epoch a file is of; 0 absent
    probed,      \* <<episode, claim>> -> simulator runs
    frozen       \* frozen.json: the epoch it names; 0 absent

memory == <<epoch, opinion, todo, events, postCache, key, best, selected>>
disk == <<log, bestFile, predictions, lastFile, probed, frozen>>
vars == <<pc, memory, disk>>

None == -1
Torn == -1
Nothing == [e \in {} |-> 0]

Init ==
    /\ pc = "train" /\ epoch = 1
    /\ opinion = Nothing /\ todo = {} /\ events = Nothing /\ postCache = Nothing
    /\ key = <<>> /\ best = <<>> /\ selected = 0
    /\ log = <<>> /\ bestFile = 0 /\ predictions = 0 /\ lastFile = 0
    /\ probed = Nothing /\ frozen = 0

-----------------------------------------------------------------------------
(* Scores of the adapted trainer *)

FirstOf(S) == IF S = {} THEN None ELSE Min(S)
FirstTruth(e) == FirstOf({c \in DOMAIN Truth[e] : Truth[e][c]})

(* episode_metrics *)
Metrics(e, claims, post) ==
    LET claim == FirstOf(claims)
        premature == claim # None /\ ~Truth[e][claim]
        ready == FirstTruth(e)
    IN [claim |-> claim,
        premature |-> premature,
        missed |-> ready # None /\ ~\E c \in claims : Truth[e][c],
        delay |-> IF ready # None /\ claim # None /\ ~premature
                  THEN claim - ready ELSE None,
        post |-> post]

Count(P(_)) == Cardinality({e \in Episodes : P(e)})
Completed == Count(LAMBDA e : FirstTruth(e) # None)
Premature(ev) == Count(LAMBDA e : ev[e].premature)
Missed(ev) == Count(LAMBDA e : ev[e].missed)
PostFailures(ev) == Count(LAMBDA e : ev[e].post = "unstable")
Late(ev) == Count(LAMBDA e : ev[e].delay > MaxDelay)
Delays(ev) == {ev[e].delay : e \in Episodes} \ {None}

(* gate_summary, without its record. *)
Passed(ev, aux) ==
    /\ Completed >= MinCompleted
    /\ Premature(ev) = 0 /\ Missed(ev) = 0 /\ PostFailures(ev) = 0 /\ Late(ev) = 0
    /\ aux.false = 0 /\ aux.confident = 0

(* selection_key *)
SelectionKey(ev, aux) ==
    <<IF Passed(ev, aux) THEN 0 ELSE 1, Premature(ev), Missed(ev),
      PostFailures(ev), Late(ev), aux.false, aux.confident,
      IF Delays(ev) = {} THEN 999 ELSE Max(Delays(ev))>>

(* Tuples compare by their first difference. *)
Less(a, b) ==
    \E i \in DOMAIN a : a[i] < b[i] /\ \A j \in 1..(i - 1) : a[j] = b[j]

-----------------------------------------------------------------------------
(* An epoch *)

(* A loss that is not finite ends the run. *)
LossFails ==
    /\ pc = "train" /\ pc' = "failed"
    /\ UNCHANGED <<memory, disk>>

(* The optimiser's steps; the adapted trainer then goes through the episodes. *)
Optimise ==
    /\ pc = "train" /\ Trainer # "adapted"
    /\ pc' = "score" /\ events' = Nothing
    /\ UNCHANGED <<epoch, opinion, todo, postCache, key, best, selected, disk>>
Adapt ==
    /\ pc = "train" /\ Trainer = "adapted"
    /\ opinion' \in Opinions /\ todo' = Episodes /\ events' = Nothing
    /\ pc' = "score"
    /\ UNCHANGED <<epoch, postCache, key, best, selected, disk>>

Cached(e) ==
    LET claim == FirstOf(opinion[e])
    IN IF <<e, claim>> \in DOMAIN postCache THEN postCache[<<e, claim>>] ELSE "none"

(* The simulator is run on from the stop, unless it was before. *)
Probe(e) ==
    LET at == <<e, FirstOf(opinion[e])>>
    IN /\ pc = "score" /\ e \in todo
       /\ at[2] # None /\ at \notin DOMAIN postCache
       /\ \/ /\ pc' = "failed" /\ UNCHANGED <<postCache, probed>>
          \/ /\ postCache' = [x \in DOMAIN postCache \cup {at} |->
                                IF x = at
                                THEN IF HoldsOn[at] THEN "stable" ELSE "unstable"
                                ELSE postCache[x]]
             /\ probed' = [x \in DOMAIN probed \cup {at} |->
                             IF x \notin DOMAIN probed THEN 1
                             ELSE IF x = at THEN probed[x] + 1 ELSE probed[x]]
             /\ UNCHANGED pc
       /\ UNCHANGED <<epoch, opinion, todo, events, key, best, selected, log,
                      bestFile, predictions, lastFile, frozen>>

ScoreEpisode(e) ==
    /\ pc = "score" /\ e \in todo
    /\ FirstOf(opinion[e]) = None \/ <<e, FirstOf(opinion[e])>> \in DOMAIN postCache
    /\ events' = [x \in DOMAIN events \cup {e} |->
                    IF x = e THEN Metrics(e, opinion[e], Cached(e)) ELSE events[x]]
    /\ todo' = todo \ {e}
    /\ UNCHANGED <<pc, epoch, opinion, postCache, key, best, selected, disk>>

(* metrics.jsonl grows by a line. *)
Record ==
    /\ pc = "score" /\ todo = {}
    /\ IF Trainer = "adapted"
       THEN \E aux \in Auxiliaries : key' = SelectionKey(events, aux)
       ELSE key' \in Keys
    /\ log' = Append(log, [key |-> key', events |-> events])
    /\ pc' = IF Trainer = "visual" THEN "last" ELSE "compare"
    /\ UNCHANGED <<epoch, opinion, todo, events, postCache, best, selected,
                   bestFile, predictions, lastFile, probed, frozen>>

(* Slip: the latest of equals is kept. *)
ImprovesOrEquals == best = <<>> \/ ~Less(best, key)
Improves == best = <<>> \/ Less(key, best)

AfterBest ==
    IF Trainer # "visual" THEN "last" ELSE IF epoch = Epochs THEN "freeze" ELSE "next"

Compare ==
    /\ pc = "compare"
    /\ IF Improves
       THEN best' = key /\ selected' = epoch /\ bestFile' = Torn /\ pc' = "best"
       ELSE pc' = AfterBest /\ UNCHANGED <<best, selected, bestFile>>
    /\ UNCHANGED <<epoch, opinion, todo, events, postCache, key, log, predictions,
                   lastFile, probed, frozen>>

SaveBest ==
    /\ pc = "best" /\ bestFile' = epoch
    /\ pc' = IF Trainer = "adapted" THEN "predictions" ELSE AfterBest
    /\ UNCHANGED <<memory, log, predictions, lastFile, probed, frozen>>

(* selected_predictions.json and selected_auxiliary.json *)
SavePredictions ==
    /\ pc = "predictions" /\ predictions' = epoch /\ pc' = AfterBest
    /\ UNCHANGED <<memory, log, bestFile, lastFile, probed, frozen>>

(* last.pt; only the visual trainer replaces it in one step. *)
SaveLast ==
    /\ pc = "last"
    /\ IF Trainer # "visual" /\ lastFile # Torn
       THEN lastFile' = Torn /\ UNCHANGED pc
       ELSE /\ lastFile' = epoch
            /\ pc' = IF Trainer = "visual" THEN "compare"
                     ELSE IF epoch = Epochs THEN "freeze" ELSE "next"
    /\ UNCHANGED <<memory, log, bestFile, predictions, probed, frozen>>

NextEpoch ==
    /\ pc = "next" /\ epoch' = epoch + 1 /\ pc' = "train"
    /\ UNCHANGED <<opinion, todo, events, postCache, key, best, selected, disk>>

(* The first trainer reads the epoch from best.pt, the adapted one from       *)
(* memory; the visual one's finished.json names the last epoch.               *)
Freeze ==
    /\ pc = "freeze" /\ pc' = "over"
    /\ frozen' = CASE Trainer = "first" -> bestFile
                   [] Trainer = "adapted" -> selected
                   [] Trainer = "visual" -> epoch
    /\ UNCHANGED <<memory, log, bestFile, predictions, lastFile, probed>>

Over == pc \in {"over", "failed", "killed"}
Kill ==
    /\ ~Over /\ pc' = "killed"
    /\ UNCHANGED <<memory, disk>>

Next ==
    \/ LossFails \/ Optimise \/ Adapt
    \/ (\E e \in Episodes : Probe(e) \/ ScoreEpisode(e))
    \/ Record \/ Compare \/ SaveBest \/ SavePredictions \/ SaveLast
    \/ NextEpoch \/ Freeze \/ Kill

Spec == Init /\ [][Next]_vars

-----------------------------------------------------------------------------
(* Types. *)
TypeOK ==
    /\ epoch \in 1..Epochs /\ Len(log) \in {epoch - 1, epoch}
    /\ {bestFile, predictions, lastFile} \subseteq {Torn} \cup 0..epoch
    /\ frozen \in 0..epoch /\ selected \in 0..epoch
    /\ DOMAIN probed = DOMAIN postCache
    /\ \A e \in DOMAIN events : events[e].delay \in {None} \cup Nat

FirstBest(n) ==
    CHOOSE i \in 1..n :
      /\ \A j \in 1..n : ~Less(log[j].key, log[i].key)
      /\ \A j \in 1..(i - 1) : Less(log[i].key, log[j].key)

(* What is frozen is the earliest of the smallest keys over all epochs, its   *)
(* checkpoint is in best.pt whole, the predictions beside it are that         *)
(* network's own, and none is frozen that misses the gate while another epoch *)
(* met it.                                                                    *)
FrozenIsTheBest ==
    frozen # 0 /\ Trainer # "visual" =>
      /\ Len(log) = Epochs
      /\ frozen = FirstBest(Epochs) /\ bestFile = frozen
      /\ Trainer = "adapted" => predictions = frozen
      /\ Trainer = "adapted" /\ (\E i \in DOMAIN log : log[i].key[1] = 0)
         => log[frozen].key[1] = 0

(* Whenever the run stops, best.pt is torn, or it is the best of the epochs   *)
(* recorded, or of those but the last.                                        *)
BestFollowsTheLog ==
    bestFile > 0 =>
      \/ bestFile = FirstBest(Len(log))
      \/ Len(log) > 1 /\ bestFile = FirstBest(Len(log) - 1)

(* Every stop is scored by what the simulator did from that very stop,        *)
(* whichever epoch's network made it first, and no stop is simulated twice.   *)
StopsAreTheirOwn ==
    /\ \A i \in DOMAIN log : \A e \in DOMAIN log[i].events :
         LET m == log[i].events[e]
         IN m.post = IF m.claim = None THEN "none"
                     ELSE IF HoldsOn[<<e, m.claim>>] THEN "stable" ELSE "unstable"
    /\ \A at \in DOMAIN probed : probed[at] = 1

(* A model that is frozen with the gate met never stops before the task is    *)
(* done, stops wherever it is done, and soon after, and stays done.           *)
FrozenPassIsSafe ==
    frozen # 0 /\ Trainer = "adapted" =>
      (log[frozen].key[1] = 0 =>
        \A e \in Episodes :
          LET m == log[frozen].events[e]
          IN IF FirstTruth(e) = None THEN m.claim = None
             ELSE /\ m.claim \in FirstTruth(e)..(FirstTruth(e) + MaxDelay)
                  /\ Truth[e][m.claim] /\ HoldsOn[<<e, m.claim>>])
=============================================================================
