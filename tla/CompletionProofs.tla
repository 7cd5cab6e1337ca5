-------------------------- MODULE CompletionProofs --------------------------
(***************************************************************************)
(* Proofs about the programs of the completion model: the confirmation,    *)
(* for every window and every length of episode, and the data it is        *)
(* trained and evaluated on, for every set of demonstrations and splits;   *)
(* the trainings, for every number of epochs and whatever their networks   *)
(* decide; about the gates before the native runs of the language VLA, for *)
(* every number of processes, phases and calls; about the runs of the      *)
(* native baseline, for every number of runs, episodes and steps; and      *)
(* about one language-conditioned execution, for every budget of controls  *)
(* and every interval between its checks.                                  *)
(***************************************************************************)
EXTENDS Confirmation, FiniteSetTheorems, WellFoundedInduction, TLAPS

CONSTANTS Episodes, SplitOf, Directories, Renderings, MaxPreparations, MaxCopies, MaxTrainings
VARIABLES shard, manifest, preparer, preparations, copies, trainer, checkpoints, frozen,
          evaluation
Data == INSTANCE VisualData

CONSTANTS Workers, Cases, TextGate, Answers, MinCorrect, MaxFalse, MinDecided, Protocol
VARIABLES receipts, scores, proc, calls
Gate == INSTANCE GateRuns WITH Decisions <- Answers, Episodes <- Protocol

CONSTANTS Epochs, Validation, Complete, Lasting, MinCompleted, MaxDelay, Opinions, Auxiliaries,
          Keys
VARIABLES training, epoch, opinion, todo, events, postCache, key, best, selected, log, bestFile,
          predictions, lastFile, probed, kept
Trained(kind) == INSTANCE ModelSelection WITH
    Trainer <- kind, Episodes <- Validation, Truth <- Complete, HoldsOn <- Lasting,
    pc <- training, frozen <- kept

CONSTANTS MaxRuns, Development, Cap, Chunk
VARIABLES attempt, batch, spot, struck, doing, draft, record, actions, raising, journal, onDisk,
          episodeFile, worlds
Baseline == INSTANCE NativeRun WITH
    run <- attempt, phase <- batch, pc <- spot, stage <- doing, receipt <- draft, disk <- onDisk,
    file <- episodeFile, world <- worlds

(* What update was told of a control. *)
Positive(k) == k \in DOMAIN decided /\ decided[k] = "complete"

ConfirmationType ==
    /\ last \in Controls \cup {None} /\ started \in Controls \cup {None}
    /\ decided \in [DOMAIN decided -> Decisions]
    /\ DOMAIN decided \subseteq 0..last
    /\ last # None => last \in DOMAIN decided
    /\ claimed \subseteq DOMAIN decided
    /\ truth \in [Controls -> BOOLEAN]

(* The candidate could not have started earlier. *)
IntervalIsMaximal == started # None => ~Positive(started - 1)

ConfirmationInv ==
    ConfirmationType /\ CandidateIsEvidence /\ IntervalIsMaximal /\ ClaimsAreContinuous

-----------------------------------------------------------------------------
(* The first of some controls *)

(* Min of a nonempty set of controls is its first. *)
LEMMA LeastElement ==
    ASSUME NEW S, S \subseteq Nat, S # {}
    PROVE  Min(S) \in S /\ \A c \in S : Min(S) <= c
<1> DEFINE Before == {pair \in Nat \X Nat : pair[1] < pair[2]}
<1>1. PICK first \in S : \A c \in S : <<c, first>> \notin Before
  <2>1. IsWellFoundedOn(Before, Nat)
    BY NatLessThanWellFounded, Zenon DEF OpToRel
  <2> HIDE DEF Before
  <2> QED
    BY <2>1, WFMin
<1>2. \A c \in S : first <= c
  <2> SUFFICES ASSUME NEW c \in S PROVE first <= c
    OBVIOUS
  <2>1. <<c, first>> \in Before <=> c < first
    OBVIOUS
  <2> QED
    BY <1>1, <2>1
<1> QED
  BY <1>2 DEF Min

LEMMA FirstIsLeast ==
    ASSUME NEW S, S \subseteq Nat
    PROVE  /\ S = {} => FirstOf(S) = None
           /\ S # {} => /\ FirstOf(S) \in S /\ FirstOf(S) \in Nat
                        /\ FirstOf(S) # None
                        /\ \A c \in S : FirstOf(S) <= c
<1>1. ASSUME S # {}
      PROVE  FirstOf(S) \in S /\ \A c \in S : FirstOf(S) <= c
  BY <1>1, LeastElement DEF FirstOf
<1>2. S = {} => FirstOf(S) = None
  BY DEF FirstOf
<1>3. \A c \in S : c \in Nat /\ c # None
  BY DEF None
<1> QED
  BY <1>1, <1>2, <1>3

-----------------------------------------------------------------------------
(* What one update does to the history *)

(* The history before the update is not rewritten, and the new control says *)
(* what it was told.                                                        *)
LEMMA HistoryGrows ==
    ASSUME ConfirmationType, NEW control \in Controls, NEW decision \in Decisions,
           Update(control, decision)
    PROVE  /\ DOMAIN decided' = DOMAIN decided \cup {control}
           /\ decided' \in [DOMAIN decided' -> Decisions]
           /\ decided'[control] = decision
           /\ \A k \in DOMAIN decided : k < control /\ decided'[k] = decided[k]
           /\ last < control
<1>1. last < control
  BY DEF Update
<1>2. DOMAIN decided' = DOMAIN decided \cup {control}
  BY DEF Update
<1>3. \A k \in DOMAIN decided \cup {control} :
        decided'[k] = IF k = control THEN decision ELSE decided[k]
  BY DEF Update
<1>4. \A k \in DOMAIN decided : k < control
  BY <1>1 DEF ConfirmationType, Controls, None
<1>5. \A k \in DOMAIN decided : decided'[k] = decided[k]
  BY <1>3, <1>4 DEF ConfirmationType, Controls, None
<1>6. decided'[control] = decision
  BY <1>3
<1>7. \A k \in DOMAIN decided : decided[k] \in Decisions
  BY DEF ConfirmationType
<1>8. decided' = [k \in DOMAIN decided' |-> decided'[k]]
  BY <1>2, Zenon DEF Update
<1>9. \A k \in DOMAIN decided' : decided'[k] \in Decisions
  BY <1>2, <1>5, <1>6, <1>7
<1> QED
  BY <1>1, <1>2, <1>4, <1>5, <1>6, <1>8, <1>9

LEMMA PositiveGrows ==
    ASSUME ConfirmationType, NEW control \in Controls, NEW decision \in Decisions,
           Update(control, decision)
    PROVE  /\ \A k : k # control => (Positive(k)' <=> Positive(k))
           /\ Positive(control)' <=> decision = "complete"
           /\ \A k : Positive(k) => k \in Int /\ k < control
           /\ ~Positive(control)
<1>1. /\ DOMAIN decided' = DOMAIN decided \cup {control}
      /\ decided'[control] = decision
      /\ \A k \in DOMAIN decided : k < control /\ decided'[k] = decided[k]
  BY HistoryGrows
<1>2. \A k : Positive(k) => k \in Int /\ k < control
  BY <1>1 DEF Positive, ConfirmationType
<1>3. control \notin DOMAIN decided
  BY <1>1 DEF Controls
<1> QED
  BY <1>1, <1>2, <1>3 DEF Positive

-----------------------------------------------------------------------------
(* The incremental class agrees with the whole history *)

LEMMA ConfirmationInit == WindowAssumption /\ Init => ConfirmationInv
<1> SUFFICES ASSUME WindowAssumption, Init PROVE ConfirmationInv
  OBVIOUS
<1>1. last = None /\ started = None /\ claimed = {} /\ DOMAIN decided = {}
      /\ truth \in [Controls -> BOOLEAN]
  BY DEF Init, NoDecisions
<1>2. decided = [c \in DOMAIN decided |-> decided[c]]
  BY DEF Init, NoDecisions
<1>3. ConfirmationType
  BY <1>1, <1>2 DEF ConfirmationType, None
<1>4. CandidateIsEvidence /\ IntervalIsMaximal /\ ClaimsAreContinuous
  BY <1>1 DEF CandidateIsEvidence, IntervalIsMaximal, ClaimsAreContinuous
<1> QED
  BY <1>3, <1>4 DEF ConfirmationInv

LEMMA UpdateKeepsType ==
    ASSUME WindowAssumption, ConfirmationType,
           NEW control \in Controls, NEW decision \in Decisions,
           Update(control, decision)
    PROVE  ConfirmationType'
<1>1. /\ DOMAIN decided' = DOMAIN decided \cup {control}
      /\ decided' \in [DOMAIN decided' -> Decisions]
      /\ \A k \in DOMAIN decided : k < control
      /\ last < control
  BY HistoryGrows
<1>2. last' = control /\ truth' = truth /\ claimed' \subseteq claimed \cup {control}
  BY DEF Update
<1>3. started' \in Controls \cup {None}
  BY DEF Update, StartedAt, Candidate, ConfirmationType
<1>4. DOMAIN decided' \subseteq 0..last'
  BY <1>1, <1>2 DEF ConfirmationType, Controls
<1> QED
  BY <1>1, <1>2, <1>3, <1>4 DEF ConfirmationType

(* After the update the candidate is the whole run of positive decisions    *)
(* that ends at the control.                                                *)
LEMMA CandidateIsTheRun ==
    ASSUME WindowAssumption, ConfirmationInv,
           NEW control \in Controls, NEW decision \in Decisions,
           Update(control, decision), decision = "complete"
    PROVE  /\ started' \in Controls /\ started' <= control
           /\ \A k \in started'..control : Positive(k)'
           /\ IntervalIsMaximal'
<1>1. /\ \A k : k # control => (Positive(k)' <=> Positive(k))
      /\ Positive(control)'
      /\ \A k : Positive(k) => k \in Int /\ k < control
  BY PositiveGrows DEF ConfirmationInv
<1>2. last \in Controls \cup {None} /\ started \in Controls \cup {None} /\ last < control
  BY HistoryGrows DEF ConfirmationInv, ConfirmationType
<1>3. CASE Candidate(control) # None
  <2>1. started' = started /\ started # None
    BY <1>3 DEF Update, StartedAt, Candidate
  <2>2. last # None
    BY <1>2, <2>1 DEF ConfirmationInv, ConfirmationType, CandidateIsEvidence, None, Controls
  <2>3. control = last + 1
    BY <1>3, <2>2 DEF Candidate
  <2>4. started <= last /\ \A k \in started..last : Positive(k)
    BY <2>1 DEF ConfirmationInv, CandidateIsEvidence, Positive
  <2>5. \A k \in started..control : k = control \/ k \in started..last
    BY <1>2, <2>1, <2>2, <2>3 DEF Controls
  <2>6. \A k \in started'..control : Positive(k)'
    BY <1>1, <2>1, <2>4, <2>5
  <2>7. ~Positive(started - 1) /\ started - 1 # control
    BY <1>2, <2>1, <2>2, <2>3, <2>4 DEF ConfirmationInv, IntervalIsMaximal, Controls
  <2>8. started \in Controls /\ started <= control
    BY <1>2, <2>1, <2>2, <2>3, <2>4 DEF Controls
  <2> QED
    BY <1>1, <2>1, <2>6, <2>7, <2>8 DEF IntervalIsMaximal, Positive
<1>4. CASE Candidate(control) = None
  <2>1. started' = control
    BY <1>4 DEF Update, StartedAt
  <2>2. \A k \in control..control : k = control
    BY DEF Controls
  <2>3. ~Positive(control - 1)
    <3>1. ASSUME Positive(control - 1) PROVE FALSE
      <4>1. last # None /\ last = control - 1
        <5>1. control - 1 \in 0..last
          BY <3>1 DEF Positive, ConfirmationInv, ConfirmationType
        <5> QED
          BY <1>2, <5>1 DEF Controls, None
      <4>2. control = last + 1
        BY <1>2, <4>1 DEF Controls, None
      <4>3. started = None
        BY <1>4, <4>2 DEF Candidate
      <4>4. decided[last] # "complete"
        BY <4>1, <4>3 DEF ConfirmationInv, CandidateIsEvidence
      <4> QED
        BY <3>1, <4>1, <4>4 DEF Positive
    <3> QED
      BY <3>1
  <2>4. control - 1 # control
    BY DEF Controls
  <2> QED
    BY <1>1, <2>1, <2>2, <2>3, <2>4 DEF Controls, IntervalIsMaximal, Positive
<1> QED
  BY <1>3, <1>4

LEMMA UpdateKeepsCandidate ==
    ASSUME WindowAssumption, ConfirmationInv,
           NEW control \in Controls, NEW decision \in Decisions,
           Update(control, decision)
    PROVE  CandidateIsEvidence' /\ IntervalIsMaximal'
<1>1. last' = control /\ control # None /\ DOMAIN decided' # {} /\ decided'[control] = decision
  BY HistoryGrows DEF Update, Controls, None, ConfirmationInv
<1>2. CASE decision = "complete"
  <2>1. /\ started' \in Controls /\ started' <= control
        /\ \A k \in started'..control : Positive(k)'
        /\ IntervalIsMaximal'
    BY <1>2, CandidateIsTheRun
  <2>2. started' # None
    BY <2>1 DEF Controls, None
  <2> QED
    BY <1>1, <2>1, <2>2 DEF CandidateIsEvidence, IntervalIsMaximal, Positive
<1>3. CASE decision # "complete"
  <2>1. started' = None
    BY <1>3 DEF Update, StartedAt
  <2> QED
    BY <1>1, <1>3, <2>1 DEF CandidateIsEvidence, IntervalIsMaximal
<1> QED
  BY <1>2, <1>3

LEMMA WindowsStart ==
    ASSUME NEW c \in Nat, NEW s \in Nat, NEW w \in Nat, s <= c
    PROVE  /\ c - s >= w => c >= w /\ s <= c - w
           /\ ~(c - s >= w) => s - 1 \in (c - w)..c
OBVIOUS

(* A claim is made exactly when the window that ends at the control is full.*)
LEMMA ConfirmsIsEvidence ==
    ASSUME WindowAssumption, ConfirmationInv,
           NEW control \in Controls, NEW decision \in Decisions,
           Update(control, decision)
    PROVE  Confirms(control, decision) <=> Evidence(control)'
<1>0. Window \in Nat /\ control \in Nat
  BY DEF WindowAssumption, Controls
<1>1. Evidence(control)' <=>
        control >= Window /\ \A k \in (control - Window)..control : Positive(k)'
  BY DEF Evidence, Positive
<1>2. CASE decision = "complete"
  <2>1. /\ started' \in Controls /\ started' <= control
        /\ \A k \in started'..control : Positive(k)'
        /\ IntervalIsMaximal'
    BY <1>2, CandidateIsTheRun
  <2>2. Confirms(control, decision) <=> control - started' >= Window
    BY <1>2 DEF Confirms, Update
  <2>3. started' \in Nat
    BY <2>1 DEF Controls
  <2>4. ASSUME control - started' >= Window
        PROVE  Evidence(control)'
    <3>1. control >= Window /\ started' <= control - Window
      BY <1>0, <2>1, <2>3, <2>4, WindowsStart
    <3>2. \A k \in (control - Window)..control : k \in started'..control
      BY <1>0, <2>3, <3>1
    <3> QED
      BY <1>1, <2>1, <3>1, <3>2
  <2>5. ASSUME Evidence(control)', ~(control - started' >= Window)
        PROVE  FALSE
    <3>1. started' - 1 \in (control - Window)..control
      <4>1. started' <= control
        BY <2>1
      <4>2. ~(control - started' >= Window)
        BY <2>5
      <4> QED
        BY <1>0, <2>3, <4>1, <4>2, WindowsStart, Zenon
    <3>2. started' # None
      BY <2>3 DEF None
    <3> QED
      BY <1>1, <2>1, <2>5, <3>1, <3>2 DEF IntervalIsMaximal, Positive
  <2> QED
    BY <2>2, <2>4, <2>5
<1>3. CASE decision # "complete"
  <2>1. ~Positive(control)'
    BY <1>3, PositiveGrows DEF ConfirmationInv
  <2>2. control \in (control - Window)..control
    BY <1>0
  <2> QED
    BY <1>1, <1>3, <2>1, <2>2 DEF Confirms
<1> QED
  BY <1>2, <1>3

LEMMA UpdateKeepsClaims ==
    ASSUME WindowAssumption, ConfirmationInv,
           NEW control \in Controls, NEW decision \in Decisions,
           Update(control, decision)
    PROVE  ClaimsAreContinuous'
<1>1. /\ DOMAIN decided' = DOMAIN decided \cup {control}
      /\ \A k \in DOMAIN decided : k < control /\ k \in Nat
  BY HistoryGrows DEF ConfirmationInv, ConfirmationType
<1>2. \A k : k # control => (Positive(k)' <=> Positive(k))
  BY PositiveGrows DEF ConfirmationInv
<1>3. ASSUME NEW c \in DOMAIN decided
      PROVE  Evidence(c)' <=> Evidence(c)
  <2>1. Evidence(c) <=> c >= Window /\ \A k \in (c - Window)..c : Positive(k)
    BY DEF Evidence, Positive
  <2>2. Evidence(c)' <=> c >= Window /\ \A k \in (c - Window)..c : Positive(k)'
    BY DEF Evidence, Positive
  <2>3. \A k \in (c - Window)..c : k # control
    BY <1>1 DEF WindowAssumption, Controls
  <2> QED
    BY <1>2, <2>1, <2>2, <2>3
<1>4. Confirms(control, decision) <=> Evidence(control)'
  BY ConfirmsIsEvidence
<1>5. control \notin DOMAIN decided
  BY <1>1 DEF Controls
<1>6. \A c : c \in claimed <=> c \in DOMAIN decided /\ Evidence(c)
  BY DEF ConfirmationInv, ClaimsAreContinuous
<1>7. \A c : c \in claimed' <=>
        c \in claimed \/ (c = control /\ Confirms(control, decision))
  BY DEF Update
<1>8. \A c : c \in claimed' <=> c \in DOMAIN decided' /\ Evidence(c)'
  BY <1>1, <1>3, <1>4, <1>5, <1>6, <1>7, Zenon
<1> QED
  BY <1>8 DEF ClaimsAreContinuous

LEMMA ConfirmationKeeps ==
    WindowAssumption /\ ConfirmationInv /\ [Next]_vars => ConfirmationInv'
<1> SUFFICES ASSUME WindowAssumption, ConfirmationInv, [Next]_vars
             PROVE  ConfirmationInv'
  OBVIOUS
<1>1. ASSUME NEW control \in Controls, NEW decision \in Decisions,
             Update(control, decision)
      PROVE  ConfirmationInv'
  BY <1>1, UpdateKeepsType, UpdateKeepsCandidate, UpdateKeepsClaims DEF ConfirmationInv
<1>2. CASE UNCHANGED vars
  BY <1>2 DEF vars, ConfirmationInv, ConfirmationType, CandidateIsEvidence,
     IntervalIsMaximal, Positive, ClaimsAreContinuous, Evidence
<1> QED
  BY <1>1, <1>2 DEF Next

LEMMA ConfirmationInvariant ==
    ASSUME WindowAssumption
    PROVE  Spec => []ConfirmationInv
<1>1. Init => ConfirmationInv
  BY ConfirmationInit
<1>2. ConfirmationInv /\ [Next]_vars => ConfirmationInv'
  BY ConfirmationKeeps
<1> QED
  BY <1>1, <1>2, PTL DEF Spec

-----------------------------------------------------------------------------
(* The metrics are those of the first stop *)

LEMMA StopIsFirst ==
    ASSUME WindowAssumption, ConfirmationType
    PROVE  SafetyOfFirstStop
<1> DEFINE stop == CHOOSE c \in claimed : \A d \in claimed : c <= d
           due == {c \in Controls : truth[c]}
           right == {c \in claimed : truth[c]}
<1>1. claimed \subseteq Nat /\ due \subseteq Nat /\ right \subseteq Nat
  BY DEF ConfirmationType, Controls
<1>2. /\ claimed = {} => FirstClaim = None
      /\ claimed # {} => /\ FirstClaim \in claimed /\ FirstClaim \in Nat /\ FirstClaim # None
                         /\ \A c \in claimed : FirstClaim <= c
  BY <1>1, FirstIsLeast DEF FirstClaim
<1>3. /\ due = {} => FirstTruth = None
      /\ due # {} => /\ FirstTruth \in due /\ FirstTruth \in Nat /\ FirstTruth # None
                     /\ \A c \in due : FirstTruth <= c
  BY <1>1, FirstIsLeast DEF FirstTruth
<1>4. /\ right = {} => FirstCorrect = None
      /\ right # {} => /\ FirstCorrect \in right /\ FirstCorrect \in Nat
                       /\ FirstCorrect # None
                       /\ \A c \in right : FirstCorrect <= c
  BY <1>1, FirstIsLeast DEF FirstCorrect
<1>5. claimed # {} => FirstClaim = stop
  BY DEF FirstClaim, FirstOf, Min
<1>6. \A c \in claimed : c \in Controls
  BY DEF ConfirmationType, Controls, None, WindowAssumption
<1> HIDE DEF stop
<1>7. PrematureStop <=> claimed # {} /\ ~truth[stop]
  BY <1>2, <1>5, Zenon DEF PrematureStop
<1>8. ASSUME Delay # None
      PROVE  ~PrematureStop /\ Delay >= 0 /\ truth[stop]
  <2>1. FirstTruth # None /\ FirstClaim # None /\ ~PrematureStop
    BY <1>8 DEF Delay
  <2>2. Delay = FirstClaim - FirstTruth
    BY <2>1 DEF Delay
  <2>3. claimed # {} /\ due # {}
    BY <1>2, <1>3, <2>1, Zenon
  <2>4. truth[stop]
    BY <1>7, <2>1, <2>3, Zenon
  <2>5. FirstClaim \in due
    BY <1>2, <1>5, <1>6, <2>3, <2>4
  <2>6. FirstTruth <= FirstClaim /\ FirstTruth \in Nat /\ FirstClaim \in Nat
    BY <1>2, <1>3, <2>3, <2>5, Zenon
  <2>7. Delay >= 0
    BY <2>2, <2>6
  <2> QED
    BY <2>1, <2>4, <2>7
<1>9. ASSUME MissedEvent, NEW c \in claimed
      PROVE  ~truth[c]
  <2>1. FirstCorrect = None
    BY <1>9 DEF MissedEvent
  <2>2. right = {}
    BY <1>4, <2>1, Zenon
  <2> QED
    BY <2>2
<1>10. ASSUME claimed # {}, ~PrematureStop
       PROVE  FirstCorrect = stop
  <2>1. stop \in right /\ stop \in Nat /\ \A c \in right : stop <= c
    BY <1>2, <1>5, <1>7, <1>10
  <2>2. right # {}
    BY <2>1
  <2>3. FirstCorrect \in Nat /\ FirstCorrect <= stop /\ stop <= FirstCorrect
    BY <1>4, <2>1, <2>2, Zenon
  <2> QED
    BY <2>1, <2>3
<1> QED
  BY <1>7, <1>8, <1>9, <1>10, Zenon DEF SafetyOfFirstStop, stop

(* For every window and every stream of decisions, gaps included: a claim is *)
(* made exactly at the end of an unbroken window of positive evidence, the   *)
(* candidate lies in the history, and the metrics speak of the first stop.   *)
THEOREM ConfirmationIsContinuous ==
    ASSUME WindowAssumption
    PROVE  Spec => [](ClaimsAreContinuous /\ CandidateIsEvidence /\ SafetyOfFirstStop)
<1>1. ConfirmationInv => ClaimsAreContinuous /\ CandidateIsEvidence /\ SafetyOfFirstStop
  BY StopIsFirst DEF ConfirmationInv
<1> QED
  BY <1>1, ConfirmationInvariant, PTL
-----------------------------------------------------------------------------
(* Proofs.  A manifest is written once: a preparation only runs where there  *)
(* is none.  So the two readings of a training give one manifest, a frozen   *)
(* checkpoint names the manifest it was trained by, and the evaluation works *)
(* from that same one, whose split holds out what the training did not see.  *)
Hashes == [Episodes -> Renderings \cup {0}]
Manifests == [seed : Data!Seeds, hash : Hashes]

ShardType == shard \in [Directories -> [Episodes -> Renderings \cup {0}]]
PreparerInv ==
    /\ copies \in 0 .. MaxCopies
    /\ preparer = Data!NoJob \/
         /\ preparer \in [directory : Directories, seed : Data!Seeds, done : SUBSET Episodes,
                          hash : Hashes]
         /\ manifest[preparer.directory] = Data!NoManifest
ManifestInv == manifest \in [Directories -> Manifests \cup {Data!NoManifest}]
TrainerInv ==
    trainer = Data!NoTraining \/
      /\ trainer \in [directory : Directories, manifest : Manifests,
                      named : Manifests \cup {Data!NoManifest}]
      /\ trainer.manifest = manifest[trainer.directory]
      /\ trainer.named \in {Data!NoManifest, trainer.manifest}

Counted(s) == Len(s) \in Nat /\ DOMAIN s = 1 .. Len(s)

(* A checkpoint names the manifest it was trained by and read its shards.    *)
Seen(m) == Data!InSplit(m.seed, "train") \cup Data!InSplit(m.seed, "validation")
Sound(c) ==
    /\ c.manifest \in Manifests /\ c.named = c.manifest
    /\ DOMAIN c.read = Seen(c.manifest)
    /\ \A e \in DOMAIN c.read : c.read[e] = c.manifest.hash[e]
CheckpointInv ==
    /\ Counted(checkpoints)
    /\ \A n \in DOMAIN checkpoints : Sound(checkpoints[n])
    /\ frozen.checkpoint \in 0 .. Len(checkpoints)

(* Each row is of another held-out episode.                                  *)
RowsInv ==
    /\ DOMAIN evaluation = DOMAIN Data!NotEvaluated
    /\ Counted(evaluation.rows)
    /\ IsFiniteSet(Data!Predicted) /\ Len(evaluation.rows) = Cardinality(Data!Predicted)
    /\ \A n \in DOMAIN evaluation.rows :
         evaluation.rows[n].shard = evaluation.manifest.hash[evaluation.rows[n].episode]
EvaluationInv ==
    /\ evaluation.stage \in {"none", "running", "completed", "broken"}
    /\ RowsInv
    /\ evaluation.stage # "none" =>
         /\ frozen.checkpoint # 0
         /\ evaluation.manifest = checkpoints[frozen.checkpoint].named
    /\ evaluation.stage \in {"running", "completed"} => Data!Predicted \subseteq Data!Held
    /\ evaluation.stage = "completed" => Data!Predicted = Data!Held

DataInv ==
    /\ ShardType /\ PreparerInv /\ ManifestInv /\ TrainerInv /\ CheckpointInv /\ EvaluationInv

LEMMA Begins == ASSUME Data!VisualDataAssumption PROVE Data!Init => DataInv
<1> SUFFICES ASSUME Data!Init PROVE DataInv
  OBVIOUS
<1> DEFINE Nowhere == [e \in Episodes |-> 0]
<1>1. Nowhere \in Hashes
  BY DEF Hashes
<1>2. ShardType
  BY <1>1 DEF Data!Init, ShardType, Hashes
<1>3. PreparerInv /\ ManifestInv /\ TrainerInv
  BY DEF Data!Init, PreparerInv, ManifestInv, TrainerInv, Data!VisualDataAssumption
<1>4. CheckpointInv
  BY DEF Data!Init, CheckpointInv, Counted
<1>5. evaluation = Data!NotEvaluated /\ evaluation.rows = <<>> /\ evaluation.stage = "none"
  BY DEF Data!Init, Data!NotEvaluated
<1>6. Data!Predicted = {}
  BY <1>5 DEF Data!Predicted
<1>7. EvaluationInv
  BY <1>5, <1>6, FS_EmptySet DEF EvaluationInv, RowsInv, Counted
<1> QED
  BY <1>2, <1>3, <1>4, <1>7 DEF DataInv

(* A manifest names a seed; where there is none, there is no seed.           *)
LEMMA Names ==
    ASSUME Data!VisualDataAssumption, NEW m \in Manifests
    PROVE  m # Data!NoManifest /\ m.seed \in Data!Seeds /\ m.hash \in Hashes
BY DEF Data!VisualDataAssumption, Manifests, Data!NoManifest

(* A manifest is never written over.                                         *)
LEMMA WrittenOnce ==
    ASSUME Data!VisualDataAssumption, ManifestInv, PreparerInv, [Data!Next]_(Data!vars),
           NEW d \in Directories, manifest[d] # Data!NoManifest
    PROVE  manifest'[d] = manifest[d]
<1>1. CASE Data!WriteManifest
  <2>1. preparer.directory # d
    BY <1>1 DEF Data!WriteManifest, PreparerInv
  <2> QED
    BY <1>1, <2>1 DEF Data!WriteManifest, ManifestInv
<1>2. CASE UNCHANGED manifest
  BY <1>2
<1>3. Data!WriteManifest \/ UNCHANGED manifest
  BY Zenon DEF Data!Next, Data!vars, Data!StartPreparing, Data!Render, Data!KillPreparer,
     Data!Copy, Data!BeginTraining, Data!StartEvaluation, Data!NameManifest, Data!Train,
     Data!Freeze, Data!PredictEpisode, Data!Summarise, Data!KillEvaluation
<1> QED
  BY <1>1, <1>2, <1>3

LEMMA ManifestKept ==
    ASSUME Data!VisualDataAssumption, ManifestInv, PreparerInv, [Data!Next]_(Data!vars)
    PROVE  ManifestInv'
<1>1. CASE Data!WriteManifest
  <2>1. preparer \in [directory : Directories, seed : Data!Seeds, done : SUBSET Episodes,
                      hash : Hashes]
    BY <1>1 DEF Data!WriteManifest, PreparerInv
  <2>2. [seed |-> preparer.seed, hash |-> preparer.hash] \in Manifests
    BY <2>1 DEF Manifests
  <2> QED
    BY <1>1, <2>1, <2>2 DEF Data!WriteManifest, ManifestInv
<1>2. CASE UNCHANGED manifest
  BY <1>2 DEF ManifestInv
<1>3. Data!WriteManifest \/ UNCHANGED manifest
  BY Zenon DEF Data!Next, Data!vars, Data!StartPreparing, Data!Render, Data!KillPreparer,
     Data!Copy, Data!BeginTraining, Data!StartEvaluation, Data!NameManifest, Data!Train,
     Data!Freeze, Data!PredictEpisode, Data!Summarise, Data!KillEvaluation
<1> QED
  BY <1>1, <1>2, <1>3

(* A shard is rendered, torn or copied; what it holds stays a rendering.     *)
LEMMA ShardKept ==
    ASSUME Data!VisualDataAssumption, ShardType, PreparerInv, [Data!Next]_(Data!vars)
    PROVE  ShardType'
<1> DEFINE Put == \E d \in Directories, e \in Episodes, r \in Renderings \cup {0} :
                    shard' = [shard EXCEPT ![d][e] = r]
<1>1. ASSUME NEW e \in Episodes, NEW r \in Renderings, Data!Render(e, r) PROVE Put
  <2>1. preparer.directory \in Directories
    BY <1>1 DEF Data!Render, PreparerInv
  <2> QED
    BY <1>1, <2>1 DEF Data!Render
<1>2. ASSUME Data!KillPreparer PROVE Put \/ UNCHANGED shard
  <2>1. preparer.directory \in Directories
    BY <1>2 DEF Data!KillPreparer, PreparerInv
  <2> QED
    BY <1>2, <2>1 DEF Data!KillPreparer
<1>3. ASSUME NEW from \in Directories, NEW d \in Directories, NEW e \in Episodes,
             Data!Copy(from, d, e)
      PROVE  Put
  <2>1. shard[from][e] \in Renderings \cup {0}
    BY DEF ShardType
  <2> QED
    BY <1>3, <2>1 DEF Data!Copy
<1>4. Put \/ UNCHANGED shard
  BY <1>1, <1>2, <1>3, Zenon DEF Data!Next, Data!vars, Data!StartPreparing, Data!WriteManifest,
     Data!BeginTraining, Data!StartEvaluation, Data!NameManifest, Data!Train, Data!Freeze,
     Data!PredictEpisode, Data!Summarise, Data!KillEvaluation
<1>5. Put => ShardType'
  BY DEF ShardType
<1> QED
  BY <1>4, <1>5 DEF ShardType

LEMMA PreparerKept ==
    ASSUME Data!VisualDataAssumption, ManifestInv, PreparerInv, [Data!Next]_(Data!vars)
    PROVE  PreparerInv'
<1> DEFINE Jobs == [directory : Directories, seed : Data!Seeds, done : SUBSET Episodes,
                    hash : Hashes]
<1>1. ASSUME NEW d \in Directories, NEW s \in Data!Seeds, Data!StartPreparing(d, s)
      PROVE  PreparerInv'
  <2>1. preparer' = [directory |-> d, seed |-> s, done |-> {}, hash |-> [e \in Episodes |-> 0]]
    BY <1>1 DEF Data!StartPreparing, Data!NoJob
  <2>2. [e \in Episodes |-> 0] \in Hashes
    BY DEF Hashes
  <2>3. preparer' \in Jobs /\ preparer'.directory = d
    BY <2>1, <2>2
  <2>4. copies' = copies /\ manifest' = manifest /\ manifest[d] = Data!NoManifest
    BY <1>1 DEF Data!StartPreparing
  <2> QED
    BY <2>3, <2>4 DEF PreparerInv
<1>2. ASSUME NEW e \in Episodes, NEW r \in Renderings, Data!Render(e, r) PROVE PreparerInv'
  <2>1. preparer \in Jobs /\ manifest[preparer.directory] = Data!NoManifest
    BY <1>2 DEF Data!Render, PreparerInv
  <2>2. preparer' = [preparer EXCEPT !.done = @ \cup {e}, !.hash[e] = r]
    BY <1>2 DEF Data!Render
  <2>3. [preparer.hash EXCEPT ![e] = r] \in Hashes
    BY <2>1 DEF Hashes
  <2>4. preparer' \in Jobs /\ preparer'.directory = preparer.directory
    BY <2>1, <2>2, <2>3
  <2>5. copies' = copies /\ manifest' = manifest
    BY <1>2 DEF Data!Render
  <2> QED
    BY <2>1, <2>4, <2>5 DEF PreparerInv
<1>3. ASSUME Data!WriteManifest \/ Data!KillPreparer PROVE PreparerInv'
  BY <1>3 DEF Data!WriteManifest, Data!KillPreparer, PreparerInv
<1>4. ASSUME NEW from \in Directories, NEW d \in Directories, NEW e \in Episodes,
             Data!Copy(from, d, e)
      PROVE  PreparerInv'
  <2>1. copies' \in 0 .. MaxCopies
    BY <1>4 DEF Data!Copy, PreparerInv, Data!VisualDataAssumption
  <2> QED
    BY <1>4, <2>1 DEF Data!Copy, PreparerInv
<1>5. ASSUME UNCHANGED <<copies, preparer, manifest>> PROVE PreparerInv'
  BY <1>5 DEF PreparerInv
<1> QED
  BY <1>1, <1>2, <1>3, <1>4, <1>5, Zenon DEF Data!Next, Data!vars, Data!BeginTraining,
     Data!StartEvaluation, Data!NameManifest, Data!Train, Data!Freeze, Data!PredictEpisode,
     Data!Summarise, Data!KillEvaluation

(* Training reads the manifest twice, and both readings are of one file.     *)
LEMMA TrainerKept ==
    ASSUME Data!VisualDataAssumption, ManifestInv, PreparerInv, TrainerInv, [Data!Next]_(Data!vars)
    PROVE  TrainerInv'
<1> DEFINE Trainings == [directory : Directories, manifest : Manifests,
                         named : Manifests \cup {Data!NoManifest}]
<1>1. ASSUME NEW d \in Directories, Data!BeginTraining(d) PROVE TrainerInv'
  <2>1. manifest[d] \in Manifests
    BY <1>1 DEF Data!BeginTraining, ManifestInv
  <2>2. trainer' = [directory |-> d, manifest |-> manifest[d], named |-> Data!NoManifest]
    BY <1>1 DEF Data!BeginTraining, Data!NoTraining
  <2>3. trainer' \in Trainings
    BY <2>1, <2>2
  <2>4. manifest' = manifest
    BY <1>1 DEF Data!BeginTraining
  <2> QED
    BY <2>2, <2>3, <2>4 DEF TrainerInv
<1>2. ASSUME Data!NameManifest PROVE TrainerInv'
  <2>1. trainer \in Trainings /\ trainer.manifest = manifest[trainer.directory]
    BY <1>2 DEF Data!NameManifest, TrainerInv
  <2>2. trainer' = [trainer EXCEPT !.named = trainer.manifest] /\ manifest' = manifest
    BY <1>2, <2>1 DEF Data!NameManifest
  <2> QED
    BY <2>1, <2>2 DEF TrainerInv
<1>3. ASSUME Data!Train PROVE TrainerInv'
  BY <1>3 DEF Data!Train, TrainerInv
<1>4. ASSUME UNCHANGED trainer PROVE TrainerInv'
  <2>1. CASE trainer = Data!NoTraining
    BY <1>4, <2>1 DEF TrainerInv
  <2>2. CASE trainer # Data!NoTraining
    <3>1. trainer \in Trainings /\ trainer.manifest = manifest[trainer.directory]
          /\ trainer.named \in {Data!NoManifest, trainer.manifest}
      BY <2>2 DEF TrainerInv
    <3>2. trainer.directory \in Directories /\ trainer.manifest \in Manifests
      BY <3>1
    <3>3. manifest[trainer.directory] # Data!NoManifest
      BY <3>1, <3>2, Names
    <3>4. manifest'[trainer.directory] = manifest[trainer.directory]
      BY <3>2, <3>3, WrittenOnce
    <3> QED
      BY <1>4, <3>1, <3>4 DEF TrainerInv
  <2> QED
    BY <2>1, <2>2
<1> QED
  BY <1>1, <1>2, <1>3, <1>4, Zenon DEF Data!Next, Data!vars, Data!StartPreparing, Data!Render,
     Data!WriteManifest, Data!KillPreparer, Data!Copy, Data!StartEvaluation, Data!Freeze,
     Data!PredictEpisode, Data!Summarise, Data!KillEvaluation

(* What a training reads is what its manifest lists. *)
LEMMA CheckpointIsSound ==
    ASSUME Data!VisualDataAssumption, TrainerInv, Data!Train, checkpoints' # checkpoints
    PROVE  \E c : checkpoints' = Append(checkpoints, c) /\ Sound(c)
<1> DEFINE m == trainer.manifest
           c == [named |-> trainer.named, manifest |-> m,
                 read |-> [e \in Seen(m) |-> shard[trainer.directory][e]]]
<1>1. /\ checkpoints' = Append(checkpoints, c)
      /\ \A e \in Seen(m) : Data!Loads(trainer.directory, m, e)
      /\ trainer.named # Data!NoManifest
  BY DEF Data!Train, Seen
<1>2. trainer # Data!NoTraining
  BY <1>1 DEF Data!NoTraining
<1>3. m \in Manifests /\ trainer.named = m
  BY <1>1, <1>2 DEF TrainerInv
<1>4. Sound(c)
  BY <1>1, <1>3 DEF Sound, Data!Loads
<1> QED
  BY <1>1, <1>4

Extends(s, x, t) ==
    /\ Counted(t) /\ Len(t) = Len(s) + 1 /\ Len(t) \in DOMAIN t /\ t[Len(t)] = x
    /\ \A n \in DOMAIN s : n \in DOMAIN t /\ t[n] = s[n]
    /\ \A n \in DOMAIN t : n \in DOMAIN s \/ n = Len(t)

LEMMA OneMore ==
    ASSUME NEW s, Counted(s), NEW x, NEW t, t = Append(s, x) PROVE Extends(s, x, t)
BY DEF Counted, Extends

(* Checkpoints are only added, and the freeze is written once.               *)
LEMMA CheckpointStays ==
    ASSUME CheckpointInv, [Data!Next]_(Data!vars), NEW n \in DOMAIN checkpoints
    PROVE  n \in DOMAIN checkpoints' /\ checkpoints'[n] = checkpoints[n]
<1>1. CASE UNCHANGED checkpoints
  BY <1>1
<1>2. CASE \E c : checkpoints' = Append(checkpoints, c)
  <2>1. PICK c : checkpoints' = Append(checkpoints, c)
    BY <1>2
  <2>2. Extends(checkpoints, c, checkpoints')
    BY <2>1, OneMore, Zenon DEF CheckpointInv
  <2> QED
    BY <2>2, Zenon DEF Extends
<1>3. Data!Train => UNCHANGED checkpoints \/ \E c : checkpoints' = Append(checkpoints, c)
  BY DEF Data!Train
<1>4. Data!Train \/ UNCHANGED checkpoints
  BY Zenon DEF Data!Next, Data!vars, Data!StartPreparing, Data!Render, Data!WriteManifest,
     Data!KillPreparer, Data!Copy, Data!BeginTraining, Data!StartEvaluation, Data!NameManifest,
     Data!Freeze, Data!PredictEpisode, Data!Summarise, Data!KillEvaluation
<1> QED
  BY <1>1, <1>2, <1>3, <1>4

LEMMA FrozenStays ==
    ASSUME [Data!Next]_(Data!vars), frozen.checkpoint # 0 PROVE frozen' = frozen
<1>1. (\E n \in 1 .. MaxTrainings, d \in Directories : Data!Freeze(n, d)) \/ UNCHANGED frozen
  BY Zenon DEF Data!Next, Data!vars, Data!StartPreparing, Data!Render, Data!WriteManifest,
     Data!KillPreparer, Data!Copy, Data!BeginTraining, Data!StartEvaluation, Data!NameManifest,
     Data!Train, Data!PredictEpisode, Data!Summarise, Data!KillEvaluation
<1> QED
  BY <1>1 DEF Data!Freeze

LEMMA CheckpointKept ==
    ASSUME Data!VisualDataAssumption, TrainerInv, CheckpointInv, [Data!Next]_(Data!vars)
    PROVE  CheckpointInv'
<1>0. Counted(checkpoints)
  BY DEF CheckpointInv
<1>1. CASE checkpoints' # checkpoints
  <2>1. Data!Train
    BY <1>1, Zenon DEF Data!Next, Data!vars, Data!StartPreparing, Data!Render,
       Data!WriteManifest, Data!KillPreparer, Data!Copy, Data!BeginTraining,
       Data!StartEvaluation, Data!NameManifest, Data!Freeze, Data!PredictEpisode, Data!Summarise,
       Data!KillEvaluation
  <2>2. PICK c : checkpoints' = Append(checkpoints, c) /\ Sound(c)
    BY <1>1, <2>1, CheckpointIsSound
  <2>3. Extends(checkpoints, c, checkpoints')
    BY <1>0, <2>2, OneMore, Zenon
  <2>4. ASSUME NEW n \in DOMAIN checkpoints' PROVE Sound(checkpoints'[n])
    <3> QED
      BY <2>2, <2>3, Zenon DEF CheckpointInv, Extends
  <2>5. frozen' = frozen
    BY <2>1 DEF Data!Train
  <2>6. frozen'.checkpoint \in 0 .. Len(checkpoints')
    BY <1>0, <2>3, <2>5 DEF CheckpointInv, Extends, Counted
  <2>7. \A n \in DOMAIN checkpoints' : Sound(checkpoints[n])'
    BY <2>4, Zenon DEF Sound
  <2> QED
    BY <2>3, <2>6, <2>7, Zenon DEF CheckpointInv, Extends
<1>2. CASE UNCHANGED checkpoints
  <2>1. (\E n \in 1 .. MaxTrainings, d \in Directories : Data!Freeze(n, d)) \/ UNCHANGED frozen
    BY Zenon DEF Data!Next, Data!vars, Data!StartPreparing, Data!Render, Data!WriteManifest,
       Data!KillPreparer, Data!Copy, Data!BeginTraining, Data!StartEvaluation, Data!NameManifest,
       Data!Train, Data!PredictEpisode, Data!Summarise, Data!KillEvaluation
  <2>2. frozen'.checkpoint \in 0 .. Len(checkpoints)
    BY <1>0, <2>1 DEF Data!Freeze, CheckpointInv
  <2>3. \A n \in DOMAIN checkpoints : Sound(checkpoints[n])
    BY DEF CheckpointInv
  <2> QED
    BY <1>0, <1>2, <2>2, <2>3, Zenon DEF CheckpointInv, Sound
<1> QED
  BY <1>1, <1>2

LEMMA OneMoreEpisode ==
    ASSUME NEW S, IsFiniteSet(S), NEW x, x \notin S, NEW T, T = S \cup {x}
    PROVE  IsFiniteSet(T) /\ Cardinality(T) = Cardinality(S) + 1
BY FS_AddElement

(* A row is added for an episode that had none.                              *)
LEMMA RowAdded ==
    ASSUME RowsInv, NEW e \in Episodes, Data!PredictEpisode(e), Data!ShardUnchanged(e)
    PROVE  /\ RowsInv' /\ Data!Predicted' = Data!Predicted \cup {e} /\ e \in Data!Held
           /\ evaluation'.stage = "running" /\ evaluation'.manifest = evaluation.manifest
<1> DEFINE row == [episode |-> e, shard |-> shard[evaluation.directory][e]]
           rows == evaluation.rows
           rowsN == evaluation'.rows
<1>0. evaluation' = [evaluation EXCEPT !.rows = Append(@, row)]
      /\ e \in Data!Held /\ e \notin Data!Predicted /\ evaluation.stage = "running"
  BY Zenon DEF Data!PredictEpisode
<1>1. /\ rowsN = Append(rows, row) /\ DOMAIN evaluation' = DOMAIN evaluation
      /\ evaluation'.stage = "running" /\ evaluation'.manifest = evaluation.manifest
  BY <1>0 DEF RowsInv, Data!NotEvaluated
<1>2. Counted(rows)
  BY DEF RowsInv
<1>3. Extends(rows, row, rowsN)
  BY <1>1, <1>2, OneMore, Zenon
<1>4. Data!Predicted' = Data!Predicted \cup {e}
  <2>1. ASSUME NEW n \in DOMAIN rowsN PROVE rowsN[n].episode \in Data!Predicted \cup {e}
    BY <1>3 DEF Data!Predicted, Extends
  <2>2. ASSUME NEW n \in DOMAIN rows PROVE rows[n].episode \in Data!Predicted'
    BY <1>3 DEF Data!Predicted, Extends
  <2>3. e \in Data!Predicted'
    BY <1>3 DEF Data!Predicted, Extends
  <2> QED
    BY <2>1, <2>2, <2>3, Zenon DEF Data!Predicted
<1>5. IsFiniteSet(Data!Predicted') /\ Cardinality(Data!Predicted') = Cardinality(Data!Predicted) + 1
  BY <1>0, <1>4, OneMoreEpisode, Zenon DEF RowsInv
<1>6. Len(rowsN) = Cardinality(Data!Predicted')
  BY <1>3, <1>5, Zenon DEF RowsInv, Extends
<1>7. ASSUME NEW n \in DOMAIN rowsN
      PROVE  rowsN[n].shard = evaluation'.manifest.hash[rowsN[n].episode]
  BY <1>1, <1>3 DEF RowsInv, Data!ShardUnchanged, Extends
<1> QED
  BY <1>0, <1>1, <1>3, <1>4, <1>5, <1>6, <1>7, Zenon DEF RowsInv, Extends

LEMMA EvaluationKept ==
    ASSUME Data!VisualDataAssumption, CheckpointInv, EvaluationInv, [Data!Next]_(Data!vars)
    PROVE  EvaluationInv'
<1>0. ASSUME frozen.checkpoint # 0
      PROVE  frozen' = frozen
             /\ checkpoints'[frozen.checkpoint] = checkpoints[frozen.checkpoint]
  <2>1. frozen.checkpoint \in DOMAIN checkpoints
    BY <1>0 DEF CheckpointInv, Counted
  <2> QED
    BY <1>0, <2>1, FrozenStays, CheckpointStays
<1>1. ASSUME NEW d \in Directories, Data!StartEvaluation(d) PROVE EvaluationInv'
  <2>1. evaluation' = [stage |-> "running", directory |-> d, manifest |-> manifest[d],
                       rows |-> <<>>]
    BY <1>1 DEF Data!StartEvaluation, Data!NotEvaluated
  <2>2. evaluation'.rows = <<>> /\ Data!Predicted' = {}
    BY <2>1 DEF Data!Predicted
  <2>3. RowsInv'
    BY <2>1, <2>2, FS_EmptySet DEF RowsInv, Data!NotEvaluated, Counted
  <2>4. /\ frozen'.checkpoint # 0
        /\ evaluation'.manifest = checkpoints'[frozen'.checkpoint].named
    BY <1>1, <2>1 DEF Data!StartEvaluation, Data!FrozenManifest, Data!Provenance
  <2> QED
    BY <2>1, <2>2, <2>3, <2>4 DEF EvaluationInv
<1>2. ASSUME NEW e \in Episodes, Data!PredictEpisode(e), Data!ShardUnchanged(e) PROVE EvaluationInv'
  <2>1. /\ RowsInv' /\ Data!Predicted' = Data!Predicted \cup {e} /\ e \in Data!Held
        /\ evaluation'.stage = "running" /\ evaluation'.manifest = evaluation.manifest
        /\ evaluation.stage = "running"
    BY <1>2, RowAdded DEF EvaluationInv, Data!PredictEpisode
  <2>2. Data!Held' = Data!Held
    BY <2>1 DEF Data!Held
  <2>3. Data!Predicted' \subseteq Data!Held'
    BY <2>1, <2>2 DEF EvaluationInv
  <2>4. /\ frozen'.checkpoint # 0
        /\ evaluation'.manifest = checkpoints'[frozen'.checkpoint].named
    BY <1>0, <2>1 DEF EvaluationInv
  <2> QED
    BY <2>1, <2>3, <2>4 DEF EvaluationInv
<1>3. ASSUME NEW stage \in {"broken", "completed"},
             evaluation' = [evaluation EXCEPT !.stage = stage],
             evaluation.stage = "running", stage = "completed" => Data!Predicted = Data!Held
      PROVE  EvaluationInv'
  <2>1. /\ evaluation'.rows = evaluation.rows /\ evaluation'.manifest = evaluation.manifest
        /\ evaluation'.stage = stage /\ DOMAIN evaluation' = DOMAIN evaluation
    BY <1>3 DEF EvaluationInv, RowsInv
  <2>2. Data!Predicted' = Data!Predicted /\ Data!Held' = Data!Held
    BY <2>1 DEF Data!Predicted, Data!Held
  <2>3. RowsInv'
    BY <2>1, <2>2, Zenon DEF RowsInv, EvaluationInv
  <2>4. /\ frozen'.checkpoint # 0
        /\ evaluation'.manifest = checkpoints'[frozen'.checkpoint].named
    BY <1>0, <1>3, <2>1 DEF EvaluationInv
  <2> QED
    BY <1>3, <2>1, <2>2, <2>3, <2>4 DEF EvaluationInv
<1>4. ASSUME UNCHANGED evaluation PROVE EvaluationInv'
  <2>1. Data!Predicted' = Data!Predicted /\ Data!Held' = Data!Held
    BY <1>4 DEF Data!Predicted, Data!Held
  <2>2. RowsInv'
    BY <1>4, <2>1, Zenon DEF RowsInv, EvaluationInv
  <2>3. evaluation.stage # "none" =>
          /\ frozen'.checkpoint # 0
          /\ evaluation.manifest = checkpoints'[frozen'.checkpoint].named
    BY <1>0 DEF EvaluationInv
  <2> QED
    BY <1>4, <2>1, <2>2, <2>3 DEF EvaluationInv
<1>5. ASSUME NEW e \in Episodes, Data!PredictEpisode(e), ~Data!ShardUnchanged(e)
      PROVE  EvaluationInv'
  BY <1>3, <1>5, Zenon DEF Data!PredictEpisode
<1>6. ASSUME Data!Summarise \/ Data!KillEvaluation PROVE EvaluationInv'
  BY <1>3, <1>6, Zenon DEF Data!Summarise, Data!KillEvaluation
<1>7. (\E d \in Directories : Data!StartEvaluation(d))
      \/ (\E e \in Episodes : Data!PredictEpisode(e))
      \/ Data!Summarise \/ Data!KillEvaluation \/ UNCHANGED evaluation
  BY Zenon DEF Data!Next, Data!vars, Data!StartPreparing, Data!Render, Data!WriteManifest,
     Data!KillPreparer, Data!Copy, Data!BeginTraining, Data!NameManifest, Data!Train, Data!Freeze
<1> QED
  BY <1>1, <1>2, <1>4, <1>5, <1>6, <1>7, Zenon

LEMMA DataKept == ASSUME Data!VisualDataAssumption, DataInv, [Data!Next]_(Data!vars) PROVE DataInv'
BY ShardKept, PreparerKept, ManifestKept, TrainerKept, CheckpointKept, EvaluationKept, Zenon
   DEF DataInv

(* The splits of one manifest are of all episodes, and share none.           *)
LEMMA Splits ==
    ASSUME Data!VisualDataAssumption, NEW s \in Data!Seeds, NEW seen,
           seen = Data!InSplit(s, "train") \cup Data!InSplit(s, "validation")
    PROVE  Data!InSplit(s, "test") \cap seen = {} /\ Data!InSplit(s, "test") \cup seen = Episodes
<1>1. \A e \in Episodes : SplitOf[s][e] \in {"train", "validation", "test"}
  BY DEF Data!VisualDataAssumption
<1> QED
  BY <1>1 DEF Data!InSplit

LEMMA DataSays ==
    ASSUME Data!VisualDataAssumption, DataInv
    PROVE  Data!TypeOK /\ Data!HeldOutStaysHeldOut /\ Data!OneRendering
<1>1. Data!TypeOK
  <2>1. preparer.done \subseteq Episodes
    BY DEF DataInv, PreparerInv, Data!NoJob
  <2> QED
    BY <2>1 DEF Data!TypeOK, DataInv, ShardType, PreparerInv, CheckpointInv, EvaluationInv
<1>2. Data!HeldOutStaysHeldOut
  <2> SUFFICES ASSUME evaluation.stage = "completed" PROVE Data!HeldOutStaysHeldOut
    BY DEF Data!HeldOutStaysHeldOut
  <2> DEFINE c == checkpoints[frozen.checkpoint]
  <2>1. /\ frozen.checkpoint \in DOMAIN checkpoints /\ evaluation.manifest = c.named
        /\ Data!Predicted = Data!Held /\ Len(evaluation.rows) = Cardinality(Data!Predicted)
    BY DEF DataInv, CheckpointInv, EvaluationInv, RowsInv
  <2>2. Sound(c)
    BY <2>1 DEF DataInv, CheckpointInv
  <2>3. /\ evaluation.manifest.seed \in Data!Seeds
        /\ DOMAIN c.read = Seen(evaluation.manifest)
    BY <2>1, <2>2, Names DEF Sound
  <2>4. Data!Predicted \cap DOMAIN c.read = {} /\ Data!Predicted \cup DOMAIN c.read = Episodes
    BY <2>1, <2>3, Splits DEF Data!Held, Seen
  <2>5. Cardinality(Data!Predicted) = Data!Cardinality(Data!Predicted)
    BY Zenon DEF Cardinality, Data!Cardinality, IsFiniteSet, Data!IsFiniteSet
  <2> QED
    BY <2>1, <2>4, <2>5, Zenon DEF Data!HeldOutStaysHeldOut
<1>3. Data!OneRendering
  BY Zenon DEF DataInv, CheckpointInv, Sound, EvaluationInv, RowsInv, Data!OneRendering
<1> QED
  BY <1>1, <1>2, <1>3

(* Whatever splits the seeds give, and however often data is prepared,       *)
(* copied over and trained on, a completed evaluation is of the test split   *)
(* the frozen checkpoint never saw, and all read what the manifests list.    *)
THEOREM HeldOutNumbersAreHeldOut ==
    ASSUME Data!VisualDataAssumption
    PROVE  Data!Spec => [](Data!TypeOK /\ Data!HeldOutStaysHeldOut /\ Data!OneRendering)
<1>1. Data!Init => DataInv
  BY Begins
<1>2. DataInv /\ [Data!Next]_(Data!vars) => DataInv'
  BY DataKept
<1>3. DataInv => Data!TypeOK /\ Data!HeldOutStaysHeldOut /\ Data!OneRendering
  BY DataSays
<1> QED
  BY <1>1, <1>2, <1>3, PTL DEF Data!Spec

-----------------------------------------------------------------------------
(* The gates: what is in the evidence directory, and who writes it. *)

Row == UNION {Answers[p] : p \in Gate!Gates}
EpisodeLog ==
    [status : {"NOT_RUN", "RUNNING", "REJECTED", "DONE", "ERROR"}, score : {"none", "PASS", "FAIL"}]
Receipts == [status : Gate!Statuses, rows : Seq(Row), episodes : Seq(EpisodeLog),
             sealed : BOOLEAN]
ScoreFiles == [status : {"missing", "PASS", "FAIL"}, receipt : Receipts]
Places == {"idle", "opening", "calling", "closing", "scoring", "hashed", "native", "episodes",
           "ending"}
Processes == [pc : Places, phase : Gate!Phases \cup {"none"}, receipt : Receipts,
              score : ScoreFiles]
ReceiptShape == receipts \in [Gate!Phases -> Receipts]
ScoreShape == scores \in [Gate!Gates -> ScoreFiles]
ProcShape == proc \in [Workers -> Processes]
GateShape == ReceiptShape /\ ScoreShape /\ ProcShape

(* A process writes the receipt of the phase it runs. *)
Writes(w, p) ==
    proc[w].phase = p /\ proc[w].pc \in {"opening", "calling", "closing", "episodes", "ending"}
OneWriter == \A v, w \in Workers, p \in Gate!Phases : Writes(v, p) /\ Writes(w, p) => v = w

(* What passed its gate and cannot change. *)
Final(p) == Gate!Passes(p, receipts[p]) /\ receipts[p].sealed
GatesMet == \A p \in Gate!Gates : Final(p)

InOrder(logs) ==
    /\ \A i, j \in DOMAIN logs :
          j < i /\ logs[i].status # "NOT_RUN" => logs[j].status \notin {"NOT_RUN", "RUNNING"}
    /\ 3 \in DOMAIN logs /\ logs[3].status # "NOT_RUN" =>
          \A j \in 1..2 : logs[j].score = "PASS"

ProcessInv(w) ==
    LET p == proc[w].phase
        held == proc[w].receipt
        pc == proc[w].pc
    IN /\ pc \in {"opening", "calling", "closing", "scoring", "hashed"} => p \in Gate!Gates
       /\ pc \in {"native", "episodes", "ending"} => p = "native" /\ GatesMet
       /\ pc \in {"opening", "calling", "closing", "episodes", "ending"} =>
             receipts[p].status # "missing" /\ ~receipts[p].sealed
       /\ pc \in {"calling", "closing", "episodes", "ending"} => held.status # "missing"
       /\ pc = "opening" => receipts[p].rows = <<>>
       /\ pc = "calling" => /\ held = receipts[p] /\ held.status = "RUNNING"
                            /\ \A i \in DOMAIN held.rows : held.rows[i] # "timeout"
       /\ pc = "closing" => held.rows = receipts[p].rows
       /\ pc = "episodes" => held.status = "RUNNING" /\ ~held.sealed
       /\ pc \in {"episodes", "ending"} => InOrder(held.episodes)
       /\ pc \in {"scoring", "hashed"} /\ proc[w].score.status = "PASS" => Final(p)
       /\ pc = "scoring" /\ proc[w].score.status = "PASS" => held = receipts[p]
       /\ pc = "hashed" /\ proc[w].score.status = "PASS" => proc[w].score.receipt = receipts[p]
ProcessesInv == \A w \in Workers : ProcessInv(w)

DiskInv == \A p \in Gate!Phases :
    /\ receipts[p].status = "missing" => receipts[p] = Gate!Missing
    /\ p # "native" /\ receipts[p].status = "COMPLETED" => receipts[p].sealed
GateLogsInv ==
    /\ receipts["native"].status # "missing" => GatesMet
    /\ InOrder(receipts["native"].episodes)
ScoresInv == \A p \in Gate!Gates :
    scores[p].status = "PASS" => scores[p].receipt = receipts[p] /\ Final(p)

(* What the receipt of a phase has to say of the calls made: each has its    *)
(* row, and none follows a timeout.                                          *)
FirstAsked(n, k) == [i \in 1..n |-> IF i <= k THEN 1 ELSE 0]
Tells(p, r, asked) ==
    /\ Len(r.rows) <= Len(Cases[p])
    /\ asked = FirstAsked(Len(Cases[p]), Len(r.rows))
    /\ \A i \in DOMAIN r.rows : r.rows[i] = "timeout" => i = Len(r.rows)
CallsInv == \A p \in Gate!Gates : Tells(p, receipts[p], calls[p])

GateInv ==
    /\ GateShape /\ OneWriter /\ ProcessesInv /\ DiskInv /\ GateLogsInv /\ ScoresInv
    /\ CallsInv /\ DOMAIN calls = Gate!Gates
-----------------------------------------------------------------------------
(* Shapes. *)

LEMMA ReceiptMade ==
    ASSUME NEW status \in Gate!Statuses, NEW rows \in Seq(Row), NEW logs \in Seq(EpisodeLog),
           NEW sealed \in BOOLEAN
    PROVE  [status |-> status, rows |-> rows, episodes |-> logs, sealed |-> sealed] \in Receipts
BY Zenon DEF Receipts

LEMMA ProcessMade ==
    ASSUME NEW pc \in Places, NEW phase \in Gate!Phases \cup {"none"}, NEW r \in Receipts,
           NEW s \in ScoreFiles
    PROVE  [pc |-> pc, phase |-> phase, receipt |-> r, score |-> s] \in Processes
BY DEF Processes

LEMMA EmptyFiles ==
    /\ Gate!Missing \in Receipts /\ Gate!Directory \in Receipts
    /\ Gate!Missing.status = "missing" /\ Gate!Missing.sealed = FALSE
    /\ Gate!Missing.rows = <<>> /\ Gate!Missing.episodes = <<>>
    /\ Gate!Directory.status = "directory" /\ Gate!Directory.sealed = FALSE
    /\ Gate!Directory.rows = <<>> /\ Gate!Directory.episodes = <<>>
    /\ Gate!NoScore \in ScoreFiles /\ Gate!NoScore.status = "missing"
    /\ Gate!Idle \in Processes /\ Gate!Idle.pc = "idle"
<1>0. <<>> \in Seq(Row) /\ <<>> \in Seq(EpisodeLog)
  OBVIOUS
<1>1. /\ Gate!Missing \in Receipts /\ Gate!Missing.status = "missing"
      /\ Gate!Missing.sealed = FALSE /\ Gate!Missing.rows = <<>>
      /\ Gate!Missing.episodes = <<>>
  <2>1. "missing" \in Gate!Statuses
    BY DEF Gate!Statuses
  <2>2. Gate!Missing \in Receipts
    BY <1>0, <2>1, ReceiptMade, Zenon DEF Gate!Missing
  <2> QED
    BY <2>2 DEF Gate!Missing
<1>4. /\ Gate!Directory \in Receipts /\ Gate!Directory.status = "directory"
      /\ Gate!Directory.sealed = FALSE /\ Gate!Directory.rows = <<>>
      /\ Gate!Directory.episodes = <<>>
  BY <1>1 DEF Gate!Directory, Receipts, Gate!Statuses
<1>2. Gate!NoScore \in ScoreFiles /\ Gate!NoScore.status = "missing"
  BY <1>1 DEF Gate!NoScore, ScoreFiles
<1>3. Gate!Idle \in Processes /\ Gate!Idle.pc = "idle"
  <2>1. Gate!Idle.pc = "idle"
    BY DEF Gate!Idle
  <2>2. "none" \in Gate!Phases \cup {"none"}
    OBVIOUS
  <2>4. "idle" \in Places
    BY DEF Places
  <2>3. Gate!Idle \in Processes
    BY <1>1, <1>2, <2>2, <2>4, ProcessMade, Zenon DEF Gate!Idle
  <2> QED
    BY <2>1, <2>3
<1> QED
  BY <1>1, <1>2, <1>3, <1>4

LEMMA SavedShape ==
    ASSUME ReceiptShape, NEW p \in Gate!Phases, NEW r \in Receipts,
           receipts' = [receipts EXCEPT ![p] = r]
    PROVE  /\ ReceiptShape'
           /\ receipts'[p] = r /\ \A q \in Gate!Phases : q # p => receipts'[q] = receipts[q]
BY DEF ReceiptShape

LEMMA Replaced ==
    ASSUME ProcShape, NEW w \in Workers, NEW x \in Processes, proc' = [proc EXCEPT ![w] = x]
    PROVE  /\ ProcShape'
           /\ proc'[w] = x /\ \A v \in Workers \ {w} : proc'[v] = proc[v]
BY DEF ProcShape

LEMMA Gone ==
    ASSUME ProcShape, NEW w \in Workers, NEW pc \in Places, NEW r \in Receipts,
           Gate!Go(w, pc, r)
    PROVE  /\ ProcShape'
           /\ proc'[w].pc = pc /\ proc'[w].receipt = r
           /\ proc'[w].phase = proc[w].phase /\ proc'[w].score = proc[w].score
           /\ \A v \in Workers \ {w} : proc'[v] = proc[v]
<1>1. proc[w] \in Processes
  BY DEF ProcShape
<1>2. proc' = [proc EXCEPT ![w] = [proc[w] EXCEPT !.pc = pc, !.receipt = r]]
  BY DEF Gate!Go
<1> DEFINE x == [proc[w] EXCEPT !.pc = pc, !.receipt = r]
<1>3. x \in Processes /\ x.pc = pc /\ x.receipt = r /\ x.phase = proc[w].phase
      /\ x.score = proc[w].score
  BY <1>1 DEF Processes
<1>4. proc' = [proc EXCEPT ![w] = x]
  BY <1>2
<1> HIDE DEF x
<1> QED
  BY <1>3, <1>4, Replaced

-----------------------------------------------------------------------------
(* What a step of one process leaves alone. *)

Alone(w) ==
    /\ \A v \in Workers \ {w} : proc'[v] = proc[v]
    /\ \A p \in Gate!Phases :
          receipts'[p] # receipts[p] => Writes(w, p) \/ receipts[p].status = "missing"
    /\ \A p \in Gate!Phases :
          Writes(w, p)' => Writes(w, p) \/ receipts[p].status = "missing"

LEMMA WriterOpen ==
    ASSUME ProcessesInv, NEW w \in Workers, NEW p \in Gate!Phases, Writes(w, p)
    PROVE  receipts[p].status # "missing" /\ ~receipts[p].sealed
<1>1. ProcessInv(w)
  BY DEF ProcessesInv
<1> QED
  BY <1>1 DEF ProcessInv, Writes

(* A sealed receipt does not change. *)
LEMMA SealedStays ==
    ASSUME ProcessesInv, DiskInv, NEW w \in Workers, Alone(w), NEW p \in Gate!Phases,
           receipts[p].sealed
    PROVE  receipts'[p] = receipts[p]
<1>1. ~Writes(w, p)
  BY WriterOpen
<1>2. receipts[p].status # "missing"
  BY EmptyFiles DEF DiskInv
<1> QED
  BY <1>1, <1>2 DEF Alone

LEMMA FinalStays ==
    ASSUME ProcessesInv, DiskInv, NEW w \in Workers, Alone(w), NEW p \in Gate!Phases, Final(p)
    PROVE  receipts'[p] = receipts[p] /\ Final(p)'
<1>1. receipts'[p] = receipts[p]
  BY SealedStays DEF Final
<1> QED
  BY <1>1 DEF Final

LEMMA GatesStayMet ==
    ASSUME ProcessesInv, DiskInv, NEW w \in Workers, Alone(w), GatesMet
    PROVE  GatesMet'
<1>1. ASSUME NEW p \in Gate!Gates PROVE Final(p)'
  BY <1>1, FinalStays DEF GatesMet, Gate!Phases
<1> QED
  BY <1>1 DEF GatesMet

LEMMA OthersKept ==
    ASSUME ProcessesInv, DiskInv, OneWriter, NEW w \in Workers, Alone(w),
           NEW v \in Workers \ {w}
    PROVE  ProcessInv(v)'
<1> DEFINE p == proc[v].phase
<1>1. ProcessInv(v) /\ proc'[v] = proc[v]
  BY DEF ProcessesInv, Alone
<1>2. proc[v].pc \in {"opening", "calling", "closing", "episodes", "ending"} =>
      receipts'[p] = receipts[p]
  <2> SUFFICES ASSUME proc[v].pc \in {"opening", "calling", "closing", "episodes", "ending"}
               PROVE  receipts'[p] = receipts[p]
    OBVIOUS
  <2>1. p \in Gate!Phases /\ Writes(v, p)
    BY <1>1 DEF ProcessInv, Writes, Gate!Phases
  <2>2. receipts[p].status # "missing" /\ ~Writes(w, p)
    BY <2>1, WriterOpen DEF OneWriter
  <2> QED
    BY <2>1, <2>2 DEF Alone
<1>3. proc[v].pc \in {"scoring", "hashed"} /\ proc[v].score.status = "PASS" =>
      Final(p)' /\ receipts'[p] = receipts[p]
  BY <1>1, FinalStays DEF ProcessInv, Gate!Phases
<1>4. proc[v].pc \in {"native", "episodes", "ending"} => GatesMet'
  BY <1>1, GatesStayMet DEF ProcessInv
<1> QED
  BY <1>1, <1>2, <1>3, <1>4 DEF ProcessInv

LEMMA OneWriterKept ==
    ASSUME ProcessesInv, OneWriter, NEW w \in Workers, Alone(w)
    PROVE  OneWriter'
<1> SUFFICES ASSUME NEW u \in Workers, NEW v \in Workers, NEW p \in Gate!Phases,
                    Writes(u, p)', Writes(v, p)', u # v
             PROVE  FALSE
  BY DEF OneWriter
<1>1. ASSUME NEW x \in Workers, x # w, Writes(x, p)' PROVE Writes(x, p)
  BY <1>1 DEF Alone, Writes
<1>2. ASSUME NEW x \in Workers, x # w, Writes(x, p)', Writes(w, p)' PROVE FALSE
  <2>1. Writes(x, p)
    BY <1>1, <1>2
  <2>2. Writes(w, p)
    BY <1>2, <2>1, WriterOpen DEF Alone
  <2> QED
    BY <1>2, <2>1, <2>2 DEF OneWriter
<1>3. CASE u = w \/ v = w
  BY <1>2, <1>3
<1>4. CASE u # w /\ v # w
  BY <1>1, <1>4 DEF OneWriter
<1> QED
  BY <1>3, <1>4

-----------------------------------------------------------------------------
(* Three kinds of step. *)

LEMMA ScoresStay ==
    ASSUME GateInv, NEW w \in Workers, Alone(w), scores' = scores
    PROVE  ScoresInv'
<1> SUFFICES ASSUME NEW p \in Gate!Gates, scores[p].status = "PASS"
             PROVE  scores[p].receipt = receipts'[p] /\ Final(p)'
  BY DEF ScoresInv
<1>1. p \in Gate!Phases /\ Final(p) /\ scores[p].receipt = receipts[p]
  BY DEF GateInv, ScoresInv, Gate!Phases
<1> QED
  BY <1>1, FinalStays DEF GateInv

LEMMA QuietStep ==
    ASSUME GateInv, NEW w \in Workers, Alone(w), ProcShape', ProcessInv(w)',
           UNCHANGED <<receipts, calls>>, ScoreShape', ScoresInv'
    PROVE  GateInv'
<1>1. receipts' = receipts /\ calls' = calls
  OBVIOUS
<1>2. GateShape' /\ DiskInv' /\ DOMAIN calls' = Gate!Gates
  BY <1>1, Zenon DEF GateInv, GateShape, ReceiptShape, DiskInv
<1>3. CallsInv'
  BY <1>1, Zenon DEF GateInv, CallsInv
<1>4. GateLogsInv'
  BY <1>1, GatesStayMet, Zenon DEF GateInv, GateLogsInv
<1>5. OneWriter'
  BY OneWriterKept DEF GateInv
<1>6. ProcessesInv'
  BY OthersKept, Zenon DEF GateInv, ProcessesInv
<1> QED
  BY <1>2, <1>3, <1>4, <1>5, <1>6, Zenon DEF GateInv

LEMMA GateStep ==
    ASSUME GateInv, NEW w \in Workers, Alone(w), ProcShape', ProcessInv(w)',
           NEW p \in Gate!Gates, p # "native", NEW r \in Receipts,
           receipts' = [receipts EXCEPT ![p] = r],
           r.status # "missing", r.status = "COMPLETED" => r.sealed,
           UNCHANGED scores, DOMAIN calls' = Gate!Gates, Tells(p, r, calls'[p]),
           \A q \in Gate!Gates : q # p => calls'[q] = calls[q]
    PROVE  GateInv'
<1>1. /\ ReceiptShape' /\ receipts'[p] = r
      /\ \A q \in Gate!Phases : q # p => receipts'[q] = receipts[q]
  BY SavedShape DEF GateInv, GateShape, Gate!Phases
<1>2. GateShape'
  BY <1>1 DEF GateInv, GateShape, ScoreShape
<1>3. DiskInv'
  BY <1>1, Zenon DEF GateInv, DiskInv
<1>4. CallsInv'
  <2> SUFFICES ASSUME NEW q \in Gate!Gates PROVE Tells(q, receipts'[q], calls'[q])
    BY DEF CallsInv
  <2>1. CASE q = p
    BY <1>1, <2>1
  <2>2. CASE q # p
    <3>1. q \in Gate!Phases
      BY DEF Gate!Phases
    <3>2. receipts'[q] = receipts[q] /\ calls'[q] = calls[q]
      BY <1>1, <2>2, <3>1
    <3> QED
      BY <3>2, Zenon DEF GateInv, CallsInv
  <2> QED
    BY <2>1, <2>2
<1>5. GateLogsInv'
  <2>1. receipts'["native"] = receipts["native"]
    BY <1>1 DEF Gate!Phases
  <2> QED
    BY <2>1, GatesStayMet, Zenon DEF GateInv, GateLogsInv
<1>6. ScoresInv'
  BY ScoresStay
<1>7. OneWriter'
  BY OneWriterKept DEF GateInv
<1>8. ProcessesInv'
  BY OthersKept, Zenon DEF GateInv, ProcessesInv
<1> QED
  BY <1>2, <1>3, <1>4, <1>5, <1>6, <1>7, <1>8, Zenon DEF GateInv

LEMMA NativeStep ==
    ASSUME Gate!GateAssumption, GateInv, NEW w \in Workers, Alone(w), ProcShape',
           ProcessInv(w)', NEW r \in Receipts, receipts' = [receipts EXCEPT !["native"] = r],
           r.status # "missing", GatesMet, InOrder(r.episodes), UNCHANGED <<scores, calls>>
    PROVE  GateInv'
<1>0. "native" \in Gate!Phases /\ \A q \in Gate!Gates : q \in Gate!Phases /\ q # "native"
  BY DEF Gate!GateAssumption, Gate!Gates, Gate!Phases
<1>1. /\ ReceiptShape' /\ receipts'["native"] = r
      /\ \A q \in Gate!Phases : q # "native" => receipts'[q] = receipts[q]
  BY <1>0, SavedShape DEF GateInv, GateShape
<1>2. scores' = scores /\ calls' = calls
  OBVIOUS
<1>3. GateShape' /\ DOMAIN calls' = Gate!Gates
  BY <1>1, <1>2, Zenon DEF GateInv, GateShape, ScoreShape
<1>4. DiskInv'
  BY <1>1, Zenon DEF GateInv, DiskInv
<1>5. CallsInv'
  <2> SUFFICES ASSUME NEW q \in Gate!Gates PROVE Tells(q, receipts'[q], calls'[q])
    BY Zenon DEF CallsInv
  <2> QED
    BY <1>0, <1>1, <1>2, Zenon DEF GateInv, CallsInv
<1>6. GateLogsInv'
  BY <1>1, GatesStayMet, Zenon DEF GateInv, GateLogsInv
<1>7. ScoresInv'
  BY <1>2, ScoresStay
<1>8. OneWriter'
  BY OneWriterKept DEF GateInv
<1>9. ProcessesInv'
  BY OthersKept, Zenon DEF GateInv, ProcessesInv
<1> QED
  BY <1>3, <1>4, <1>5, <1>6, <1>7, <1>8, <1>9, Zenon DEF GateInv

-----------------------------------------------------------------------------
(* The steps of the runners. *)

Writing == {"opening", "calling", "closing", "episodes", "ending"}

(* A process goes on with its phase, or leaves it. *)
LEMMA StaysAlone ==
    ASSUME NEW w \in Workers, \A v \in Workers \ {w} : proc'[v] = proc[v],
           \A p \in Gate!Phases :
              proc[w].phase # p \/ proc[w].pc \notin Writing => receipts'[p] = receipts[p],
           proc'[w].pc \in Writing => proc[w].pc \in Writing /\ proc'[w].phase = proc[w].phase
    PROVE  Alone(w)
<1>1. ASSUME NEW p \in Gate!Phases, receipts'[p] # receipts[p] PROVE Writes(w, p)
  BY <1>1 DEF Writes, Writing
<1>2. ASSUME NEW p \in Gate!Phases, Writes(w, p)' PROVE Writes(w, p)
  BY <1>2 DEF Writes, Writing
<1> QED
  BY <1>1, <1>2 DEF Alone

LEMMA GateStarts ==
    ASSUME GateInv, Gate!GateAssumption, NEW w \in Workers, NEW p \in Gate!Gates,
           Gate!Start(w, p)
    PROVE  GateInv'
<1> DEFINE x == [Gate!Idle EXCEPT !.pc = "opening", !.phase = p]
<1>1. x \in Processes /\ x.pc = "opening" /\ x.phase = p
  BY EmptyFiles DEF Processes, Gate!Phases, Places
<1>2. proc' = [proc EXCEPT ![w] = x] /\ receipts' = [receipts EXCEPT ![p] = Gate!Directory]
      /\ receipts[p].status = "missing" /\ UNCHANGED <<scores, calls>>
  BY DEF Gate!Start, Gate!NewOutput
<1> HIDE DEF x
<1>3. p # "native" /\ p \in Gate!Phases
  BY DEF Gate!GateAssumption, Gate!Gates, Gate!Phases
<1>4. ProcShape' /\ proc'[w] = x /\ \A v \in Workers \ {w} : proc'[v] = proc[v]
  BY <1>1, <1>2, Replaced DEF GateInv, GateShape
<1>5. receipts'[p] = Gate!Directory /\ \A q \in Gate!Phases : q # p => receipts'[q] = receipts[q]
  BY <1>2, <1>3, EmptyFiles, SavedShape DEF GateInv, GateShape
<1>6. Alone(w)
  BY <1>1, <1>2, <1>4, <1>5 DEF Alone, Writes
<1>7. ProcessInv(w)'
  BY <1>1, <1>4, <1>5, EmptyFiles DEF ProcessInv
<1>8. Tells(p, Gate!Directory, calls'[p])
  <2>1. receipts[p] = Gate!Missing /\ Tells(p, receipts[p], calls[p])
    BY <1>2, <1>3 DEF GateInv, DiskInv, CallsInv
  <2> QED
    BY <1>2, <2>1, EmptyFiles DEF Tells
<1>9. DOMAIN calls' = Gate!Gates /\ \A q \in Gate!Gates : calls'[q] = calls[q]
  BY <1>2 DEF GateInv
<1> QED
  BY <1>2, <1>3, <1>4, <1>6, <1>7, <1>8, <1>9, EmptyFiles, GateStep

LEMMA WorkerFacts ==
    ASSUME GateInv, Gate!GateAssumption, NEW w \in Workers
    PROVE  /\ ProcShape /\ ProcessInv(w) /\ proc[w] \in Processes
           /\ proc[w].receipt \in Receipts /\ proc[w].score \in ScoreFiles
           /\ proc[w].phase \in Gate!Gates =>
                 /\ proc[w].phase # "native" /\ proc[w].phase \in Gate!Phases
                 /\ receipts[proc[w].phase] \in Receipts
                 /\ Tells(proc[w].phase, receipts[proc[w].phase], calls[proc[w].phase])
<1>1. ProcShape /\ ProcessInv(w) /\ proc[w] \in Processes
  BY DEF GateInv, GateShape, ProcShape, ProcessesInv
<1>2. proc[w].receipt \in Receipts /\ proc[w].score \in ScoreFiles
  BY <1>1 DEF Processes
<1>3. ASSUME NEW p \in Gate!Gates
      PROVE  /\ p # "native" /\ p \in Gate!Phases /\ receipts[p] \in Receipts
             /\ Tells(p, receipts[p], calls[p])
  <2>1. p # "native" /\ p \in Gate!Phases
    BY DEF Gate!GateAssumption, Gate!Gates, Gate!Phases
  <2> QED
    BY <2>1 DEF GateInv, GateShape, ReceiptShape, CallsInv
<1> QED
  BY <1>1, <1>2, <1>3

LEMMA GateOpens ==
    ASSUME GateInv, Gate!GateAssumption, NEW w \in Workers, Gate!Open(w)
    PROVE  GateInv'
<1> DEFINE p == proc[w].phase
           new == [Gate!Missing EXCEPT !.status = "RUNNING"]
<1>1. p \in Gate!Gates /\ proc[w].pc = "opening" /\ UNCHANGED <<scores, calls>>
      /\ receipts' = [receipts EXCEPT ![p] = new] /\ Gate!Go(w, "calling", new)
  BY DEF Gate!Open, Gate!Save, Gate!At
<1>2. new \in Receipts /\ new.status = "RUNNING" /\ new.rows = <<>> /\ new.sealed = FALSE
  BY EmptyFiles DEF Receipts, Gate!Statuses
<1> HIDE DEF new
<1>3. ProcessInv(w) /\ p # "native" /\ p \in Gate!Phases /\ Tells(p, receipts[p], calls[p])
  BY <1>1, WorkerFacts
<1>4. /\ ProcShape' /\ proc'[w].pc = "calling" /\ proc'[w].receipt = new
      /\ proc'[w].phase = p /\ \A v \in Workers \ {w} : proc'[v] = proc[v]
  BY <1>1, <1>2, Gone DEF GateInv, GateShape, Places
<1>5. receipts'[p] = new /\ \A q \in Gate!Phases : q # p => receipts'[q] = receipts[q]
  BY <1>1, <1>2, <1>3, SavedShape DEF GateInv, GateShape
<1>6. Alone(w)
  BY <1>1, <1>4, <1>5, StaysAlone DEF Writing
<1>7. ProcessInv(w)'
  BY <1>1, <1>2, <1>4, <1>5 DEF ProcessInv
<1>8. Tells(p, new, calls'[p])
  BY <1>1, <1>2, <1>3 DEF ProcessInv, Tells
<1>9. DOMAIN calls' = Gate!Gates /\ \A q \in Gate!Gates : calls'[q] = calls[q]
  BY <1>1 DEF GateInv
<1> QED
  BY <1>1, <1>2, <1>3, <1>4, <1>6, <1>7, <1>8, <1>9, GateStep

(* A process that only changes its mind. *)
LEMMA GateGoesOn ==
    ASSUME GateInv, Gate!GateAssumption, NEW w \in Workers, NEW pc \in Places,
           NEW r \in Receipts, Gate!Go(w, pc, r), UNCHANGED <<receipts, scores, calls>>,
           pc \in Writing => proc[w].pc \in Writing, ProcessInv(w)'
    PROVE  GateInv'
<1>1. /\ ProcShape' /\ proc'[w].pc = pc /\ proc'[w].phase = proc[w].phase
      /\ \A v \in Workers \ {w} : proc'[v] = proc[v]
  BY Gone DEF GateInv, GateShape
<1>2. Alone(w)
  BY <1>1, StaysAlone
<1>3. ScoreShape' /\ ScoresInv'
  BY <1>2, ScoresStay, Zenon DEF GateInv, GateShape, ScoreShape
<1> QED
  BY <1>1, <1>2, <1>3, QuietStep

(* A process that becomes another. *)
LEMMA GateBecomes ==
    ASSUME GateInv, Gate!GateAssumption, NEW w \in Workers, NEW x \in Processes,
           proc' = [proc EXCEPT ![w] = x], UNCHANGED <<receipts, scores, calls>>,
           x.pc \notin Writing, ProcessInv(w)'
    PROVE  GateInv'
<1>1. ProcShape' /\ proc'[w] = x /\ \A v \in Workers \ {w} : proc'[v] = proc[v]
  BY Replaced DEF GateInv, GateShape
<1>2. Alone(w)
  BY <1>1, StaysAlone
<1>3. ScoreShape' /\ ScoresInv'
  BY <1>2, ScoresStay, Zenon DEF GateInv, GateShape, ScoreShape
<1> QED
  BY <1>1, <1>2, <1>3, QuietStep

LEMMA EndedReceipt ==
    ASSUME NEW r \in Receipts, NEW status \in {"COMPLETED", "ERROR", "STOPPED_BY_GATE"}
    PROVE  /\ Gate!Ended(r, status) \in Receipts /\ Gate!Ended(r, status).status = status
           /\ Gate!Ended(r, status).rows = r.rows
           /\ Gate!Ended(r, status).episodes = r.episodes
BY DEF Gate!Ended, Receipts, Gate!Statuses

LEMMA GateFailsOrFinishes ==
    ASSUME GateInv, Gate!GateAssumption, NEW w \in Workers, Gate!Fail(w) \/ Gate!Finish(w)
    PROVE  GateInv'
<1>1. PICK status \in {"COMPLETED", "ERROR"} :
        Gate!Go(w, "closing", Gate!Ended(proc[w].receipt, status))
  BY Zenon DEF Gate!Fail, Gate!Finish, Gate!Receipt
<1> DEFINE r == Gate!Ended(proc[w].receipt, status)
<1>2. proc[w].pc = "calling" /\ UNCHANGED <<receipts, scores, calls>>
  BY DEF Gate!Fail, Gate!Finish, Gate!At
<1>3. ProcShape /\ ProcessInv(w) /\ proc[w].receipt \in Receipts
  BY WorkerFacts
<1>4. r \in Receipts /\ r.status = status /\ r.rows = proc[w].receipt.rows
  BY <1>3, EndedReceipt
<1> HIDE DEF r
<1>5. /\ proc'[w].pc = "closing" /\ proc'[w].receipt = r /\ proc'[w].phase = proc[w].phase
  BY <1>1, <1>3, <1>4, Gone DEF Places, r
<1>6. ProcessInv(w)'
  BY <1>2, <1>3, <1>4, <1>5 DEF ProcessInv
<1> QED
  BY <1>1, <1>2, <1>4, <1>6, GateGoesOn DEF Places, Writing, r

LEMMA GateDies ==
    ASSUME GateInv, Gate!GateAssumption, NEW w \in Workers, Gate!Die(w)
    PROVE  GateInv'
<1>1. proc' = [proc EXCEPT ![w] = Gate!Idle] /\ UNCHANGED <<receipts, scores, calls>>
  BY DEF Gate!Die
<1>2. proc'[w].pc = "idle"
  BY <1>1, EmptyFiles DEF GateInv, GateShape, ProcShape
<1>3. ProcessInv(w)'
  BY <1>2 DEF ProcessInv
<1> QED
  BY <1>1, <1>3, EmptyFiles, GateBecomes DEF Writing

LEMMA GateCloses ==
    ASSUME GateInv, Gate!GateAssumption, NEW w \in Workers, Gate!Close(w)
    PROVE  GateInv'
<1> DEFINE p == proc[w].phase
           r == [proc[w].receipt EXCEPT !.sealed = TRUE]
<1>1. /\ proc[w].pc = "closing" /\ proc' = [proc EXCEPT ![w] = Gate!Idle]
      /\ UNCHANGED <<scores, calls>>
      /\ receipts' = [receipts EXCEPT ![p] = r] \/ UNCHANGED receipts
  BY DEF Gate!Close, Gate!At, Gate!Save, Gate!Receipt
<1>2. ProcShape' /\ proc'[w].pc = "idle" /\ \A v \in Workers \ {w} : proc'[v] = proc[v]
  BY <1>1, EmptyFiles, Replaced DEF GateInv, GateShape
<1>3. ProcessInv(w)'
  BY <1>2 DEF ProcessInv
<1>4. CASE UNCHANGED receipts
  BY <1>1, <1>3, <1>4, EmptyFiles, GateBecomes DEF Writing
<1>5. CASE receipts' = [receipts EXCEPT ![p] = r]
  <2>1. /\ proc[w].receipt \in Receipts /\ ProcessInv(w) /\ p \in Gate!Gates /\ p # "native"
        /\ p \in Gate!Phases /\ Tells(p, receipts[p], calls[p])
    BY <1>1, WorkerFacts DEF ProcessInv
  <2>2. /\ r \in Receipts /\ r.sealed = TRUE /\ r.status = proc[w].receipt.status
        /\ r.rows = proc[w].receipt.rows
    BY <2>1 DEF Receipts
  <2> HIDE DEF r
  <2>3. Tells(p, r, calls'[p]) /\ r.status # "missing"
    BY <1>1, <2>1, <2>2 DEF ProcessInv, Tells
  <2>4. \A q \in Gate!Phases : q # p => receipts'[q] = receipts[q]
    BY <1>5, <2>1, <2>2, SavedShape DEF GateInv, GateShape
  <2>5. Alone(w)
    BY <1>1, <1>2, <2>4, StaysAlone DEF Writing
  <2>6. DOMAIN calls' = Gate!Gates /\ \A q \in Gate!Gates : calls'[q] = calls[q]
    BY <1>1 DEF GateInv
  <2> QED
    BY <1>1, <1>2, <1>3, <1>5, <2>1, <2>2, <2>3, <2>5, <2>6, GateStep
<1> QED
  BY <1>1, <1>4, <1>5

(* One more row.                                                             *)
LEMMA RowAppended ==
    ASSUME NEW rows \in Seq(Row), NEW d \in Row
    PROVE  /\ Append(rows, d) \in Seq(Row) /\ Len(Append(rows, d)) = Len(rows) + 1
           /\ Len(rows) \in Nat /\ DOMAIN rows = 1..Len(rows)
           /\ DOMAIN Append(rows, d) = 1..Len(rows) + 1
           /\ Append(rows, d)[Len(rows) + 1] = d
           /\ \A i \in 1..Len(rows) : Append(rows, d)[i] = rows[i]
OBVIOUS

(* The call is counted where its row is.                                     *)
LEMMA CallTold ==
    ASSUME NEW n \in Nat, NEW k \in Nat, k < n, NEW asked, NEW more,
           asked = FirstAsked(n, k), more = [asked EXCEPT ![k + 1] = @ + 1]
    PROVE  more = FirstAsked(n, k + 1)
BY DEF FirstAsked

LEMMA GateCalls ==
    ASSUME GateInv, Gate!GateAssumption, NEW w \in Workers, Gate!Call(w)
    PROVE  GateInv'
<1> DEFINE p == proc[w].phase
           held == proc[w].receipt
           k == Len(held.rows)
<1>1. /\ proc[w].pc = "calling" /\ k < Len(Cases[p]) /\ UNCHANGED scores
      /\ calls' = [calls EXCEPT ![p][k + 1] = @ + 1]
  BY DEF Gate!Call, Gate!At, Gate!Receipt
<1>2. PICK d \in Answers[p] :
        LET rows == Append(held.rows, d)
            receipt == [held EXCEPT !.rows = rows]
        IN /\ receipts' = [receipts EXCEPT ![p] = receipt]
           /\ IF Gate!Stops(p, rows, d)
              THEN Gate!Go(w, "closing", Gate!Ended(receipt, "ERROR"))
              ELSE Gate!Go(w, "calling", receipt)
  BY Zenon DEF Gate!Call, Gate!Save, Gate!Receipt
<1>3. /\ ProcShape /\ ProcessInv(w) /\ held \in Receipts /\ p \in Gate!Gates
      /\ p # "native" /\ p \in Gate!Phases /\ Tells(p, receipts[p], calls[p])
  BY <1>1, WorkerFacts DEF ProcessInv
<1>4. held = receipts[p] /\ held.status = "RUNNING" /\ ~held.sealed
      /\ \A i \in DOMAIN held.rows : held.rows[i] # "timeout"
  BY <1>1, <1>3 DEF ProcessInv
<1> DEFINE rows == Append(held.rows, d)
           r == [held EXCEPT !.rows = rows]
<1>5. d \in Row /\ held.rows \in Seq(Row)
  BY <1>3 DEF Row, Receipts
<1>6. /\ rows \in Seq(Row) /\ Len(rows) = k + 1 /\ k \in Nat /\ DOMAIN held.rows = 1..k
      /\ DOMAIN rows = 1..k + 1 /\ rows[k + 1] = d
      /\ \A i \in 1..k : rows[i] = held.rows[i]
  BY <1>5, RowAppended
<1> HIDE DEF rows
<1>7. r \in Receipts /\ r.rows = rows /\ r.status = "RUNNING" /\ r.sealed = held.sealed
  BY <1>3, <1>4, <1>6 DEF Receipts
<1> HIDE DEF r
<1>8. Len(Cases[p]) \in Nat
  BY <1>3 DEF Gate!GateAssumption, Gate!Gates
<1>9. /\ DOMAIN calls' = Gate!Gates /\ \A q \in Gate!Gates : q # p => calls'[q] = calls[q]
      /\ calls'[p] = [calls[p] EXCEPT ![k + 1] = @ + 1]
  BY <1>1, <1>3 DEF GateInv
<1>10. Tells(p, r, calls'[p])
  <2>1. calls'[p] = FirstAsked(Len(Cases[p]), k + 1)
    <3>1. calls[p] = FirstAsked(Len(Cases[p]), k)
      BY <1>3, <1>4 DEF Tells
    <3> DEFINE n == Len(Cases[p])
               asked == calls[p]
               more == calls'[p]
    <3>2. n \in Nat /\ k \in Nat /\ k < n
      BY <1>1, <1>6, <1>8
    <3>3. more = [asked EXCEPT ![k + 1] = @ + 1]
      BY <1>9, Zenon
    <3>5. asked = FirstAsked(n, k)
      BY <3>1, Zenon
    <3> HIDE DEF k, n, asked, more
    <3>4. more = FirstAsked(n, k + 1)
      BY <3>2, <3>3, <3>5, CallTold, Zenon
    <3> QED
      BY <3>4, Zenon DEF more, n
  <2>2. \A i \in DOMAIN rows : rows[i] = "timeout" => i = k + 1
    BY <1>4, <1>6
  <2>3. Len(rows) <= Len(Cases[p])
    BY <1>1, <1>6, <1>8
  <2> HIDE DEF k
  <2> QED
    BY <1>6, <1>7, <2>1, <2>2, <2>3, Zenon DEF Tells
<1>11. receipts' = [receipts EXCEPT ![p] = r]
  BY <1>2 DEF r, rows
<1>12. receipts'[p] = r /\ \A q \in Gate!Phases : q # p => receipts'[q] = receipts[q]
  BY <1>3, <1>7, <1>11, SavedShape DEF GateInv, GateShape
<1>13. CASE Gate!Stops(p, rows, d)
  <2> DEFINE ended == Gate!Ended(r, "ERROR")
  <2>1. Gate!Go(w, "closing", ended)
    BY <1>2, <1>13 DEF r, rows
  <2>2. ended \in Receipts /\ ended.status = "ERROR" /\ ended.rows = rows
    BY <1>7, EndedReceipt
  <2> HIDE DEF ended
  <2>3. /\ ProcShape' /\ proc'[w].pc = "closing" /\ proc'[w].receipt = ended
        /\ proc'[w].phase = p /\ \A v \in Workers \ {w} : proc'[v] = proc[v]
    BY <1>3, <2>1, <2>2, Gone DEF Places
  <2>4. Alone(w)
    BY <1>1, <1>12, <2>3, StaysAlone DEF Writing
  <2>5. ProcessInv(w)'
    BY <1>3, <1>4, <1>7, <1>12, <2>2, <2>3 DEF ProcessInv
  <2> QED
    BY <1>1, <1>3, <1>7, <1>9, <1>10, <1>11, <2>3, <2>4, <2>5, GateStep
<1>14. CASE ~Gate!Stops(p, rows, d)
  <2>1. Gate!Go(w, "calling", r)
    BY <1>2, <1>14 DEF r, rows
  <2>2. /\ ProcShape' /\ proc'[w].pc = "calling" /\ proc'[w].receipt = r
        /\ proc'[w].phase = p /\ \A v \in Workers \ {w} : proc'[v] = proc[v]
    BY <1>3, <1>7, <2>1, Gone DEF Places
  <2>3. Alone(w)
    BY <1>1, <1>12, <2>2, StaysAlone DEF Writing
  <2>4. \A i \in DOMAIN rows : rows[i] # "timeout"
    <3>1. d # "timeout"
      BY <1>14 DEF Gate!Stops
    <3> HIDE DEF k
    <3> SUFFICES ASSUME NEW i \in 1..k + 1 PROVE rows[i] # "timeout"
      BY <1>6
    <3>2. i \in 1..k \/ i = k + 1
      BY <1>6
    <3> QED
      BY <1>4, <1>6, <3>1, <3>2, Zenon
  <2>5. ProcessInv(w)'
    BY <1>3, <1>4, <1>7, <1>12, <2>2, <2>4 DEF ProcessInv
  <2> QED
    BY <1>1, <1>3, <1>7, <1>9, <1>10, <1>11, <2>2, <2>3, <2>5, GateStep
<1> QED
  BY <1>13, <1>14

-----------------------------------------------------------------------------
(* The steps of the scorers. *)

(* A run that passes has been completed, so that its receipt is the last.    *)
LEMMA PassedIsFinal ==
    ASSUME DiskInv, Gate!GateAssumption, NEW p \in Gate!Gates, Gate!Passes(p, receipts[p])
    PROVE  Final(p)
<1>1. receipts[p].status = "COMPLETED"
  BY DEF Gate!Passes, Gate!Complete
<1>2. p # "native" /\ p \in Gate!Phases
  BY DEF Gate!GateAssumption, Gate!Gates, Gate!Phases
<1> QED
  BY <1>1, <1>2 DEF DiskInv, Final

LEMMA ScorerReads ==
    ASSUME GateInv, Gate!GateAssumption, NEW w \in Workers, NEW p \in Gate!Gates,
           Gate!ScoreReads(w, p)
    PROVE  GateInv'
<1> DEFINE verdict == IF Gate!Passes(p, receipts[p]) THEN "PASS" ELSE "FAIL"
           score == [Gate!Idle.score EXCEPT !.status = verdict]
           x == [Gate!Idle EXCEPT !.pc = "scoring", !.phase = p, !.receipt = receipts[p],
                                  !.score = score]
<1>1. proc' = [proc EXCEPT ![w] = x] /\ UNCHANGED <<receipts, scores, calls>>
  <2>1. Gate!Idle \in Processes
    BY EmptyFiles
  <2>2. [Gate!Idle EXCEPT !.pc = "scoring", !.phase = p, !.receipt = receipts[p],
                          !.score.status = verdict] = x
    BY <2>1 DEF Processes
  <2> HIDE DEF x
  <2> QED
    BY <2>2, Zenon DEF Gate!ScoreReads
<1>2. receipts[p] \in Receipts /\ p \in Gate!Phases
  BY DEF GateInv, GateShape, ReceiptShape, Gate!Phases
<1>3. verdict \in {"missing", "PASS", "FAIL"} /\ (verdict = "PASS" => Gate!Passes(p, receipts[p]))
  BY Zenon
<1> HIDE DEF verdict
<1>4. score \in ScoreFiles /\ score.status = verdict
  BY <1>3, EmptyFiles DEF Processes, ScoreFiles
<1> HIDE DEF score
<1>5. x \in Processes
  BY <1>2, <1>4, EmptyFiles DEF Processes, Places
<1>6. x.pc = "scoring" /\ x.phase = p /\ x.receipt = receipts[p] /\ x.score = score
  BY <1>2, EmptyFiles DEF Processes
<1> HIDE DEF x
<1>7. proc'[w] = x /\ receipts' = receipts
  BY <1>1, <1>5, Replaced DEF GateInv, GateShape
<1>8. score.status = "PASS" => Final(p)'
  <2>1. score.status = "PASS" => Final(p)
    BY <1>3, <1>4, PassedIsFinal DEF GateInv
  <2> QED
    BY <1>7, <2>1 DEF Final
<1>9. ProcessInv(w)'
  BY <1>6, <1>7, <1>8 DEF ProcessInv
<1> QED
  BY <1>1, <1>5, <1>6, <1>9, GateBecomes DEF Writing

LEMMA ScorerHashes ==
    ASSUME GateInv, Gate!GateAssumption, NEW w \in Workers, Gate!ScoreHashes(w)
    PROVE  GateInv'
<1>0. PICK p : p = proc[w].phase
  OBVIOUS
<1> DEFINE score == [proc[w].score EXCEPT !.receipt = receipts[p]]
           x == [proc[w] EXCEPT !.pc = "hashed", !.score = score]
<1>1. /\ proc' = [proc EXCEPT ![w] = x] /\ proc[w].pc = "scoring"
      /\ UNCHANGED <<receipts, scores, calls>>
  BY <1>0 DEF Gate!ScoreHashes, Gate!At
<1>2. /\ ProcessInv(w) /\ proc[w] \in Processes /\ proc[w].score \in ScoreFiles
      /\ p \in Gate!Gates /\ receipts[p] \in Receipts
  BY <1>0, <1>1, WorkerFacts DEF ProcessInv
<1>3. /\ score \in ScoreFiles /\ score.status = proc[w].score.status
      /\ score.receipt = receipts[p]
  BY <1>2 DEF ScoreFiles
<1> HIDE DEF score
<1>4. x \in Processes /\ x.pc = "hashed" /\ x.phase = p /\ x.score = score
  BY <1>0, <1>2, <1>3 DEF Processes, Places
<1> HIDE DEF x
<1>5. proc'[w] = x /\ receipts' = receipts
  BY <1>1, <1>4, Replaced DEF GateInv, GateShape
<1>6. score.status = "PASS" => Final(p)'
  <2>1. score.status = "PASS" => Final(p)
    BY <1>0, <1>1, <1>2, <1>3 DEF ProcessInv
  <2> QED
    BY <1>5, <2>1, Zenon DEF Final
<1>7. ProcessInv(w)'
  BY <1>2, <1>3, <1>4, <1>5, <1>6 DEF ProcessInv
<1> QED
  BY <1>1, <1>4, <1>7, GateBecomes DEF Writing

LEMMA ScorerSaves ==
    ASSUME GateInv, Gate!GateAssumption, NEW w \in Workers, Gate!ScoreSaves(w)
    PROVE  GateInv'
<1> DEFINE p == proc[w].phase
<1>1. /\ proc[w].pc = "hashed" /\ proc' = [proc EXCEPT ![w] = Gate!Idle]
      /\ scores' = [scores EXCEPT ![p] = proc[w].score] /\ receipts' = receipts
      /\ calls' = calls
  BY DEF Gate!ScoreSaves, Gate!At
<1>2. ProcessInv(w) /\ p \in Gate!Gates /\ proc[w].score \in ScoreFiles
  BY <1>1, WorkerFacts DEF ProcessInv
<1>3. ProcShape' /\ proc'[w].pc = "idle" /\ \A v \in Workers \ {w} : proc'[v] = proc[v]
  BY <1>1, EmptyFiles, Replaced DEF GateInv, GateShape
<1>4. Alone(w) /\ ProcessInv(w)'
  BY <1>1, <1>3, StaysAlone DEF Writing, ProcessInv
<1>5. ScoreShape' /\ scores'[p] = proc[w].score
      /\ \A q \in Gate!Gates : q # p => scores'[q] = scores[q]
  BY <1>1, <1>2 DEF GateInv, GateShape, ScoreShape
<1>6. ScoresInv'
  <2> SUFFICES ASSUME NEW q \in Gate!Gates, scores'[q].status = "PASS"
               PROVE  scores'[q].receipt = receipts[q] /\ Final(q)'
    BY <1>1 DEF ScoresInv
  <2>1. scores'[q].receipt = receipts[q] /\ Final(q)
    <3>1. CASE q = p
      BY <1>1, <1>2, <1>5, <3>1 DEF ProcessInv
    <3>2. CASE q # p
      BY <1>5, <3>2 DEF GateInv, ScoresInv
    <3> QED
      BY <3>1, <3>2
  <2> QED
    BY <1>1, <2>1 DEF Final
<1> QED
  BY <1>1, <1>3, <1>4, <1>5, <1>6, QuietStep

-----------------------------------------------------------------------------
(* The steps of the native run. *)

LEMMA LogFacts ==
    ASSUME NEW logs \in Seq(EpisodeLog)
    PROVE  /\ Len(logs) \in Nat /\ DOMAIN logs = 1..Len(logs)
           /\ \A i \in DOMAIN logs : logs[i] \in EpisodeLog
OBVIOUS

LEMMA LogChanged ==
    ASSUME NEW logs \in Seq(EpisodeLog), NEW i \in DOMAIN logs, NEW entry \in EpisodeLog,
           NEW after, after = [logs EXCEPT ![i] = entry]
    PROVE  /\ after \in Seq(EpisodeLog) /\ DOMAIN after = DOMAIN logs /\ after[i] = entry
           /\ \A j \in DOMAIN logs : j # i => after[j] = logs[j]
OBVIOUS

(* The next episode starts. *)
LEMMA LogStarts ==
    ASSUME NEW logs \in Seq(EpisodeLog), InOrder(logs), NEW i \in DOMAIN logs,
           logs[i].status = "NOT_RUN",
           \A j \in DOMAIN logs : logs[j].status # "RUNNING",
           \A j \in DOMAIN logs : j < i => logs[j].status # "NOT_RUN",
           i = 3 => \A j \in 1..2 : logs[j].score = "PASS",
           NEW after, after = [logs EXCEPT ![i].status = "RUNNING"]
    PROVE  after \in Seq(EpisodeLog) /\ InOrder(after)
<1> DEFINE entry == [logs[i] EXCEPT !.status = "RUNNING"]
<1>1. entry \in EpisodeLog /\ entry.status = "RUNNING" /\ entry.score = logs[i].score
  BY LogFacts DEF EpisodeLog
<1>2. after = [logs EXCEPT ![i] = entry]
  OBVIOUS
<1> HIDE DEF entry
<1>3. /\ after \in Seq(EpisodeLog) /\ DOMAIN after = DOMAIN logs /\ after[i] = entry
      /\ \A j \in DOMAIN logs : j # i => after[j] = logs[j]
  BY <1>1, <1>2, LogChanged
<1>4. DOMAIN logs = 1..Len(logs) /\ Len(logs) \in Nat
  BY LogFacts
<1>5. ASSUME NEW k \in DOMAIN logs, NEW j \in DOMAIN logs, j < k, after[k].status # "NOT_RUN"
      PROVE  after[j].status \notin {"NOT_RUN", "RUNNING"}
  <2>1. CASE k = i
    BY <1>3, <1>4, <1>5, <2>1
  <2>2. CASE k # i
    <3>1. logs[k].status # "NOT_RUN"
      BY <1>3, <1>5, <2>2
    <3>2. logs[j].status \notin {"NOT_RUN", "RUNNING"}
      BY <1>5, <3>1 DEF InOrder
    <3>3. j # i
      BY <3>2
    <3> QED
      BY <1>3, <3>2, <3>3
  <2> QED
    BY <2>1, <2>2
<1>6. ASSUME 3 \in DOMAIN logs, after[3].status # "NOT_RUN", NEW j \in 1..2
      PROVE  after[j].score = "PASS"
  <2>1. j \in DOMAIN logs /\ logs[j].score = after[j].score
    BY <1>1, <1>3, <1>4, <1>6
  <2>2. CASE i = 3
    BY <2>1, <2>2
  <2>3. CASE i # 3
    BY <1>3, <1>6, <2>1, <2>3 DEF InOrder
  <2> QED
    BY <2>2, <2>3
<1> QED
  BY <1>3, <1>5, <1>6 DEF InOrder

(* The running episode ends. *)
LEMMA LogEnds ==
    ASSUME NEW logs \in Seq(EpisodeLog), InOrder(logs), NEW i \in DOMAIN logs,
           logs[i].status = "RUNNING", NEW entry \in EpisodeLog,
           entry.status \notin {"NOT_RUN", "RUNNING"},
           NEW after, after = [logs EXCEPT ![i] = entry]
    PROVE  after \in Seq(EpisodeLog) /\ InOrder(after)
<1>1. /\ after \in Seq(EpisodeLog) /\ DOMAIN after = DOMAIN logs /\ after[i] = entry
      /\ \A j \in DOMAIN logs : j # i => after[j] = logs[j]
  BY LogChanged
<1>2. DOMAIN logs = 1..Len(logs) /\ Len(logs) \in Nat
  BY LogFacts
<1>3. ASSUME NEW k \in DOMAIN logs, NEW j \in DOMAIN logs, j < k, after[k].status # "NOT_RUN"
      PROVE  after[j].status \notin {"NOT_RUN", "RUNNING"}
  <2>1. logs[k].status # "NOT_RUN"
    BY <1>1, <1>3
  <2>2. logs[j].status \notin {"NOT_RUN", "RUNNING"}
    BY <1>3, <2>1 DEF InOrder
  <2> QED
    BY <1>1, <2>2
<1>4. ASSUME 3 \in DOMAIN logs, after[3].status # "NOT_RUN", NEW j \in 1..2
      PROVE  after[j].score = "PASS"
  <2>1. logs[3].status # "NOT_RUN" /\ j \in DOMAIN logs /\ j < 3
    BY <1>1, <1>2, <1>4
  <2>2. logs[j].score = "PASS" /\ logs[j].status # "RUNNING"
    BY <1>4, <2>1 DEF InOrder
  <2> QED
    BY <1>1, <2>1, <2>2
<1> QED
  BY <1>1, <1>3, <1>4 DEF InOrder

(* An exception ends it. *)
LEMMA LogsFail ==
    ASSUME NEW logs \in Seq(EpisodeLog), InOrder(logs), NEW Running,
           Running = {i \in DOMAIN logs : logs[i].status = "RUNNING"}, NEW after,
           after = [i \in DOMAIN logs |->
               IF i \in Running THEN [logs[i] EXCEPT !.status = "ERROR"] ELSE logs[i]]
    PROVE  after \in Seq(EpisodeLog) /\ InOrder(after)
<1>1. /\ DOMAIN logs = 1..Len(logs) /\ Len(logs) \in Nat
      /\ \A i \in DOMAIN logs : logs[i] \in EpisodeLog
  BY LogFacts
<1>2. ASSUME NEW i \in DOMAIN logs
      PROVE  /\ after[i] \in EpisodeLog /\ after[i].score = logs[i].score
             /\ logs[i].status = "RUNNING" => after[i].status = "ERROR"
             /\ logs[i].status # "RUNNING" => after[i].status = logs[i].status
  <2>1. CASE i \in Running
    <3>1. after[i] = [logs[i] EXCEPT !.status = "ERROR"] /\ logs[i] \in EpisodeLog
      BY <1>1, <1>2, <2>1
    <3>2. logs[i].status = "RUNNING"
      BY <2>1
    <3> QED
      BY <3>1, <3>2 DEF EpisodeLog
  <2>2. CASE i \notin Running
    <3>1. after[i] = logs[i] /\ logs[i] \in EpisodeLog
      BY <1>1, <1>2, <2>2
    <3>2. logs[i].status # "RUNNING"
      BY <1>2, <2>2
    <3> QED
      BY <3>1, <3>2
  <2> QED
    BY <2>1, <2>2
<1>3. DOMAIN after = DOMAIN logs
  OBVIOUS
<1>4. after \in Seq(EpisodeLog)
  <2>1. after \in [1..Len(logs) -> EpisodeLog]
    BY <1>1, <1>2
  <2> QED
    BY <1>1, <2>1
<1>5. InOrder(after)
  <2>1. \A i \in DOMAIN logs : after[i].status = "NOT_RUN" <=> logs[i].status = "NOT_RUN"
    BY <1>2
  <2>2. \A i \in DOMAIN logs : after[i].status # "RUNNING"
    BY <1>2
  <2>3. \A i \in DOMAIN logs : after[i].score = logs[i].score
    BY <1>2
  <2>4. 3 \in DOMAIN logs => 1 \in DOMAIN logs /\ 2 \in DOMAIN logs
    BY <1>1
  <2> QED
    BY <1>3, <2>1, <2>2, <2>3, <2>4 DEF InOrder
<1> QED
  BY <1>4, <1>5

(* A gate that is passed now has been passed for good. *)
LEMMA GatesPassedAreMet ==
    ASSUME GateInv, \A p \in Gate!Gates : Gate!GatePassed(p)
    PROVE  GatesMet
BY DEF GateInv, ScoresInv, Gate!GatePassed, GatesMet

LEMMA NativeChecks ==
    ASSUME GateInv, Gate!GateAssumption, NEW w \in Workers, Gate!CheckGates(w)
    PROVE  GateInv'
<1> DEFINE x == [Gate!Idle EXCEPT !.pc = "native", !.phase = "native"]
<1>1. proc' = [proc EXCEPT ![w] = x] /\ UNCHANGED <<receipts, scores, calls>> /\ GatesMet
  BY GatesPassedAreMet DEF Gate!CheckGates, Gate!RequireGates
<1>2. x \in Processes /\ x.pc = "native" /\ x.phase = "native"
  BY EmptyFiles DEF Processes, Gate!Phases, Places
<1> HIDE DEF x
<1>3. proc'[w] = x /\ receipts' = receipts
  BY <1>1, <1>2, Replaced DEF GateInv, GateShape
<1>4. GatesMet'
  BY <1>1, <1>3, Zenon DEF GatesMet, Final
<1>5. ProcessInv(w)'
  BY <1>2, <1>3, <1>4 DEF ProcessInv
<1> QED
  BY <1>1, <1>2, <1>5, GateBecomes DEF Writing

LEMMA NativeFacts ==
    ASSUME GateInv, Gate!GateAssumption, NEW w \in Workers,
           proc[w].pc \in {"native", "episodes", "ending"}
    PROVE  /\ ProcShape /\ ProcessInv(w) /\ proc[w].phase = "native" /\ GatesMet
           /\ "native" \in Gate!Phases /\ receipts["native"] \in Receipts
           /\ proc[w].receipt \in Receipts /\ proc[w].receipt.episodes \in Seq(EpisodeLog)
BY WorkerFacts DEF ProcessInv, Gate!Phases, GateInv, GateShape, ReceiptShape, Receipts

LEMMA NativeStarts ==
    ASSUME GateInv, Gate!GateAssumption, NEW w \in Workers, Gate!StartNative(w)
    PROVE  GateInv'
<1> DEFINE logs == [i \in 1..Protocol |-> Gate!NotRun]
           new == [Gate!Missing EXCEPT !.status = "RUNNING", !.episodes = logs]
<1>1. proc[w].pc = "native" /\ UNCHANGED <<scores, calls>>
  BY DEF Gate!StartNative, Gate!At
<1>2. /\ ProcShape /\ proc[w].phase = "native" /\ GatesMet /\ "native" \in Gate!Phases
  BY <1>1, NativeFacts
<1>3. CASE ~Gate!NewOutput("native")
  <2>1. proc' = [proc EXCEPT ![w] = Gate!Idle] /\ UNCHANGED receipts
    BY <1>3 DEF Gate!StartNative
  <2>2. proc'[w].pc = "idle"
    BY <1>2, <2>1, EmptyFiles DEF ProcShape
  <2>3. ProcessInv(w)'
    BY <2>2 DEF ProcessInv
  <2> QED
    BY <1>1, <2>1, <2>3, EmptyFiles, GateBecomes DEF Writing
<1>4. CASE Gate!NewOutput("native")
  <2>1. /\ receipts["native"].status = "missing"
        /\ receipts' = [receipts EXCEPT !["native"] = new] /\ Gate!Go(w, "episodes", new)
    BY <1>2, <1>4 DEF Gate!StartNative, Gate!NewOutput, Gate!Save
  <2>2. logs \in Seq(EpisodeLog) /\ InOrder(logs)
    <3>1. Gate!NotRun \in EpisodeLog /\ Gate!NotRun.status = "NOT_RUN"
      BY DEF Gate!NotRun, EpisodeLog
    <3>2. Protocol \in Nat
      BY DEF Gate!GateAssumption
    <3> QED
      BY <3>1, <3>2 DEF InOrder
  <2> HIDE DEF logs
  <2>3. /\ new \in Receipts /\ new.status = "RUNNING" /\ new.episodes = logs
        /\ new.sealed = FALSE
    BY <2>2, EmptyFiles DEF Receipts, Gate!Statuses
  <2> HIDE DEF new
  <2>4. /\ ProcShape' /\ proc'[w].pc = "episodes" /\ proc'[w].receipt = new
        /\ proc'[w].phase = "native" /\ \A v \in Workers \ {w} : proc'[v] = proc[v]
    BY <1>2, <2>1, <2>3, Gone DEF Places
  <2>5. /\ receipts'["native"] = new
        /\ \A q \in Gate!Phases : q # "native" => receipts'[q] = receipts[q]
    BY <1>2, <2>1, <2>3, SavedShape DEF GateInv, GateShape
  <2>6. Alone(w)
    BY <2>1, <2>4, <2>5 DEF Alone, Writes
  <2>7. GatesMet'
    BY <1>2, <2>6, GatesStayMet DEF GateInv
  <2>8. ProcessInv(w)'
    BY <2>2, <2>3, <2>4, <2>5, <2>7 DEF ProcessInv
  <2> QED
    BY <1>1, <1>2, <2>1, <2>2, <2>3, <2>4, <2>6, <2>8, NativeStep
<1> QED
  BY <1>3, <1>4

(* A native run that only goes on in memory. *)
LEMMA NativeGoesOn ==
    ASSUME GateInv, Gate!GateAssumption, NEW w \in Workers, proc[w].pc = "episodes",
           NEW pc \in {"episodes", "ending"}, NEW r \in Receipts, Gate!Go(w, pc, r),
           pc = "episodes" => r.status = "RUNNING" /\ ~r.sealed, r.status # "missing",
           InOrder(r.episodes), UNCHANGED <<receipts, scores, calls>>
    PROVE  GateInv'
<1>1. ProcShape /\ ProcessInv(w) /\ proc[w].phase = "native" /\ GatesMet
  BY NativeFacts
<1>2. pc \in Places
  BY DEF Places
<1>3. proc'[w].pc = pc /\ proc'[w].receipt = r /\ proc'[w].phase = "native"
  BY <1>1, <1>2, Gone
<1>4. receipts' = receipts
  OBVIOUS
<1>5. GatesMet'
  BY <1>1, <1>4, Zenon DEF GatesMet, Final
<1>6. receipts["native"].status # "missing" /\ ~receipts["native"].sealed
  BY <1>1 DEF ProcessInv
<1>7. ProcessInv(w)'
  BY <1>3, <1>4, <1>5, <1>6 DEF ProcessInv
<1> QED
  BY <1>2, <1>7, GateGoesOn DEF Writing

(* One that saves what it goes on with, or what it ends with. *)
LEMMA NativeSaves ==
    ASSUME GateInv, Gate!GateAssumption, NEW w \in Workers, proc[w].pc = "episodes",
           NEW pc \in {"episodes", "ending"}, NEW r \in Receipts, NEW saved \in Receipts,
           Gate!Go(w, pc, r), Gate!Save(w, saved), saved.status = "RUNNING",
           ~saved.sealed, pc = "episodes" => r.status = "RUNNING" /\ ~r.sealed,
           r.status # "missing", InOrder(r.episodes), InOrder(saved.episodes),
           UNCHANGED <<scores, calls>>
    PROVE  GateInv'
<1>1. /\ ProcShape /\ ProcessInv(w) /\ proc[w].phase = "native" /\ GatesMet
      /\ "native" \in Gate!Phases
  BY NativeFacts
<1>2. pc \in Places
  BY DEF Places
<1>3. /\ ProcShape' /\ proc'[w].pc = pc /\ proc'[w].receipt = r
      /\ proc'[w].phase = "native" /\ \A v \in Workers \ {w} : proc'[v] = proc[v]
  BY <1>1, <1>2, Gone
<1>4. receipts' = [receipts EXCEPT !["native"] = saved]
  BY <1>1 DEF Gate!Save
<1>5. /\ receipts'["native"] = saved
      /\ \A q \in Gate!Phases : q # "native" => receipts'[q] = receipts[q]
  BY <1>1, <1>4, SavedShape DEF GateInv, GateShape
<1>6. Alone(w)
  BY <1>1, <1>3, <1>5, StaysAlone DEF Writing
<1>7. GatesMet'
  BY <1>1, <1>6, GatesStayMet DEF GateInv
<1>8. ProcessInv(w)'
  BY <1>3, <1>5, <1>7 DEF ProcessInv
<1> QED
  BY <1>1, <1>3, <1>4, <1>6, <1>8, NativeStep

(* The first episode that has not been started. *)
LEMMA FirstUntouched ==
    ASSUME NEW logs \in Seq(EpisodeLog), NEW Fresh,
           Fresh = {i \in DOMAIN logs : logs[i].status = "NOT_RUN"}, Fresh # {}
    PROVE  /\ Gate!Min(Fresh) \in DOMAIN logs /\ logs[Gate!Min(Fresh)].status = "NOT_RUN"
           /\ \A j \in DOMAIN logs : j < Gate!Min(Fresh) => logs[j].status # "NOT_RUN"
<1>1. Fresh \subseteq Nat /\ DOMAIN logs \subseteq Nat
  BY LogFacts
<1>2. Min(Fresh) \in Fresh /\ \A c \in Fresh : Min(Fresh) <= c
  BY <1>1, LeastElement
<1>3. Gate!Min(Fresh) = Min(Fresh)
  BY Zenon DEF Gate!Min, Min
<1>4. PICK first : first = Gate!Min(Fresh)
  OBVIOUS
<1>5. first \in Fresh /\ first \in Nat /\ \A c \in Fresh : first <= c
  BY <1>1, <1>2, <1>3, <1>4, Zenon
<1>6. ASSUME NEW j \in DOMAIN logs, j < first, logs[j].status = "NOT_RUN" PROVE FALSE
  BY <1>1, <1>5, <1>6
<1> QED
  BY <1>4, <1>5, <1>6, Zenon

LEMMA LogsReplaced ==
    ASSUME NEW r \in Receipts, NEW logs \in Seq(EpisodeLog)
    PROVE  LET s == [r EXCEPT !.episodes = logs]
           IN /\ s \in Receipts /\ s.status = r.status /\ s.sealed = r.sealed
              /\ s.episodes = logs
BY DEF Receipts

LEMMA NativeEpisode ==
    ASSUME GateInv, Gate!GateAssumption, NEW w \in Workers, Gate!Episode(w)
    PROVE  GateInv'
<1>1. /\ proc[w].pc = "episodes" /\ Gate!RunningEpisode(w) = {} /\ Gate!Untouched(w) # {}
      /\ UNCHANGED <<scores, calls>>
  BY DEF Gate!Episode, Gate!At
<1> DEFINE held == proc[w].receipt
           logs == held.episodes
           i == Gate!Min(Gate!Untouched(w))
           running == [logs EXCEPT ![i].status = "RUNNING"]
           r == [held EXCEPT !.episodes = running]
<1>2. /\ held \in Receipts /\ logs \in Seq(EpisodeLog) /\ InOrder(logs)
      /\ held.status = "RUNNING" /\ ~held.sealed
  BY <1>1, NativeFacts DEF ProcessInv
<1>3. /\ i \in DOMAIN logs /\ logs[i].status = "NOT_RUN"
      /\ \A j \in DOMAIN logs : j < i => logs[j].status # "NOT_RUN"
  <2>1. Gate!Untouched(w) = {k \in DOMAIN logs : logs[k].status = "NOT_RUN"}
    BY Zenon DEF Gate!Untouched, Gate!Rows, Gate!Receipt
  <2> HIDE DEF logs
  <2> QED
    BY <1>1, <1>2, <2>1, FirstUntouched, Zenon
<1>4. \A j \in DOMAIN logs : logs[j].status # "RUNNING"
  BY <1>1 DEF Gate!RunningEpisode, Gate!Rows, Gate!Receipt
<1>5. CASE Gate!HeldBack(w, i)
  <2>1. Gate!Go(w, "ending", Gate!Ended(held, "STOPPED_BY_GATE")) /\ UNCHANGED receipts
    BY <1>5, Zenon DEF Gate!Episode, Gate!Receipt
  <2>2. /\ Gate!Ended(held, "STOPPED_BY_GATE") \in Receipts
        /\ Gate!Ended(held, "STOPPED_BY_GATE").status = "STOPPED_BY_GATE"
        /\ Gate!Ended(held, "STOPPED_BY_GATE").episodes = logs
    BY <1>2, EndedReceipt
  <2> QED
    BY <1>1, <1>2, <2>1, <2>2, NativeGoesOn
<1>6. CASE ~Gate!HeldBack(w, i)
  <2>1. Gate!Save(w, r) /\ Gate!Go(w, "episodes", r)
    <3>1. r = [held EXCEPT !.episodes[i].status = "RUNNING"]
      BY Zenon
    <3> HIDE DEF r
    <3> QED
      BY <1>6, <3>1, Zenon DEF Gate!Episode, Gate!Receipt
  <2>2. i = 3 => \A j \in 1..2 : logs[j].score = "PASS"
    BY <1>6, Zenon DEF Gate!HeldBack, Gate!Rows, Gate!Receipt
  <2>3. running \in Seq(EpisodeLog) /\ InOrder(running)
    <3> HIDE DEF i, logs
    <3>1. running = [logs EXCEPT ![i].status = "RUNNING"]
      OBVIOUS
    <3> HIDE DEF running
    <3> QED
      BY <1>2, <1>3, <1>4, <2>2, <3>1, LogStarts
  <2> HIDE DEF running
  <2>4. r \in Receipts /\ r.status = "RUNNING" /\ ~r.sealed /\ r.episodes = running
    BY <1>2, <2>3, LogsReplaced
  <2> HIDE DEF r
  <2> QED
    BY <1>1, <2>1, <2>3, <2>4, NativeSaves
<1> QED
  BY <1>5, <1>6

LEMMA NativeEnds ==
    ASSUME GateInv, Gate!GateAssumption, NEW w \in Workers, Gate!NativeDone(w)
    PROVE  GateInv'
<1> DEFINE held == proc[w].receipt
           r == Gate!Ended(held, "COMPLETED")
<1>1. /\ proc[w].pc = "episodes" /\ Gate!Go(w, "ending", r)
      /\ UNCHANGED <<receipts, scores, calls>>
  BY DEF Gate!NativeDone, Gate!At, Gate!Receipt
<1>2. held \in Receipts /\ InOrder(held.episodes)
  BY <1>1, NativeFacts DEF ProcessInv
<1>3. r \in Receipts /\ r.status = "COMPLETED" /\ r.episodes = held.episodes
  BY <1>2, EndedReceipt
<1> HIDE DEF r
<1> QED
  BY <1>1, <1>2, <1>3, NativeGoesOn

LEMMA NativeRejects ==
    ASSUME GateInv, Gate!GateAssumption, NEW w \in Workers, Gate!Reject(w)
    PROVE  GateInv'
<1> DEFINE held == proc[w].receipt
           logs == held.episodes
<1>1. /\ proc[w].pc = "episodes" /\ UNCHANGED <<receipts, scores, calls>>
  BY DEF Gate!Reject, Gate!At
<1>2. PICK i \in Gate!RunningEpisode(w) :
        Gate!Go(w, "episodes", [held EXCEPT !.episodes[i].status = "REJECTED"])
  BY DEF Gate!Reject, Gate!Receipt
<1>3. /\ held \in Receipts /\ logs \in Seq(EpisodeLog) /\ InOrder(logs)
      /\ held.status = "RUNNING" /\ ~held.sealed
  BY <1>1, NativeFacts DEF ProcessInv
<1>4. i \in DOMAIN logs /\ logs[i].status = "RUNNING"
  BY DEF Gate!RunningEpisode, Gate!Rows, Gate!Receipt
<1> DEFINE entry == [logs[i] EXCEPT !.status = "REJECTED"]
           after == [logs EXCEPT ![i] = entry]
           r == [held EXCEPT !.episodes = after]
<1>5. entry \in EpisodeLog /\ entry.status = "REJECTED"
  BY <1>3, <1>4, LogFacts DEF EpisodeLog
<1>6. Gate!Go(w, "episodes", r)
  BY <1>2
<1> HIDE DEF entry
<1>7. after \in Seq(EpisodeLog) /\ InOrder(after)
  BY <1>3, <1>4, <1>5, LogEnds
<1> HIDE DEF after
<1>8. r \in Receipts /\ r.status = "RUNNING" /\ ~r.sealed /\ r.episodes = after
  BY <1>3, <1>7, LogsReplaced
<1> HIDE DEF r
<1> QED
  BY <1>1, <1>6, <1>7, <1>8, NativeGoesOn

LEMMA NativeExecutes ==
    ASSUME GateInv, Gate!GateAssumption, NEW w \in Workers, Gate!Execute(w)
    PROVE  GateInv'
<1> DEFINE held == proc[w].receipt
           logs == held.episodes
<1>1. /\ proc[w].pc = "episodes" /\ UNCHANGED <<scores, calls>>
  BY DEF Gate!Execute, Gate!At
<1>2. PICK i \in Gate!RunningEpisode(w), score \in {"PASS", "FAIL"} :
        LET done == [held EXCEPT !.episodes[i] = [status |-> "DONE", score |-> score]]
        IN /\ Gate!Save(w, done)
           /\ IF score = "PASS" THEN Gate!Go(w, "episodes", done)
              ELSE Gate!Go(w, "ending", Gate!Ended(done, "STOPPED_BY_GATE"))
  BY DEF Gate!Execute, Gate!Receipt
<1>3. /\ held \in Receipts /\ logs \in Seq(EpisodeLog) /\ InOrder(logs)
      /\ held.status = "RUNNING" /\ ~held.sealed
  BY <1>1, NativeFacts DEF ProcessInv
<1>4. i \in DOMAIN logs /\ logs[i].status = "RUNNING"
  BY DEF Gate!RunningEpisode, Gate!Rows, Gate!Receipt
<1> DEFINE entry == [status |-> "DONE", score |-> score]
           after == [logs EXCEPT ![i] = entry]
           r == [held EXCEPT !.episodes = after]
<1>5. entry \in EpisodeLog /\ entry.status = "DONE"
  BY DEF EpisodeLog
<1>6. /\ Gate!Save(w, r)
      /\ score = "PASS" => Gate!Go(w, "episodes", r)
      /\ score # "PASS" => Gate!Go(w, "ending", Gate!Ended(r, "STOPPED_BY_GATE"))
  BY <1>2
<1> HIDE DEF entry
<1>7. after \in Seq(EpisodeLog) /\ InOrder(after)
  BY <1>3, <1>4, <1>5, LogEnds
<1> HIDE DEF after
<1>8. r \in Receipts /\ r.status = "RUNNING" /\ ~r.sealed /\ r.episodes = after
  BY <1>3, <1>7, LogsReplaced
<1> HIDE DEF r
<1>9. CASE score = "PASS"
  BY <1>1, <1>6, <1>7, <1>8, <1>9, NativeSaves
<1>10. CASE score # "PASS"
  <2> DEFINE ended == Gate!Ended(r, "STOPPED_BY_GATE")
  <2>1. ended \in Receipts /\ ended.status = "STOPPED_BY_GATE" /\ ended.episodes = after
    BY <1>8, EndedReceipt
  <2>2. Gate!Go(w, "ending", ended)
    BY <1>6, <1>10
  <2> HIDE DEF ended
  <2> QED
    BY <1>1, <1>6, <1>7, <1>8, <2>1, <2>2, NativeSaves
<1> QED
  BY <1>9, <1>10

LEMMA NativeFailing ==
    ASSUME GateInv, Gate!GateAssumption, NEW w \in Workers, Gate!NativeFails(w)
    PROVE  GateInv'
<1> DEFINE held == proc[w].receipt
           logs == held.episodes
           Running == Gate!RunningEpisode(w)
           after == [i \in DOMAIN logs |->
                        IF i \in Running THEN [logs[i] EXCEPT !.status = "ERROR"] ELSE logs[i]]
           r == [held EXCEPT !.episodes = after]
           ended == Gate!Ended(r, "ERROR")
<1>1. /\ proc[w].pc = "episodes" /\ Gate!Go(w, "ending", ended)
      /\ UNCHANGED <<receipts, scores, calls>>
  BY Zenon DEF Gate!NativeFails, Gate!At, Gate!Receipt, Gate!Rows
<1>2. held \in Receipts /\ logs \in Seq(EpisodeLog) /\ InOrder(logs)
  BY <1>1, NativeFacts DEF ProcessInv
<1>3. Running = {i \in DOMAIN logs : logs[i].status = "RUNNING"}
  BY Zenon DEF Gate!RunningEpisode, Gate!Rows, Gate!Receipt
<1> HIDE DEF ended, r
<1>4. after \in Seq(EpisodeLog) /\ InOrder(after)
  <2>1. after = [i \in DOMAIN logs |->
                    IF i \in Running THEN [logs[i] EXCEPT !.status = "ERROR"] ELSE logs[i]]
    OBVIOUS
  <2> HIDE DEF after, Running, logs
  <2> QED
    BY <1>2, <1>3, <2>1, LogsFail, Zenon
<1> HIDE DEF after
<1>5. r \in Receipts /\ r.episodes = after
  BY <1>2, <1>4, LogsReplaced DEF r
<1>6. ended \in Receipts /\ ended.status = "ERROR" /\ ended.episodes = after
  BY <1>5, EndedReceipt DEF ended
<1> QED
  BY <1>1, <1>4, <1>6, NativeGoesOn

LEMMA NativeCloses ==
    ASSUME GateInv, Gate!GateAssumption, NEW w \in Workers, Gate!EndNative(w)
    PROVE  GateInv'
<1> DEFINE held == proc[w].receipt
<1>1. /\ proc[w].pc = "ending" /\ proc' = [proc EXCEPT ![w] = Gate!Idle]
      /\ UNCHANGED <<scores, calls>>
  BY DEF Gate!EndNative, Gate!At
<1>2. PICK status \in {held.status, "ERROR"} :
        Gate!Save(w, [held EXCEPT !.status = status, !.sealed = TRUE])
  BY DEF Gate!EndNative, Gate!Receipt
<1>3. /\ ProcShape /\ proc[w].phase = "native" /\ GatesMet /\ held \in Receipts
      /\ "native" \in Gate!Phases /\ InOrder(held.episodes) /\ held.status # "missing"
  BY <1>1, NativeFacts DEF ProcessInv
<1> DEFINE r == [held EXCEPT !.status = status, !.sealed = TRUE]
<1>4. r \in Receipts /\ r.status = status /\ r.episodes = held.episodes
  BY <1>3 DEF Receipts, Gate!Statuses
<1>5. receipts' = [receipts EXCEPT !["native"] = r]
  BY <1>2, <1>3 DEF Gate!Save
<1> HIDE DEF r
<1>6. ProcShape' /\ proc'[w].pc = "idle" /\ \A v \in Workers \ {w} : proc'[v] = proc[v]
  BY <1>1, <1>3, EmptyFiles, Replaced
<1>7. \A q \in Gate!Phases : q # "native" => receipts'[q] = receipts[q]
  BY <1>3, <1>4, <1>5, SavedShape DEF GateInv, GateShape
<1>8. Alone(w)
  BY <1>1, <1>3, <1>6, <1>7, StaysAlone DEF Writing
<1>9. ProcessInv(w)'
  BY <1>6 DEF ProcessInv
<1> QED
  BY <1>1, <1>3, <1>4, <1>5, <1>6, <1>8, <1>9, NativeStep

-----------------------------------------------------------------------------
(* Together. *)

LEMMA GateStarted == ASSUME Gate!GateAssumption PROVE Gate!Init => GateInv
<1> SUFFICES ASSUME Gate!Init PROVE GateInv
  OBVIOUS
<1>1. /\ receipts = [p \in Gate!Phases |-> Gate!Missing]
      /\ scores = [p \in Gate!Gates |-> Gate!NoScore]
      /\ proc = [w \in Workers |-> Gate!Idle]
      /\ calls = [p \in Gate!Gates |-> [i \in 1..Len(Cases[p]) |-> 0]]
  BY DEF Gate!Init
<1>2. GateShape
  BY <1>1, EmptyFiles DEF GateShape, ReceiptShape, ScoreShape, ProcShape
<1>3. \A w \in Workers : proc[w].pc = "idle"
  BY <1>1, EmptyFiles
<1>4. OneWriter /\ ProcessesInv
  BY <1>3 DEF OneWriter, ProcessesInv, ProcessInv, Writes
<1>5. \A p \in Gate!Phases : receipts[p] = Gate!Missing
  BY <1>1
<1>6. DiskInv /\ GateLogsInv
  <2>1. receipts["native"] = Gate!Missing
    BY <1>5 DEF Gate!Phases
  <2> QED
    BY <1>5, <2>1, EmptyFiles DEF DiskInv, GateLogsInv, InOrder
<1>7. ScoresInv
  BY <1>1, EmptyFiles DEF ScoresInv
<1>8. CallsInv
  <2> SUFFICES ASSUME NEW p \in Gate!Gates PROVE Tells(p, receipts[p], calls[p])
    BY DEF CallsInv
  <2>1. receipts[p].rows = <<>>
    BY <1>5, EmptyFiles DEF Gate!Phases
  <2>2. Len(Cases[p]) \in Nat
    BY DEF Gate!GateAssumption, Gate!Gates
  <2>3. calls[p] = FirstAsked(Len(Cases[p]), 0)
    BY <1>1, <2>2 DEF FirstAsked
  <2> QED
    BY <2>1, <2>2, <2>3 DEF Tells
<1> QED
  BY <1>1, <1>2, <1>4, <1>6, <1>7, <1>8, Zenon DEF GateInv

LEMMA GateKeeps ==
    ASSUME Gate!GateAssumption, GateInv, [Gate!Next]_(Gate!vars)
    PROVE  GateInv'
<1>1. CASE Gate!Next
  <2>1. PICK w \in Workers :
          \/ \E p \in Gate!Gates : Gate!Start(w, p) \/ Gate!ScoreReads(w, p)
          \/ Gate!Runner(w) \/ Gate!Scorer(w) \/ Gate!Native(w) \/ Gate!Die(w)
    BY <1>1 DEF Gate!Next
  <2>2. CASE \E p \in Gate!Gates : Gate!Start(w, p) \/ Gate!ScoreReads(w, p)
    BY <2>2, GateStarts, ScorerReads
  <2>3. CASE Gate!Runner(w)
    BY <2>3, GateOpens, GateFailsOrFinishes, GateCalls, GateCloses, Zenon DEF Gate!Runner
  <2>4. CASE Gate!Scorer(w)
    BY <2>4, ScorerHashes, ScorerSaves, Zenon DEF Gate!Scorer
  <2>5. CASE Gate!Native(w)
    BY <2>5, NativeChecks, NativeStarts, NativeEpisode, NativeRejects, NativeExecutes,
       NativeFailing, NativeEnds, NativeCloses, Zenon DEF Gate!Native
  <2>6. CASE Gate!Die(w)
    BY <2>6, GateDies
  <2> QED
    BY <2>1, <2>2, <2>3, <2>4, <2>5, <2>6
<1>2. CASE UNCHANGED Gate!vars
  <2>1. receipts' = receipts /\ scores' = scores /\ proc' = proc /\ calls' = calls
    BY <1>2 DEF Gate!vars
  <2> QED
    <3>1. GateShape' /\ DiskInv' /\ CallsInv' /\ DOMAIN calls' = Gate!Gates
      BY <2>1, Zenon DEF GateInv, GateShape, ReceiptShape, ScoreShape, ProcShape, DiskInv,
         CallsInv
    <3>2. OneWriter'
      BY <2>1, Zenon DEF GateInv, OneWriter, Writes
    <3>3. GatesMet => GatesMet'
      BY <2>1, Zenon DEF GatesMet, Final
    <3>4. \A p : Final(p) => Final(p)'
      BY <2>1, Zenon DEF Final
    <3>5. GateLogsInv' /\ ScoresInv'
      BY <2>1, <3>3, <3>4, Zenon DEF GateInv, GateLogsInv, ScoresInv
    <3>6. ASSUME NEW w \in Workers PROVE ProcessInv(w)'
      <4>1. ProcessInv(w) /\ proc'[w] = proc[w]
        BY <2>1 DEF GateInv, ProcessesInv
      <4>2. proc[w].pc \in {"scoring", "hashed"} /\ proc[w].score.status = "PASS" =>
            Final(proc[w].phase) /\ (\A p : Final(p) => Final(p)')
        BY <3>4, <4>1 DEF ProcessInv
      <4> QED
        BY <2>1, <3>3, <4>1, <4>2 DEF ProcessInv, Final
    <3>7. ProcessesInv'
      BY <3>6 DEF ProcessesInv
    <3> QED
      BY <3>1, <3>2, <3>5, <3>7, Zenon DEF GateInv
<1> QED
  BY <1>1, <1>2

(* What the gates promise. *)
GateHolds ==
    /\ Gate!TypeOK /\ Gate!AskedOnce /\ Gate!NoCallAfterTimeout /\ Gate!PassIsOfTheReceipt
    /\ Gate!NativeHasEvidence /\ Gate!InterruptionAfterTwoLogs

LEMMA GateSays == ASSUME Gate!GateAssumption, GateInv PROVE GateHolds
<1>1. \A p \in Gate!Phases : receipts[p] \in Receipts
  BY DEF GateInv, GateShape, ReceiptShape
<1>2. \A p \in Gate!Gates : p \in Gate!Phases /\ Tells(p, receipts[p], calls[p])
  BY DEF GateInv, CallsInv, Gate!Phases
<1>3. Gate!TypeOK
  <2>1. \A p \in Gate!Phases :
           receipts[p].status \in Gate!Statuses /\ receipts[p].sealed \in BOOLEAN
    BY <1>1 DEF Receipts
  <2>2. \A p \in Gate!Gates : Len(receipts[p].rows) <= Len(Cases[p])
    BY <1>2 DEF Tells
  <2>3. \A p \in Gate!Gates : scores[p].status \in {"missing", "PASS", "FAIL"}
    BY DEF GateInv, GateShape, ScoreShape, ScoreFiles
  <2> QED
    BY <2>1, <2>2, <2>3, Zenon DEF Gate!TypeOK
<1>4. Gate!AskedOnce
  <2> SUFFICES ASSUME NEW p \in Gate!Gates, NEW i \in DOMAIN calls[p] PROVE calls[p][i] <= 1
    BY DEF Gate!AskedOnce
  <2>1. calls[p] = FirstAsked(Len(Cases[p]), Len(receipts[p].rows))
    BY <1>2 DEF Tells
  <2> QED
    BY <2>1 DEF FirstAsked
<1>5. Gate!NoCallAfterTimeout
  <2> SUFFICES ASSUME NEW p \in Gate!Gates, NEW i \in DOMAIN receipts[p].rows,
                      receipts[p].rows[i] = "timeout"
               PROVE  /\ i = Len(receipts[p].rows)
                      /\ i < Len(Cases[p]) => calls[p][i + 1] = 0
    BY DEF Gate!NoCallAfterTimeout
  <2>1. /\ calls[p] = FirstAsked(Len(Cases[p]), Len(receipts[p].rows))
        /\ i = Len(receipts[p].rows)
    BY <1>2 DEF Tells
  <2>2. Len(Cases[p]) \in Nat /\ Len(receipts[p].rows) \in Nat
    BY <1>1, <1>2 DEF Gate!GateAssumption, Gate!Gates, Receipts
  <2>3. ASSUME NEW n \in Nat, NEW k \in Nat, k < n PROVE FirstAsked(n, k)[k + 1] = 0
    BY <2>3 DEF FirstAsked
  <2> QED
    BY <2>1, <2>2, <2>3
<1>6. Gate!PassIsOfTheReceipt
  BY Zenon DEF GateInv, ScoresInv, Final, Gate!PassIsOfTheReceipt
<1>7. Gate!NativeHasEvidence
  BY Zenon DEF GateInv, GateLogsInv, GatesMet, Final, Gate!NativeHasEvidence
<1>8. Gate!InterruptionAfterTwoLogs
  <2>1. receipts["native"] \in Receipts /\ InOrder(receipts["native"].episodes)
    BY <1>1 DEF GateInv, GateLogsInv, Gate!Phases
  <2>2. /\ Len(receipts["native"].episodes) \in Nat
        /\ DOMAIN receipts["native"].episodes = 1..Len(receipts["native"].episodes)
    BY <2>1, LogFacts DEF Receipts
  <2> QED
    BY <2>1, <2>2 DEF InOrder, Gate!InterruptionAfterTwoLogs
<1> QED
  BY <1>3, <1>4, <1>5, <1>6, <1>7, <1>8, Zenon DEF GateHolds

(* A step writes one receipt at most, which its process runs or begins.      *)
LEMMA OneIsWritten ==
    ASSUME Gate!GateAssumption, GateInv, NEW w \in Workers,
           \/ \E p \in Gate!Gates : Gate!Start(w, p) \/ Gate!ScoreReads(w, p)
           \/ Gate!Runner(w) \/ Gate!Scorer(w) \/ Gate!Native(w) \/ Gate!Die(w)
    PROVE  \/ receipts' = receipts
           \/ \E p \in Gate!Phases : \E r : /\ Writes(w, p) \/ receipts[p].status = "missing"
                                       /\ receipts' = [receipts EXCEPT ![p] = r]
<1>1. ASSUME NEW r, Gate!Save(w, r), proc[w].pc \in Writing
      PROVE  \E p \in Gate!Phases : Writes(w, p) /\ receipts' = [receipts EXCEPT ![p] = r]
  <2>1. ProcessInv(w)
    BY DEF GateInv, ProcessesInv
  <2>2. proc[w].phase \in Gate!Phases /\ Writes(w, proc[w].phase)
    BY <1>1, <2>1 DEF ProcessInv, Writing, Writes, Gate!Phases
  <2>3. receipts' = [receipts EXCEPT ![proc[w].phase] = r]
    BY <1>1 DEF Gate!Save
  <2> QED
    BY <2>2, <2>3
<1>2. ASSUME NEW p \in Gate!Gates, Gate!Start(w, p)
      PROVE  \E q \in Gate!Phases : \E r : /\ receipts[q].status = "missing"
                                       /\ receipts' = [receipts EXCEPT ![q] = r]
  BY <1>2 DEF Gate!Start, Gate!NewOutput, Gate!Phases
<1>3. ASSUME Gate!StartNative(w), receipts' # receipts
      PROVE  \E r : /\ receipts["native"].status = "missing"
                    /\ receipts' = [receipts EXCEPT !["native"] = r]
  <2>1. proc[w].phase = "native"
    BY <1>3 DEF GateInv, ProcessesInv, ProcessInv, Gate!StartNative, Gate!At
  <2> QED
    BY <1>3, <2>1 DEF Gate!StartNative, Gate!NewOutput, Gate!Save
<1>4. ASSUME Gate!Open(w) \/ Gate!Call(w) \/ Gate!Close(w) \/ Gate!Episode(w) \/ Gate!Execute(w)
               \/ Gate!EndNative(w), receipts' # receipts
      PROVE  proc[w].pc \in Writing /\ \E r : Gate!Save(w, r)
  BY <1>4, Zenon DEF Gate!Open, Gate!Call, Gate!Close, Gate!Episode, Gate!Execute,
     Gate!EndNative, Gate!At, Writing
<1>5. "native" \in Gate!Phases
  BY DEF Gate!Phases
<1>6. ASSUME \/ \E p \in Gate!Gates : Gate!ScoreReads(w, p)
             \/ Gate!Fail(w) \/ Gate!Finish(w) \/ Gate!Scorer(w) \/ Gate!CheckGates(w)
             \/ Gate!Reject(w) \/ Gate!NativeFails(w) \/ Gate!NativeDone(w) \/ Gate!Die(w)
      PROVE  receipts' = receipts
  BY <1>6, Zenon DEF Gate!ScoreReads, Gate!Fail, Gate!Finish, Gate!Scorer, Gate!ScoreHashes,
     Gate!ScoreSaves, Gate!CheckGates, Gate!Reject, Gate!NativeFails, Gate!NativeDone, Gate!Die
<1> QED
  BY <1>1, <1>2, <1>3, <1>4, <1>5, <1>6, Zenon DEF Gate!Runner, Gate!Native

LEMMA FinalReceiptKept ==
    ASSUME Gate!GateAssumption, GateInv, [Gate!Next]_(Gate!vars), NEW p \in Gate!Phases,
           receipts[p].sealed
    PROVE  receipts'[p] = receipts[p]
<1>1. CASE Gate!Next
  <2>1. PICK w \in Workers :
          \/ \E q \in Gate!Gates : Gate!Start(w, q) \/ Gate!ScoreReads(w, q)
          \/ Gate!Runner(w) \/ Gate!Scorer(w) \/ Gate!Native(w) \/ Gate!Die(w)
    BY <1>1 DEF Gate!Next
  <2>2. \/ receipts' = receipts
        \/ \E q \in Gate!Phases : \E r : /\ Writes(w, q) \/ receipts[q].status = "missing"
                                    /\ receipts' = [receipts EXCEPT ![q] = r]
    BY <2>1, OneIsWritten
  <2>3. ~Writes(w, p)
    BY WriterOpen DEF GateInv
  <2>4. receipts[p].status # "missing"
    BY EmptyFiles DEF GateInv, DiskInv
  <2>5. DOMAIN receipts = Gate!Phases
    BY DEF GateInv, GateShape, ReceiptShape
  <2> QED
    BY <2>2, <2>3, <2>4, <2>5
<1>2. CASE UNCHANGED Gate!vars
  BY <1>2 DEF Gate!vars
<1> QED
  BY <1>1, <1>2

(* However many runners, scorers and native runs race over one directory,    *)
(* and wherever they die: every case is asked once, and none after a call    *)
(* that timed out; a PASS names the final receipt it was computed from; a    *)
(* native run stands on gates that were passed, and its interrupted episode  *)
(* on two complete logs; and a final receipt is never changed.               *)
THEOREM GatesArePassed ==
    ASSUME Gate!GateAssumption PROVE Gate!Spec => []GateHolds /\ Gate!FinalReceiptStays
<1>1. Gate!Init => GateInv
  BY GateStarted
<1>2. GateInv /\ [Gate!Next]_(Gate!vars) => GateInv'
  BY GateKeeps
<1>3. GateInv => GateHolds
  BY GateSays
<1>4. GateInv /\ [Gate!Next]_(Gate!vars) =>
      [\A p \in Gate!Phases : receipts[p].sealed => receipts'[p] = receipts[p]]_(Gate!vars)
  BY FinalReceiptKept
<1> QED
  BY <1>1, <1>2, <1>3, <1>4, PTL DEF Gate!Spec, Gate!FinalReceiptStays

-----------------------------------------------------------------------------
(* Keys of a training are compared by their first difference *)

Lexicographic(n) == [1..n -> Int]

(* The operators of the trainings are those of the modules they come from.   *)
LEMMA SameOperators ==
    ASSUME NEW kind, NEW S
    PROVE  /\ Trained(kind)!FirstOf(S) = FirstOf(S) /\ Trained(kind)!None = None
           /\ Trained(kind)!Cardinality(S) = Cardinality(S)
           /\ Trained(kind)!IsFiniteSet(S) <=> IsFiniteSet(S)
           /\ Trained(kind)!Max(S) = Max(S)
<1>1. Trained(kind)!Min(S) = Min(S)
  BY Zenon DEF Trained!Min, Min
<1>2. Trained(kind)!FirstOf(S) = FirstOf(S) /\ Trained(kind)!None = None
  BY <1>1, Zenon DEF Trained!FirstOf, FirstOf, Trained!None, None
<1>3. Trained(kind)!Cardinality(S) = Cardinality(S)
  BY Zenon DEF Trained!Cardinality, Cardinality
<1>4. Trained(kind)!IsFiniteSet(S) <=> IsFiniteSet(S)
  BY Zenon DEF Trained!IsFiniteSet, IsFiniteSet
<1>5. Trained(kind)!Max(S) = Max(S)
  BY Zenon DEF Trained!Max, Max
<1> QED
  BY <1>2, <1>3, <1>4, <1>5

LEMMA LessThan ==
    ASSUME NEW kind, NEW n \in Nat, NEW a \in Lexicographic(n), NEW b \in Lexicographic(n),
           NEW i \in 1..n, a[i] < b[i], \A j \in 1..(i - 1) : a[j] = b[j]
    PROVE  Trained(kind)!Less(a, b)
BY DEF Trained!Less, Lexicographic

LEMMA LessIsStrict ==
    ASSUME NEW kind, NEW n \in Nat, NEW a \in Lexicographic(n) PROVE ~Trained(kind)!Less(a, a)
<1> SUFFICES ASSUME Trained(kind)!Less(a, a) PROVE FALSE
  OBVIOUS
<1>1. PICK i \in 1..n : a[i] < a[i]
  BY DEF Trained!Less, Lexicographic
<1>2. a[i] \in Int
  BY DEF Lexicographic
<1> QED
  BY <1>1, <1>2

LEMMA LessIsTransitive ==
    ASSUME NEW kind, NEW n \in Nat,
           NEW a \in Lexicographic(n), NEW b \in Lexicographic(n), NEW c \in Lexicographic(n),
           Trained(kind)!Less(a, b), Trained(kind)!Less(b, c)
    PROVE  Trained(kind)!Less(a, c)
<1>1. PICK i \in 1..n : a[i] < b[i] /\ \A j \in 1..(i - 1) : a[j] = b[j]
  BY DEF Trained!Less, Lexicographic
<1>2. PICK k \in 1..n : b[k] < c[k] /\ \A j \in 1..(k - 1) : b[j] = c[j]
  BY DEF Trained!Less, Lexicographic
<1>3. PICK m \in 1..n : m <= i /\ m <= k /\ (m = i \/ m = k)
  <2>1. CASE i <= k
    BY <2>1
  <2>2. CASE k < i
    BY <2>2
  <2> QED
    BY <2>1, <2>2
<1>4. \A j \in 1..(m - 1) : a[j] = c[j]
  <2> SUFFICES ASSUME NEW j \in 1..(m - 1) PROVE a[j] = c[j]
    OBVIOUS
  <2>1. j \in 1..(i - 1) /\ j \in 1..(k - 1)
    BY <1>3
  <2> QED
    BY <1>1, <1>2, <2>1
<1>5. a[m] < c[m]
  <2>1. a[m] \in Int /\ b[m] \in Int /\ c[m] \in Int
    BY DEF Lexicographic
  <2>2. CASE m = i /\ m = k
    BY <1>1, <1>2, <2>1, <2>2
  <2>3. CASE m = i /\ m < k
    BY <1>1, <1>2, <2>1, <2>3
  <2>4. CASE m = k /\ m < i
    BY <1>1, <1>2, <2>1, <2>4
  <2> QED
    BY <1>3, <2>2, <2>3, <2>4
<1> QED
  BY <1>4, <1>5, LessThan

LEMMA LessIsTotal ==
    ASSUME NEW kind, NEW n \in Nat, NEW a \in Lexicographic(n), NEW b \in Lexicographic(n), a # b
    PROVE  Trained(kind)!Less(a, b) \/ Trained(kind)!Less(b, a)
<1> DEFINE Different == {i \in 1..n : a[i] # b[i]}
<1>1. Different # {}
  <2> SUFFICES ASSUME \A i \in 1..n : a[i] = b[i] PROVE FALSE
    OBVIOUS
  <2>1. /\ a = [i \in 1..n |-> a[i]] /\ b = [i \in 1..n |-> b[i]]
        /\ DOMAIN a = 1..n /\ DOMAIN b = 1..n
    BY DEF Lexicographic
  <2> QED
    BY <2>1
<1>2. PICK i \in Different : \A j \in Different : i <= j
  <2>1. Different \subseteq Nat
    OBVIOUS
  <2> HIDE DEF Different
  <2> QED
    BY <1>1, <2>1, LeastElement
<1>3. i \in 1..n /\ a[i] # b[i] /\ a[i] \in Int /\ b[i] \in Int
  BY DEF Lexicographic
<1>4. \A j \in 1..(i - 1) : a[j] = b[j] /\ b[j] = a[j]
  BY <1>2, <1>3
<1>5. a[i] < b[i] \/ b[i] < a[i]
  BY <1>3
<1> QED
  BY <1>3, <1>4, <1>5, LessThan

(* The first of the smallest keys of n lines.                                *)
Smallest(kind, lines, n, i) ==
    /\ i \in 1..n
    /\ \A j \in 1..n : ~Trained(kind)!Less(lines[j].key, lines[i].key)
    /\ \A j \in 1..(i - 1) : Trained(kind)!Less(lines[i].key, lines[j].key)

LEMMA SmallestIsUnique ==
    ASSUME NEW kind, NEW lines, NEW n \in Nat, NEW i, NEW k,
           Smallest(kind, lines, n, i), Smallest(kind, lines, n, k)
    PROVE  i = k
<1>1. i \in 1..n /\ k \in 1..n
  BY DEF Smallest
<1>2. ~(i < k)
  BY <1>1 DEF Smallest
<1>3. ~(k < i)
  BY <1>1 DEF Smallest
<1> QED
  BY <1>1, <1>2, <1>3

(* The next line takes over exactly when its key is less.                    *)
LEMMA SmallestNext ==
    ASSUME NEW kind, NEW size \in Nat, NEW lines, NEW n \in Nat,
           \A j \in 1..(n + 1) : lines[j].key \in Lexicographic(size),
           NEW i, Smallest(kind, lines, n, i)
    PROVE  IF Trained(kind)!Less(lines[n + 1].key, lines[i].key)
           THEN Smallest(kind, lines, n + 1, n + 1) ELSE Smallest(kind, lines, n + 1, i)
<1>1. i \in 1..n /\ \A j \in 1..n : j \in 1..(n + 1)
  BY DEF Smallest
<1>2. \A j \in 1..(n + 1) : j \in 1..n \/ j = n + 1
  OBVIOUS
<1>3. n + 1 \in 1..(n + 1) /\ (n + 1) - 1 = n
  OBVIOUS
<1>4. ASSUME Trained(kind)!Less(lines[n + 1].key, lines[i].key), NEW j \in 1..n
      PROVE  /\ Trained(kind)!Less(lines[n + 1].key, lines[j].key)
             /\ ~Trained(kind)!Less(lines[j].key, lines[n + 1].key)
  <2>1. /\ lines[n + 1].key \in Lexicographic(size) /\ lines[i].key \in Lexicographic(size)
        /\ lines[j].key \in Lexicographic(size)
    BY <1>1, <1>3
  <2>2. ~Trained(kind)!Less(lines[j].key, lines[i].key)
    BY DEF Smallest
  <2>3. lines[j].key = lines[i].key \/ Trained(kind)!Less(lines[i].key, lines[j].key)
    BY <2>1, <2>2, LessIsTotal
  <2>4. Trained(kind)!Less(lines[n + 1].key, lines[j].key)
    BY <1>4, <2>1, <2>3, LessIsTransitive
  <2>5. ASSUME Trained(kind)!Less(lines[j].key, lines[n + 1].key) PROVE FALSE
    BY <1>4, <2>1, <2>2, <2>5, LessIsTransitive
  <2> QED
    BY <2>4, <2>5
<1>5. ~Trained(kind)!Less(lines[n + 1].key, lines[n + 1].key)
  BY <1>3, LessIsStrict
<1>6. CASE Trained(kind)!Less(lines[n + 1].key, lines[i].key)
  <2>1. \A j \in 1..(n + 1) : ~Trained(kind)!Less(lines[j].key, lines[n + 1].key)
    BY <1>2, <1>4, <1>5, <1>6
  <2>2. \A j \in 1..n : Trained(kind)!Less(lines[n + 1].key, lines[j].key)
    BY <1>4, <1>6
  <2> QED
    BY <1>3, <1>6, <2>1, <2>2 DEF Smallest
<1>7. CASE ~Trained(kind)!Less(lines[n + 1].key, lines[i].key)
  BY <1>1, <1>2, <1>7 DEF Smallest
<1> QED
  BY <1>6, <1>7

(* The first line is the first best of one.                                  *)
LEMMA SmallestOfOne ==
    ASSUME NEW kind, NEW size \in Nat, NEW lines, lines[1].key \in Lexicographic(size)
    PROVE  Smallest(kind, lines, 1, 1)
BY LessIsStrict DEF Smallest

LEMMA SmallestIsFirstBest ==
    ASSUME NEW kind, NEW n \in Nat, NEW i, Smallest(kind, log, n, i)
    PROVE  Trained(kind)!FirstBest(n) = i
<1> DEFINE First(k) == /\ \A j \in 1..n : ~Trained(kind)!Less(log[j].key, log[k].key)
                       /\ \A j \in 1..(k - 1) : Trained(kind)!Less(log[k].key, log[j].key)
<1>1. i \in 1..n /\ First(i)
  BY DEF Smallest
<1>2. \A k \in 1..n : First(k) => k = i
  <2> SUFFICES ASSUME NEW k \in 1..n, First(k) PROVE k = i
    OBVIOUS
  <2>1. Smallest(kind, log, n, k)
    BY DEF Smallest
  <2> QED
    BY <2>1, SmallestIsUnique
<1>3. Trained(kind)!FirstBest(n) = CHOOSE k \in 1..n : First(k)
  BY Zenon DEF Trained!FirstBest
<1> HIDE DEF First
<1> QED
  BY <1>1, <1>2, <1>3

-----------------------------------------------------------------------------
(* What an epoch's network is scored by *)

LEMMA GreatestElement ==
    ASSUME NEW S, IsFiniteSet(S), S \subseteq Int, S # {}
    PROVE  Max(S) \in S /\ \A c \in S : Max(S) >= c
<1> DEFINE HasGreatest(T) == \E x \in T : \A y \in T : x >= y
           Sizes == {n \in Nat : \E T \in SUBSET S :
                        T # {} /\ Cardinality(T) = n /\ ~HasGreatest(T)}
<1>1. Sizes = {}
  <2> SUFFICES ASSUME Sizes # {} PROVE FALSE
    OBVIOUS
  <2>1. PICK n \in Sizes : \A k \in Sizes : n <= k
    <3>1. Sizes \subseteq Nat
      OBVIOUS
    <3> HIDE DEF Sizes
    <3> QED
      BY <3>1, LeastElement
  <2>2. PICK T \in SUBSET S : T # {} /\ Cardinality(T) = n /\ ~HasGreatest(T)
    OBVIOUS
  <2>3. PICK x \in T : TRUE
    BY <2>2
  <2>4. n \in Nat /\ x \in Int
    OBVIOUS
  <2>5. IsFiniteSet(T)
    BY FS_Subset
  <2>6. Cardinality(T \ {x}) = n - 1 /\ n - 1 \in Nat
    <3>1. IsFiniteSet(T \ {x}) /\ Cardinality(T \ {x}) = Cardinality(T) - 1
      BY <2>5, FS_RemoveElement
    <3>2. Cardinality(T \ {x}) \in Nat
      BY <3>1, FS_CardinalityType
    <3> QED
      BY <2>2, <3>1, <3>2
  <2>7. HasGreatest(T \ {x}) \/ T \ {x} = {}
    <3>1. n - 1 \notin Sizes
      BY <2>1, <2>4
    <3>2. T \ {x} \in SUBSET S
      OBVIOUS
    <3> HIDE DEF HasGreatest
    <3> QED
      BY <2>6, <3>1, <3>2
  <2>8. HasGreatest(T)
    <3>1. CASE T \ {x} = {}
      <4>1. \A y \in T : y = x
        BY <3>1
      <4> QED
        BY <2>3, <2>4, <4>1
    <3>2. CASE HasGreatest(T \ {x})
      <4>1. PICK m \in T \ {x} : \A y \in T \ {x} : m >= y
        BY <3>2
      <4>2. m \in Int /\ \A y \in T : y = x \/ y \in T \ {x}
        OBVIOUS
      <4>3. CASE x >= m
        <5>1. \A y \in T : x >= y
          <6> SUFFICES ASSUME NEW y \in T PROVE x >= y
            OBVIOUS
          <6>1. y \in Int /\ (y = x \/ m >= y)
            BY <4>1, <4>2
          <6> QED
            BY <2>4, <4>2, <4>3, <6>1
        <5> QED
          BY <5>1
      <4>4. CASE ~(x >= m)
        <5>1. \A y \in T : m >= y
          BY <2>4, <4>1, <4>2, <4>4
        <5> QED
          BY <5>1
      <4> QED
        BY <4>3, <4>4
    <3> QED
      BY <2>7, <3>1, <3>2
  <2> QED
    BY <2>2, <2>8
<1>2. HasGreatest(S)
  <2>1. Cardinality(S) \in Nat
    BY FS_CardinalityType
  <2>2. Cardinality(S) \notin Sizes
    BY <1>1
  <2> QED
    BY <2>1, <2>2
<1> QED
  BY <1>2 DEF Max

(* What the simulator says of a stop; and the metrics any decisions on the   *)
(* episode's controls are given.                                             *)
PostOf(e, claim) ==
    IF claim = None THEN "none" ELSE IF Lasting[<<e, claim>>] THEN "stable" ELSE "unstable"
MetricsOf(kind, e) ==
    {Trained(kind)!Metrics(e, claims, PostOf(e, FirstOf(claims))) :
        claims \in SUBSET DOMAIN Complete[e]}

CompleteAt(e) == {c \in DOMAIN Complete[e] : Complete[e][c]}

LEMMA FirstTruthIsLeast ==
    ASSUME NEW kind, Trained(kind)!SelectionAssumption, NEW e \in Validation
    PROVE  LET ready == Trained(kind)!FirstTruth(e) IN
           IF CompleteAt(e) = {} THEN ready = None
           ELSE ready \in CompleteAt(e) /\ ready \in Nat /\ \A c \in CompleteAt(e) : ready <= c
<1>1. CompleteAt(e) \subseteq Nat
  BY DEF CompleteAt, Trained!SelectionAssumption
<1>2. Trained(kind)!FirstTruth(e) = FirstOf(CompleteAt(e))
  BY SameOperators, Zenon DEF Trained!FirstTruth, CompleteAt
<1> QED
  BY <1>1, <1>2, FirstIsLeast

(* What the metrics of an episode say about its first claim.                 *)
LEMMA MetricsSay ==
    ASSUME NEW kind, Trained(kind)!SelectionAssumption, NEW e \in Validation,
           NEW m \in MetricsOf(kind, e)
    PROVE  /\ m.claim \in {None} \cup DOMAIN Complete[e]
           /\ m.premature <=> m.claim # None /\ m.claim \notin CompleteAt(e)
           /\ ~m.missed /\ CompleteAt(e) # {} => m.claim # None
           /\ m.delay = IF CompleteAt(e) # {} /\ m.claim \in CompleteAt(e)
                        THEN m.claim - Trained(kind)!FirstTruth(e) ELSE None
           /\ m.post = PostOf(e, m.claim)
<1> DEFINE ready == Trained(kind)!FirstTruth(e)
<1>1. PICK claims \in SUBSET DOMAIN Complete[e] :
        m = Trained(kind)!Metrics(e, claims, PostOf(e, FirstOf(claims)))
  BY DEF MetricsOf
<1> DEFINE claim == FirstOf(claims)
<1>2. /\ claims = {} => claim = None
      /\ claims # {} => claim \in claims /\ claim \in Nat /\ claim # None
  <2>1. claims \subseteq Nat
    BY DEF Trained!SelectionAssumption
  <2> QED
    BY <2>1, FirstIsLeast
<1>3. /\ CompleteAt(e) = {} => ready = None
      /\ CompleteAt(e) # {} => ready \in Nat
  BY FirstTruthIsLeast
<1>4. /\ m.claim = claim
      /\ m.premature <=> claim # None /\ ~Complete[e][claim]
      /\ m.missed <=> ready # None /\ ~\E c \in claims : Complete[e][c]
      /\ m.delay = IF ready # None /\ claim # None /\ ~m.premature THEN claim - ready ELSE None
      /\ m.post = PostOf(e, claim)
  <2> HIDE DEF claim, ready
  <2>1. Trained(kind)!FirstOf(claims) = FirstOf(claims) /\ Trained(kind)!None = None
    BY SameOperators
  <2> QED
    BY <1>1, <2>1, Zenon DEF Trained!Metrics, claim, ready
<1>5. claim # None => (Complete[e][claim] <=> claim \in CompleteAt(e))
  BY <1>2 DEF CompleteAt
<1>6. None \notin CompleteAt(e) /\ None \notin Nat
  BY DEF CompleteAt, None, Trained!SelectionAssumption
<1> QED
  BY <1>2, <1>3, <1>4, <1>5, <1>6

AllScored(kind, ev) == \A e \in DOMAIN ev : e \in Validation /\ ev[e] \in MetricsOf(kind, e)

(* The errors a key counts are numbers of episodes; none means no episode.   *)
LEMMA ErrorsCounted ==
    ASSUME NEW kind, Trained(kind)!SelectionAssumption, NEW S \in SUBSET Validation
    PROVE  Trained(kind)!Cardinality(S) \in Nat /\ (Trained(kind)!Cardinality(S) = 0 => S = {})
<1>1. IsFiniteSet(Validation)
  BY SameOperators DEF Trained!SelectionAssumption
<1>2. IsFiniteSet(S)
  BY <1>1, FS_Subset
<1> QED
  BY <1>2, SameOperators, FS_CardinalityType, FS_EmptySet

LEMMA KeyIsOfNumbers ==
    ASSUME NEW kind, Trained(kind)!SelectionAssumption, NEW ev, DOMAIN ev = Validation,
           AllScored(kind, ev), NEW aux \in Auxiliaries,
           NEW k, k = Trained(kind)!SelectionKey(ev, aux)
    PROVE  /\ k \in Lexicographic(8)
           /\ k[1] = IF Trained(kind)!Passed(ev, aux) THEN 0 ELSE 1
<1>1. /\ Trained(kind)!Premature(ev) \in Nat /\ Trained(kind)!Missed(ev) \in Nat
      /\ Trained(kind)!PostFailures(ev) \in Nat /\ Trained(kind)!Late(ev) \in Nat
  <2>1. /\ {e \in Validation : ev[e].premature} \in SUBSET Validation
        /\ {e \in Validation : ev[e].missed} \in SUBSET Validation
        /\ {e \in Validation : ev[e].post = "unstable"} \in SUBSET Validation
        /\ {e \in Validation : ev[e].delay > MaxDelay} \in SUBSET Validation
    OBVIOUS
  <2> QED
    BY <2>1, ErrorsCounted, Zenon DEF Trained!Premature, Trained!Missed, Trained!PostFailures,
       Trained!Late, Trained!Count
<1>2. aux.false \in Int /\ aux.confident \in Int
  BY DEF Trained!SelectionAssumption
<1> DEFINE delays == Trained(kind)!Delays(ev)
           longest == IF delays = {} THEN 999 ELSE Trained(kind)!Max(delays)
<1>3. longest \in Int
  <2>1. \A e \in Validation : ev[e].delay \in Nat \cup {None}
    <3> SUFFICES ASSUME NEW e \in Validation PROVE ev[e].delay \in Nat \cup {None}
      OBVIOUS
    <3>1. ev[e] \in MetricsOf(kind, e)
      BY DEF AllScored
    <3>2. /\ ev[e].claim \in {None} \cup DOMAIN Complete[e]
          /\ ev[e].delay = IF CompleteAt(e) # {} /\ ev[e].claim \in CompleteAt(e)
                           THEN ev[e].claim - Trained(kind)!FirstTruth(e) ELSE None
      BY <3>1, MetricsSay
    <3>3. CompleteAt(e) \subseteq Nat
      BY DEF CompleteAt, Trained!SelectionAssumption
    <3>4. CompleteAt(e) # {} =>
            /\ Trained(kind)!FirstTruth(e) \in Nat
            /\ \A c \in CompleteAt(e) : Trained(kind)!FirstTruth(e) <= c
      BY FirstTruthIsLeast
    <3> QED
      BY <3>2, <3>3, <3>4
  <2>2. delays \subseteq Nat /\ delays \subseteq {ev[e].delay : e \in Validation}
    BY <2>1, SameOperators, Zenon DEF Trained!Delays
  <2>3. IsFiniteSet({ev[e].delay : e \in Validation})
    <3> DEFINE f == [e \in Validation |-> ev[e].delay]
    <3>1. f \in Surjection(Validation, {ev[e].delay : e \in Validation})
      BY DEF Surjection
    <3>2. IsFiniteSet(Validation)
      BY SameOperators DEF Trained!SelectionAssumption
    <3> HIDE DEF f
    <3> QED
      BY <3>1, <3>2, FS_Surjection
  <2>4. IsFiniteSet(delays)
    BY <2>2, <2>3, FS_Subset, Zenon
  <2>5. CASE delays = {}
    BY <2>5
  <2>6. CASE delays # {}
    <3>1. longest = Max(delays)
      BY <2>6, SameOperators, Zenon
    <3> HIDE DEF delays, longest
    <3>2. delays \subseteq Int /\ Max(delays) \in delays
      <4>1. delays \subseteq Int
        BY <2>2
      <4> QED
        BY <4>1, <2>4, <2>6, GreatestElement, Zenon
    <3>3. Max(delays) \in Nat
      BY <2>2, <3>2
    <3> QED
      BY <3>1, <3>3
  <2> QED
    BY <2>5, <2>6
<1> HIDE DEF longest
<1>4. k = <<IF Trained(kind)!Passed(ev, aux) THEN 0 ELSE 1, Trained(kind)!Premature(ev),
            Trained(kind)!Missed(ev), Trained(kind)!PostFailures(ev), Trained(kind)!Late(ev),
            aux.false, aux.confident, longest>>
  BY Zenon DEF Trained!SelectionKey, longest
<1> QED
  BY <1>1, <1>2, <1>3, <1>4 DEF Lexicographic

(* A network that meets the gate stops no episode before it is done, each    *)
(* that gets done soon after it is, and where it stays done.                 *)
LEMMA GateMet ==
    ASSUME NEW kind, Trained(kind)!SelectionAssumption, NEW ev, DOMAIN ev = Validation,
           AllScored(kind, ev), NEW aux, Trained(kind)!Passed(ev, aux), NEW e \in Validation
    PROVE  IF Trained(kind)!FirstTruth(e) = None THEN ev[e].claim = None
           ELSE LET ready == Trained(kind)!FirstTruth(e) IN
                /\ ev[e].claim \in ready..(ready + MaxDelay)
                /\ Complete[e][ev[e].claim] /\ Lasting[<<e, ev[e].claim>>]
<1>1. ~ev[e].premature /\ ~ev[e].missed /\ ev[e].post # "unstable" /\ ~(ev[e].delay > MaxDelay)
  <2>1. /\ Trained(kind)!Premature(ev) = 0 /\ Trained(kind)!Missed(ev) = 0
        /\ Trained(kind)!PostFailures(ev) = 0 /\ Trained(kind)!Late(ev) = 0
    BY DEF Trained!Passed
  <2>2. ASSUME NEW S \in SUBSET Validation, Trained(kind)!Cardinality(S) = 0 PROVE e \notin S
    BY <2>2, ErrorsCounted
  <2>3. e \notin {x \in Validation : ev[x].premature}
    BY <2>1, <2>2, Zenon DEF Trained!Premature, Trained!Count
  <2>4. e \notin {x \in Validation : ev[x].missed}
    BY <2>1, <2>2, Zenon DEF Trained!Missed, Trained!Count
  <2>5. e \notin {x \in Validation : ev[x].post = "unstable"}
    BY <2>1, <2>2, Zenon DEF Trained!PostFailures, Trained!Count
  <2>6. e \notin {x \in Validation : ev[x].delay > MaxDelay}
    BY <2>1, <2>2, Zenon DEF Trained!Late, Trained!Count
  <2> QED
    BY <2>3, <2>4, <2>5, <2>6
<1> DEFINE claim == ev[e].claim
           ready == Trained(kind)!FirstTruth(e)
<1>2. /\ claim \in {None} \cup DOMAIN Complete[e]
      /\ claim # None => claim \in CompleteAt(e)
      /\ CompleteAt(e) # {} => claim # None
      /\ CompleteAt(e) # {} /\ claim \in CompleteAt(e) => ~(claim - ready > MaxDelay)
      /\ claim # None => Lasting[<<e, claim>>]
  <2>1. ev[e] \in MetricsOf(kind, e)
    BY DEF AllScored
  <2> QED
    BY <1>1, <2>1, MetricsSay DEF PostOf
<1>3. IF CompleteAt(e) = {} THEN ready = None
      ELSE ready \in CompleteAt(e) /\ ready \in Nat /\ \A c \in CompleteAt(e) : ready <= c
  BY FirstTruthIsLeast
<1>4. CompleteAt(e) \subseteq Nat /\ None \notin Nat /\ MaxDelay \in Nat
      /\ \A c \in CompleteAt(e) : Complete[e][c]
  BY DEF CompleteAt, None, Trained!SelectionAssumption
<1> HIDE DEF claim, ready
<1>5. CASE CompleteAt(e) = {}
  BY <1>2, <1>3, <1>5 DEF claim, ready
<1>6. CASE CompleteAt(e) # {}
  <2>1. claim \in CompleteAt(e) /\ ready # None
    BY <1>2, <1>3, <1>4, <1>6
  <2>2. claim \in ready..(ready + MaxDelay)
    BY <1>2, <1>3, <1>4, <1>6, <2>1
  <2>3. Complete[e][claim] /\ Lasting[<<e, claim>>]
    BY <1>2, <1>4, <2>1
  <2> QED
    BY <2>1, <2>2, <2>3 DEF claim, ready
<1> QED
  BY <1>5, <1>6

-----------------------------------------------------------------------------
(* What holds between two writes of a training *)

Evaluations(kind) ==
    {ev \in UNION {[D -> UNION {MetricsOf(kind, e) : e \in Validation}] : D \in SUBSET Validation} :
        AllScored(kind, ev)}
KeysOf(kind) == IF kind = "adapted" THEN Lexicographic(8) ELSE Keys
Lines(kind) ==
    {line \in [key : KeysOf(kind), events : Evaluations(kind)] :
        kind = "adapted" =>
            /\ DOMAIN line.events = Validation
            /\ \E aux \in Auxiliaries :
                 line.key = Trained(kind)!SelectionKey(line.events, aux)}

Live == training \notin {"failed", "killed"}
(* The last line has not been compared with the best yet.                    *)
Waits(kind) == training = "compare" \/ (kind = "visual" /\ training = "last")
Compared(kind) == IF Waits(kind) THEN Len(log) - 1 ELSE Len(log)

(* Every epoch has one line, which its score appends.                        *)
EpochsInv(kind) ==
    /\ epoch \in 1..Epochs /\ log \in Seq(Lines(kind))
    /\ training \in {"train", "score", "compare", "best", "predictions", "last", "next", "freeze",
                     "over", "failed", "killed"}
    /\ Len(log) \in {epoch - 1, epoch}
    /\ Live => Len(log) = IF training \in {"train", "score"} THEN epoch - 1 ELSE epoch
    /\ training = "next" => epoch < Epochs
    /\ training \in {"freeze", "over"} => epoch = Epochs
    /\ lastFile \in {-1} \cup 0..epoch

(* An epoch's scores are of its own network, by what the simulator did from  *)
(* its own stops.                                                            *)
NetworkInv(kind) ==
    /\ events \in Evaluations(kind)
    /\ kind # "adapted" => todo = {}
    /\ kind = "adapted" /\ training = "score" =>
         /\ opinion \in Opinions /\ todo \subseteq Validation
         /\ DOMAIN events = Validation \ todo
    /\ DOMAIN probed = DOMAIN postCache
    /\ \A at \in DOMAIN postCache :
         /\ \E e \in Validation : \E c \in DOMAIN Complete[e] :
              at = <<e, c>> /\ postCache[at] = PostOf(e, c)
         /\ probed[at] = 1

(* The epoch in memory is the first of the best compared so far.             *)
BestInv(kind) == Live =>
    /\ IF Compared(kind) = 0 THEN best = <<>> /\ selected = 0
       ELSE Smallest(kind, log, Compared(kind), selected) /\ best = log[selected].key
    /\ Waits(kind) => key = log[Len(log)].key

(* The files follow the memory, except while they are written.               *)
FilesInv(kind) ==
    /\ Live =>
         /\ IF training = "best" THEN bestFile = -1 /\ selected = epoch ELSE bestFile = selected
         /\ kind = "adapted" =>
              IF training \in {"best", "predictions"} THEN selected = epoch
              ELSE predictions = selected
    /\ ~Live /\ bestFile # -1 =>
         \/ bestFile = 0
         \/ Smallest(kind, log, Len(log), bestFile)
         \/ Len(log) > 1 /\ Smallest(kind, log, Len(log) - 1, bestFile)
    /\ predictions \in 0..epoch /\ selected \in 0..epoch /\ bestFile \in {-1} \cup 0..epoch
    /\ kept = IF training # "over" THEN 0 ELSE IF kind = "visual" THEN epoch ELSE selected

SelectionInv(kind) ==
    EpochsInv(kind) /\ NetworkInv(kind) /\ BestInv(kind) /\ FilesInv(kind)

LEMMA LinesSay ==
    ASSUME NEW kind, Trained(kind)!SelectionAssumption, EpochsInv(kind)
    PROVE  /\ Len(log) \in Nat /\ DOMAIN log = 1..Len(log) /\ epoch \in Nat /\ Epochs \in Nat
           /\ \A i \in 1..Len(log) : log[i] \in Lines(kind)
BY DEF EpochsInv, Trained!SelectionAssumption

(* All keys of a training have one length, and are not empty.                *)
LEMMA KeysAreNumbers ==
    ASSUME NEW kind, Trained(kind)!SelectionAssumption
    PROVE  \E n \in Nat : \A k \in KeysOf(kind) : k \in Lexicographic(n) /\ k # <<>>
<1>1. CASE kind = "adapted"
  <2>1. \A k \in Lexicographic(8) : k # <<>>
    <3>1. \A k \in Lexicographic(8) : 1 \in DOMAIN k
      BY DEF Lexicographic
    <3> QED
      BY <3>1
  <2> QED
    BY <1>1, <2>1 DEF KeysOf
<1>2. CASE kind # "adapted" /\ Keys # {}
  <2>1. PICK one \in Keys : TRUE
    BY <1>2
  <2>2. \A k \in Keys : k \in Seq(Int) /\ k # <<>> /\ Len(k) = Len(one)
    BY DEF Trained!SelectionAssumption
  <2>3. \A k \in Keys : k \in Lexicographic(Len(one))
    BY <2>2 DEF Lexicographic
  <2>4. Len(one) \in Nat
    BY <2>2
  <2> QED
    BY <1>2, <2>2, <2>3, <2>4 DEF KeysOf
<1>3. CASE kind # "adapted" /\ Keys = {}
  BY <1>3 DEF KeysOf
<1> QED
  BY <1>1, <1>2, <1>3

LEMMA AnEvaluation ==
    ASSUME NEW kind, NEW D \in SUBSET Validation, NEW ev, ev = [e \in D |-> ev[e]],
           \A e \in D : ev[e] \in MetricsOf(kind, e)
    PROVE  ev \in Evaluations(kind)
<1> DEFINE All == UNION {MetricsOf(kind, e) : e \in Validation}
<1>1. \A e \in D : ev[e] \in All
  OBVIOUS
<1>2. ev \in [D -> All]
  <2> HIDE DEF All
  <2> QED
    BY <1>1
<1>3. AllScored(kind, ev)
  BY <1>2 DEF AllScored
<1> QED
  BY <1>2, <1>3, Zenon DEF Evaluations

LEMMA SelectionStarts ==
    ASSUME NEW kind, Trained(kind)!SelectionAssumption, Trained(kind)!Init
    PROVE  SelectionInv(kind)
<1>1. Trained(kind)!Nothing \in Evaluations(kind)
  <2>1. /\ Trained(kind)!Nothing = [e \in {} |-> Trained(kind)!Nothing[e]]
        /\ {} \in SUBSET Validation
    BY DEF Trained!Nothing
  <2> QED
    BY <2>1, AnEvaluation
<1>2. EpochsInv(kind)
  BY DEF Trained!Init, EpochsInv, Trained!SelectionAssumption
<1>3. NetworkInv(kind)
  BY <1>1 DEF Trained!Init, NetworkInv, Trained!Nothing
<1>4. BestInv(kind) /\ FilesInv(kind)
  BY DEF Trained!Init, BestInv, FilesInv, Compared, Waits, Live
<1> QED
  BY <1>2, <1>3, <1>4 DEF SelectionInv

-----------------------------------------------------------------------------
(* A step of the training keeps the epochs and the lines *)

LEMMA EvaluationsSay ==
    ASSUME NEW kind, NEW ev \in Evaluations(kind)
    PROVE  AllScored(kind, ev) /\ DOMAIN ev \subseteq Validation
BY DEF Evaluations, AllScored

(* A line of the log is of the scores it was made from.                      *)
LEMMA ARecordedLine ==
    ASSUME NEW kind, Trained(kind)!SelectionAssumption, SelectionInv(kind), Trained(kind)!Record
    PROVE  [key |-> key', events |-> events] \in Lines(kind)
<1>1. events \in Evaluations(kind)
  BY DEF SelectionInv, NetworkInv
<1>2. CASE kind = "adapted"
  <2>1. DOMAIN events = Validation
    BY <1>2 DEF SelectionInv, NetworkInv, Trained!Record
  <2>2. PICK aux \in Auxiliaries : key' = Trained(kind)!SelectionKey(events, aux)
    BY <1>2 DEF Trained!Record
  <2>3. key' \in KeysOf(kind)
    <3>1. AllScored(kind, events)
      BY <1>1, EvaluationsSay
    <3> QED
      BY <1>2, <2>1, <2>2, <3>1, KeyIsOfNumbers DEF KeysOf
  <2> QED
    BY <1>1, <1>2, <2>1, <2>2, <2>3 DEF Lines
<1>3. CASE kind # "adapted"
  BY <1>1, <1>3 DEF Trained!Record, Lines, KeysOf
<1> QED
  BY <1>2, <1>3

-----------------------------------------------------------------------------
(* Every step of a training keeps the invariant *)

LEMMA EpochBegins ==
    ASSUME NEW kind, Trained(kind)!SelectionAssumption, SelectionInv(kind),
           Trained(kind)!Optimise \/ Trained(kind)!Adapt
    PROVE  SelectionInv(kind)'
<1>1. /\ training = "train" /\ training' = "score" /\ epoch' = epoch
      /\ log' = log /\ lastFile' = lastFile /\ best' = best /\ selected' = selected
      /\ key' = key /\ bestFile' = bestFile /\ predictions' = predictions /\ kept' = kept
      /\ postCache' = postCache /\ probed' = probed
  BY Zenon DEF Trained!Optimise, Trained!Adapt, Trained!disk
<1>2. EpochsInv(kind)'
  BY <1>1 DEF SelectionInv, EpochsInv, Live
<1>3. NetworkInv(kind)'
  <2>1. Trained(kind)!Nothing \in Evaluations(kind) /\ DOMAIN Trained(kind)!Nothing = {}
    <3>1. /\ Trained(kind)!Nothing = [e \in {} |-> Trained(kind)!Nothing[e]]
          /\ {} \in SUBSET Validation /\ DOMAIN Trained(kind)!Nothing = {}
      BY DEF Trained!Nothing
    <3> QED
      BY <3>1, AnEvaluation
  <2>2. events' = Trained(kind)!Nothing
    BY DEF Trained!Optimise, Trained!Adapt
  <2>3. kind # "adapted" => todo' = todo
    BY DEF Trained!Optimise, Trained!Adapt
  <2>4. kind = "adapted" => opinion' \in Opinions /\ todo' = Validation
    BY DEF Trained!Optimise, Trained!Adapt
  <2> QED
    BY <1>1, <2>1, <2>2, <2>3, <2>4 DEF SelectionInv, NetworkInv
<1>4. BestInv(kind)'
  BY <1>1 DEF SelectionInv, BestInv, Compared, Waits, Live
<1>5. FilesInv(kind)'
  BY <1>1 DEF SelectionInv, FilesInv, Live
<1> QED
  BY <1>2, <1>3, <1>4, <1>5 DEF SelectionInv

LEMMA StopProbed ==
    ASSUME NEW kind, Trained(kind)!SelectionAssumption, SelectionInv(kind), NEW e \in Validation,
           Trained(kind)!Probe(e), training' = training
    PROVE  SelectionInv(kind)'
<1> DEFINE claim == FirstOf(opinion[e])
           at == <<e, claim>>
<1>1. /\ training = "score" /\ e \in todo /\ claim # None /\ at \notin DOMAIN postCache
  BY SameOperators, Zenon DEF Trained!Probe
<1>2. kind = "adapted"
  BY <1>1 DEF SelectionInv, NetworkInv
<1>3. claim \in DOMAIN Complete[e]
  <2>1. opinion[e] \subseteq DOMAIN Complete[e] /\ DOMAIN Complete[e] \subseteq Nat
    BY <1>1, <1>2 DEF SelectionInv, NetworkInv, Trained!SelectionAssumption
  <2> QED
    BY <1>1, <2>1, FirstIsLeast
<1>4. PICK verdict : verdict = PostOf(e, claim)
  OBVIOUS
<1>5. /\ postCache' = [x \in DOMAIN postCache \cup {at} |->
                       IF x = at THEN verdict ELSE postCache[x]]
      /\ probed' = [x \in DOMAIN probed \cup {at} |->
                      IF x \notin DOMAIN probed THEN 1
                      ELSE IF x = at THEN probed[x] + 1 ELSE probed[x]]
  <2>1. Trained(kind)!FirstOf(opinion[e]) = claim
    BY SameOperators
  <2>2. verdict = IF Lasting[at] THEN "stable" ELSE "unstable"
    BY <1>1, <1>4, Zenon DEF PostOf
  <2>3. training' # "failed"
    BY <1>1
  <2> HIDE DEF claim
  <2> QED
    BY <2>1, <2>2, <2>3, Zenon DEF Trained!Probe
<1>6. /\ epoch' = epoch /\ opinion' = opinion /\ todo' = todo /\ events' = events /\ key' = key
      /\ best' = best /\ selected' = selected /\ log' = log /\ bestFile' = bestFile
      /\ predictions' = predictions /\ lastFile' = lastFile /\ kept' = kept
  BY Zenon DEF Trained!Probe
<1>7. NetworkInv(kind)'
  <2>1. DOMAIN probed = DOMAIN postCache
    BY DEF SelectionInv, NetworkInv
  <2>2. DOMAIN probed' = DOMAIN postCache'
    BY <1>5, <2>1
  <2>3. ASSUME NEW x \in DOMAIN postCache'
        PROVE  /\ \E f \in Validation : \E c \in DOMAIN Complete[f] :
                    x = <<f, c>> /\ postCache'[x] = PostOf(f, c)
               /\ probed'[x] = 1
    <3>1. CASE x = at
      <4>1. postCache'[x] = PostOf(e, claim) /\ probed'[x] = 1
        <5> HIDE DEF at, claim
        <5> QED
          BY <1>1, <1>4, <1>5, <2>1, <3>1
      <4> QED
        BY <1>3, <3>1, <4>1
    <3>2. CASE x # at
      <4>1. x \in DOMAIN postCache /\ postCache'[x] = postCache[x] /\ probed'[x] = probed[x]
        <5> HIDE DEF at
        <5> QED
          BY <1>5, <2>1, <3>2
      <4> QED
        BY <4>1 DEF SelectionInv, NetworkInv
    <3> QED
      BY <3>1, <3>2
  <2> HIDE DEF claim
  <2> QED
    BY <1>6, <2>2, <2>3 DEF SelectionInv, NetworkInv
<1>8. EpochsInv(kind)' /\ BestInv(kind)' /\ FilesInv(kind)'
  BY <1>6 DEF SelectionInv, EpochsInv, BestInv, FilesInv, Compared, Waits, Live
<1> QED
  BY <1>7, <1>8 DEF SelectionInv

LEMMA EpisodeScored ==
    ASSUME NEW kind, Trained(kind)!SelectionAssumption, SelectionInv(kind), NEW e \in Validation,
           Trained(kind)!ScoreEpisode(e)
    PROVE  SelectionInv(kind)'
<1> DEFINE claim == FirstOf(opinion[e])
           at == <<e, claim>>
<1>1. training = "score" /\ e \in todo /\ (claim = None \/ at \in DOMAIN postCache)
  BY SameOperators, Zenon DEF Trained!ScoreEpisode
<1>2. kind = "adapted"
  BY <1>1 DEF SelectionInv, NetworkInv
<1>3. opinion[e] \in SUBSET DOMAIN Complete[e] /\ DOMAIN Complete[e] \subseteq Nat
  BY <1>1, <1>2 DEF SelectionInv, NetworkInv, Trained!SelectionAssumption
<1>4. Trained(kind)!Cached(e) = PostOf(e, claim)
  <2>1. Trained(kind)!Cached(e) = IF at \in DOMAIN postCache THEN postCache[at] ELSE "none"
    BY SameOperators, Zenon DEF Trained!Cached
  <2>2. CASE claim = None
    <3>1. at \notin DOMAIN postCache
      <4> SUFFICES ASSUME at \in DOMAIN postCache PROVE FALSE
        OBVIOUS
      <4>1. PICK f \in Validation : \E c \in DOMAIN Complete[f] : at = <<f, c>>
        BY DEF SelectionInv, NetworkInv
      <4>2. claim \in Nat
        BY <4>1 DEF Trained!SelectionAssumption
      <4> QED
        BY <2>2, <4>2 DEF None
    <3> QED
      BY <2>1, <2>2, <3>1, Zenon DEF PostOf
  <2>3. CASE claim # None
    <3>1. \E f \in Validation : \E c \in DOMAIN Complete[f] :
            at = <<f, c>> /\ postCache[at] = PostOf(f, c)
      BY <1>1, <2>3 DEF SelectionInv, NetworkInv
    <3>2. postCache[at] = PostOf(e, claim)
      BY <3>1
    <3> QED
      BY <1>1, <2>1, <2>3, <3>2
  <2> QED
    BY <2>2, <2>3
<1>5. PICK m \in MetricsOf(kind, e) :
        m = Trained(kind)!Metrics(e, opinion[e], Trained(kind)!Cached(e))
  BY <1>3, <1>4 DEF MetricsOf
<1>6. /\ events' = [x \in DOMAIN events \cup {e} |-> IF x = e THEN m ELSE events[x]]
      /\ todo' = todo \ {e}
  BY <1>5, Zenon DEF Trained!ScoreEpisode
<1>7. /\ training' = training /\ epoch' = epoch /\ opinion' = opinion /\ postCache' = postCache
      /\ key' = key /\ best' = best /\ selected' = selected /\ log' = log /\ bestFile' = bestFile
      /\ predictions' = predictions /\ lastFile' = lastFile /\ kept' = kept /\ probed' = probed
  BY Zenon DEF Trained!ScoreEpisode, Trained!disk
<1>8. NetworkInv(kind)'
  <2>1. AllScored(kind, events) /\ DOMAIN events \subseteq Validation
    BY EvaluationsSay DEF SelectionInv, NetworkInv
  <2>2. /\ DOMAIN events' = DOMAIN events \cup {e} /\ DOMAIN events' \in SUBSET Validation
        /\ events' = [x \in DOMAIN events' |-> events'[x]]
    BY <1>6, <2>1
  <2>3. \A x \in DOMAIN events' : events'[x] \in MetricsOf(kind, x)
    BY <1>6, <2>1, <2>2 DEF AllScored
  <2>4. events' \in Evaluations(kind)
    BY <2>2, <2>3, AnEvaluation
  <2> QED
    BY <1>1, <1>2, <1>6, <1>7, <2>2, <2>4 DEF SelectionInv, NetworkInv
<1>9. EpochsInv(kind)' /\ BestInv(kind)' /\ FilesInv(kind)'
  BY <1>7 DEF SelectionInv, EpochsInv, BestInv, FilesInv, Compared, Waits, Live
<1> QED
  BY <1>8, <1>9 DEF SelectionInv

LEMMA ScoreRecorded ==
    ASSUME NEW kind, Trained(kind)!SelectionAssumption, SelectionInv(kind), Trained(kind)!Record
    PROVE  SelectionInv(kind)'
<1>1. /\ training = "score" /\ epoch' = epoch /\ opinion' = opinion /\ events' = events
      /\ todo' = todo /\ postCache' = postCache /\ best' = best /\ selected' = selected
      /\ bestFile' = bestFile /\ predictions' = predictions /\ lastFile' = lastFile
      /\ kept' = kept /\ probed' = probed
      /\ training' = IF kind = "visual" THEN "last" ELSE "compare"
  BY Zenon DEF Trained!Record
<1>2. PICK line \in Lines(kind) : line.key = key' /\ log' = Append(log, line)
  BY ARecordedLine DEF Trained!Record
<1>3. log \in Seq(Lines(kind)) /\ Len(log) = epoch - 1 /\ epoch \in Nat /\ Len(log) \in Nat
  BY <1>1, LinesSay DEF SelectionInv, EpochsInv, Live
<1>4. /\ log' \in Seq(Lines(kind)) /\ Len(log') = epoch /\ log'[epoch] = line
      /\ \A i \in 1..(epoch - 1) : log'[i] = log[i]
  BY <1>2, <1>3
<1>5. EpochsInv(kind)'
  BY <1>1, <1>4 DEF SelectionInv, EpochsInv, Live
<1>6. NetworkInv(kind)'
  BY <1>1 DEF SelectionInv, NetworkInv
<1>7. BestInv(kind)'
  <2>1. Waits(kind)' /\ ~Waits(kind) /\ Live /\ Compared(kind)' = Compared(kind)
    BY <1>1, <1>3, <1>4 DEF Waits, Live, Compared
  <2>2. Compared(kind) = epoch - 1
    BY <1>3, <2>1 DEF Compared
  <2>3. CASE epoch - 1 = 0
    BY <1>1, <1>2, <1>4, <2>1, <2>2, <2>3 DEF SelectionInv, BestInv
  <2>4. CASE epoch - 1 # 0
    <3>1. Smallest(kind, log, epoch - 1, selected) /\ best = log[selected].key
      BY <2>1, <2>2, <2>4 DEF SelectionInv, BestInv
    <3>2. Smallest(kind, log', epoch - 1, selected) /\ log'[selected] = log[selected]
      BY <1>3, <1>4, <3>1 DEF Smallest
    <3> QED
      BY <1>1, <1>2, <1>4, <2>1, <2>2, <2>4, <3>1, <3>2 DEF BestInv
  <2> QED
    BY <2>3, <2>4
<1>8. FilesInv(kind)'
  BY <1>1 DEF SelectionInv, FilesInv, Live
<1> QED
  BY <1>5, <1>6, <1>7, <1>8 DEF SelectionInv

LEMMA BestCompared ==
    ASSUME NEW kind, Trained(kind)!SelectionAssumption, SelectionInv(kind), Trained(kind)!Compare
    PROVE  SelectionInv(kind)'
<1>1. /\ training = "compare" /\ epoch' = epoch /\ opinion' = opinion /\ events' = events
      /\ todo' = todo /\ postCache' = postCache /\ key' = key /\ log' = log
      /\ predictions' = predictions /\ lastFile' = lastFile
      /\ kept' = kept /\ probed' = probed
  BY Zenon DEF Trained!Compare
<1>2. /\ Trained(kind)!Improves =>
           best' = key /\ selected' = epoch /\ bestFile' = -1 /\ training' = "best"
      /\ ~Trained(kind)!Improves =>
           /\ training' = Trained(kind)!AfterBest
           /\ best' = best /\ selected' = selected /\ bestFile' = bestFile
  <2>1. Trained(kind)!Torn = -1
    BY DEF Trained!Torn
  <2> QED
    BY <2>1, Zenon DEF Trained!Compare
<1>3. /\ Len(log) = epoch /\ epoch \in Nat /\ epoch \in 1..Epochs /\ Live /\ Waits(kind)
      /\ \A i \in 1..epoch : log[i] \in Lines(kind)
      /\ key = log[epoch].key /\ Compared(kind) = epoch - 1
  BY <1>1, LinesSay DEF SelectionInv, EpochsInv, BestInv, Live, Waits, Compared
<1>4. PICK n \in Nat : \A k \in KeysOf(kind) : k \in Lexicographic(n) /\ k # <<>>
  BY KeysAreNumbers
<1>5. \A i \in 1..epoch : log[i].key \in Lexicographic(n) /\ log[i].key # <<>>
  BY <1>3, <1>4 DEF Lines
<1>6. IF Trained(kind)!Improves THEN Smallest(kind, log, epoch, epoch)
      ELSE Smallest(kind, log, epoch, selected) /\ best = log[selected].key
  <2>1. CASE epoch = 1
    <3>1. best = <<>>
      BY <1>3, <2>1 DEF SelectionInv, BestInv
    <3>2. Smallest(kind, log, 1, 1)
      BY <1>5, <2>1, SmallestOfOne
    <3> QED
      BY <2>1, <3>1, <3>2 DEF Trained!Improves
  <2>2. CASE epoch # 1
    <3>1. Smallest(kind, log, epoch - 1, selected) /\ best = log[selected].key
      BY <1>3, <2>2 DEF SelectionInv, BestInv
    <3>2. selected \in 1..(epoch - 1) /\ best # <<>>
      BY <1>3, <1>5, <3>1 DEF Smallest
    <3>3. Trained(kind)!Improves <=> Trained(kind)!Less(log[epoch].key, log[selected].key)
      BY <1>3, <3>1, <3>2 DEF Trained!Improves
    <3>4. epoch - 1 \in Nat /\ (epoch - 1) + 1 = epoch
      BY <1>3
    <3> QED
      BY <1>5, <3>1, <3>3, <3>4, SmallestNext
  <2> QED
    BY <2>1, <2>2
<1>7. /\ training' \in {"best", "last", "freeze", "next"}
      /\ training' = "last" => kind # "visual"
      /\ training' = "freeze" => epoch = Epochs
      /\ training' = "next" => epoch < Epochs
  <2>1. training' \in {"best", Trained(kind)!AfterBest}
    BY <1>2
  <2> QED
    BY <1>3, <2>1 DEF Trained!AfterBest, Trained!SelectionAssumption
<1>8. EpochsInv(kind)'
  BY <1>1, <1>3, <1>7 DEF SelectionInv, EpochsInv, Live
<1>9. NetworkInv(kind)'
  BY <1>1, <1>7 DEF SelectionInv, NetworkInv
<1>10. BestInv(kind)'
  <2>1. ~Waits(kind)' /\ Compared(kind)' = epoch
    BY <1>1, <1>3, <1>7 DEF Waits, Compared
  <2>2. epoch # 0
    BY <1>3
  <2>3. CASE Trained(kind)!Improves
    BY <1>1, <1>2, <1>3, <1>6, <2>1, <2>2, <2>3 DEF BestInv
  <2>4. CASE ~Trained(kind)!Improves
    BY <1>1, <1>2, <1>3, <1>6, <2>1, <2>2, <2>4 DEF BestInv
  <2> QED
    BY <2>3, <2>4
<1>11. FilesInv(kind)'
  <2>1. bestFile = selected /\ predictions \in 0..epoch /\ selected \in 0..epoch
    BY <1>1 DEF SelectionInv, FilesInv, Live
  <2>2. CASE Trained(kind)!Improves
    BY <1>1, <1>2, <1>3, <2>1, <2>2 DEF SelectionInv, FilesInv, Live
  <2>3. CASE ~Trained(kind)!Improves
    <3>1. training' \notin {"best", "predictions", "over", "failed", "killed"}
      BY <1>2, <2>3 DEF Trained!AfterBest
    <3> QED
      BY <1>1, <1>2, <2>1, <2>3, <3>1 DEF SelectionInv, FilesInv, Live
  <2> QED
    BY <2>2, <2>3
<1> QED
  BY <1>8, <1>9, <1>10, <1>11 DEF SelectionInv

LEMMA FilesWritten ==
    ASSUME NEW kind, Trained(kind)!SelectionAssumption, SelectionInv(kind),
           \/ Trained(kind)!SaveBest \/ Trained(kind)!SavePredictions \/ Trained(kind)!SaveLast
    PROVE  SelectionInv(kind)'
<1>1. /\ epoch' = epoch /\ opinion' = opinion /\ todo' = todo /\ events' = events
      /\ postCache' = postCache /\ key' = key /\ best' = best /\ selected' = selected
      /\ log' = log /\ kept' = kept /\ probed' = probed
  BY Zenon DEF Trained!SaveBest, Trained!SavePredictions, Trained!SaveLast, Trained!memory
<1>2. epoch \in Nat /\ epoch \in 1..Epochs /\ Epochs \in Nat
  BY LinesSay DEF SelectionInv, EpochsInv
<1>3. CASE Trained(kind)!SaveBest
  <2>1. /\ training = "best" /\ bestFile' = epoch /\ predictions' = predictions
        /\ lastFile' = lastFile
        /\ training' = IF kind = "adapted" THEN "predictions" ELSE Trained(kind)!AfterBest
    BY <1>3, Zenon DEF Trained!SaveBest
  <2>2. EpochsInv(kind)'
    BY <1>1, <1>2, <2>1 DEF SelectionInv, EpochsInv, Live, Trained!AfterBest
  <2>3. NetworkInv(kind)'
    BY <1>1, <2>1 DEF SelectionInv, NetworkInv, Trained!AfterBest
  <2>4. BestInv(kind)'
    BY <1>1, <2>1 DEF SelectionInv, BestInv, Compared, Waits, Live, Trained!AfterBest
  <2>5. FilesInv(kind)'
    BY <1>1, <1>2, <2>1 DEF SelectionInv, FilesInv, Live, Trained!AfterBest
  <2> QED
    BY <2>2, <2>3, <2>4, <2>5 DEF SelectionInv
<1>4. CASE Trained(kind)!SavePredictions
  <2>1. /\ training = "predictions" /\ bestFile' = bestFile /\ predictions' = epoch
        /\ lastFile' = lastFile /\ training' = Trained(kind)!AfterBest
    BY <1>4, Zenon DEF Trained!SavePredictions
  <2>2. EpochsInv(kind)'
    BY <1>1, <1>2, <2>1 DEF SelectionInv, EpochsInv, Live, Trained!AfterBest
  <2>3. NetworkInv(kind)'
    BY <1>1, <2>1 DEF SelectionInv, NetworkInv, Trained!AfterBest
  <2>4. BestInv(kind)'
    BY <1>1, <2>1 DEF SelectionInv, BestInv, Compared, Waits, Live, Trained!AfterBest
  <2>5. FilesInv(kind)'
    BY <1>1, <1>2, <2>1 DEF SelectionInv, FilesInv, Live, Trained!AfterBest
  <2> QED
    BY <2>2, <2>3, <2>4, <2>5 DEF SelectionInv
<1>5. CASE Trained(kind)!SaveLast
  <2>1. /\ training = "last" /\ bestFile' = bestFile /\ predictions' = predictions
        /\ \/ kind # "visual" /\ lastFile' = -1 /\ training' = training
           \/ /\ lastFile' = epoch
              /\ training' = IF kind = "visual" THEN "compare"
                             ELSE IF epoch = Epochs THEN "freeze" ELSE "next"
    <3>1. Trained(kind)!Torn = -1
      BY DEF Trained!Torn
    <3> QED
      BY <1>5, <3>1, Zenon DEF Trained!SaveLast
  <2>2. EpochsInv(kind)'
    BY <1>1, <1>2, <2>1 DEF SelectionInv, EpochsInv, Live
  <2>3. NetworkInv(kind)'
    BY <1>1, <2>1 DEF SelectionInv, NetworkInv
  <2>4. BestInv(kind)'
    BY <1>1, <2>1 DEF SelectionInv, BestInv, Compared, Waits, Live
  <2>5. FilesInv(kind)'
    BY <1>1, <2>1 DEF SelectionInv, FilesInv, Live
  <2> QED
    BY <2>2, <2>3, <2>4, <2>5 DEF SelectionInv
<1> QED
  BY <1>3, <1>4, <1>5

LEMMA EpochEnds ==
    ASSUME NEW kind, Trained(kind)!SelectionAssumption, SelectionInv(kind),
           Trained(kind)!NextEpoch \/ Trained(kind)!Freeze
    PROVE  SelectionInv(kind)'
<1>1. /\ opinion' = opinion /\ todo' = todo /\ events' = events
      /\ postCache' = postCache /\ key' = key /\ best' = best /\ selected' = selected
      /\ log' = log /\ probed' = probed /\ bestFile' = bestFile
      /\ predictions' = predictions /\ lastFile' = lastFile
  BY Zenon DEF Trained!NextEpoch, Trained!Freeze, Trained!memory, Trained!disk
<1>2. epoch \in Nat /\ epoch \in 1..Epochs /\ Epochs \in Nat
  BY LinesSay DEF SelectionInv, EpochsInv
<1>3. \/ training = "next" /\ training' = "train" /\ epoch' = epoch + 1 /\ kept' = kept
      \/ /\ training = "freeze" /\ training' = "over" /\ epoch' = epoch
         /\ kept' = IF kind = "visual" THEN epoch ELSE selected
  <2>1. CASE Trained(kind)!NextEpoch
    BY <2>1, Zenon DEF Trained!NextEpoch, Trained!disk
  <2>2. CASE Trained(kind)!Freeze
    <3>1. /\ training = "freeze" /\ training' = "over" /\ epoch' = epoch
      BY <2>2, Zenon DEF Trained!Freeze, Trained!memory
    <3>2. bestFile = selected
      BY <3>1 DEF SelectionInv, FilesInv, Live
    <3>3. kind \in {"first", "adapted", "visual"}
      BY DEF Trained!SelectionAssumption
    <3>4. /\ kind = "first" => kept' = bestFile
          /\ kind = "adapted" => kept' = selected
          /\ kind = "visual" => kept' = epoch
      BY <2>2 DEF Trained!Freeze
    <3> QED
      BY <3>1, <3>2, <3>3, <3>4
  <2> QED
    BY <2>1, <2>2
<1>4. EpochsInv(kind)'
  BY <1>1, <1>2, <1>3 DEF SelectionInv, EpochsInv, Live
<1>5. NetworkInv(kind)'
  BY <1>1, <1>3 DEF SelectionInv, NetworkInv
<1>6. BestInv(kind)'
  BY <1>1, <1>3 DEF SelectionInv, BestInv, Compared, Waits, Live
<1>7. FilesInv(kind)'
  BY <1>1, <1>2, <1>3 DEF SelectionInv, FilesInv, Live
<1> QED
  BY <1>4, <1>5, <1>6, <1>7 DEF SelectionInv

(* What best.pt is of, while the training runs.                              *)
LEMMA BestFileIsBest ==
    ASSUME NEW kind, Trained(kind)!SelectionAssumption, SelectionInv(kind), bestFile # -1
    PROVE  \/ bestFile = 0
           \/ Smallest(kind, log, Len(log), bestFile)
           \/ Len(log) > 1 /\ Smallest(kind, log, Len(log) - 1, bestFile)
<1>1. CASE ~Live
  BY <1>1 DEF SelectionInv, FilesInv
<1>2. CASE Live
  <2>1. bestFile = selected
    BY <1>2 DEF SelectionInv, FilesInv
  <2>2. Len(log) \in Nat /\ Compared(kind) \in {Len(log), Len(log) - 1}
    BY LinesSay DEF SelectionInv, Compared
  <2>3. CASE Compared(kind) = 0
    BY <1>2, <2>1, <2>3 DEF SelectionInv, BestInv
  <2>4. CASE Compared(kind) # 0
    <3>1. Smallest(kind, log, Compared(kind), bestFile)
      BY <1>2, <2>1, <2>4 DEF SelectionInv, BestInv
    <3>2. Len(log) - 1 = Compared(kind) => Len(log) > 1
      BY <2>2, <2>4, <3>1 DEF Smallest
    <3> QED
      BY <2>2, <3>1, <3>2
  <2> QED
    BY <2>3, <2>4
<1> QED
  BY <1>1, <1>2

(* The run is killed, or fails: the files stay as they are.                  *)
LEMMA TrainingCut ==
    ASSUME NEW kind, Trained(kind)!SelectionAssumption, SelectionInv(kind),
           training' \in {"failed", "killed"}, training # "over",
           UNCHANGED <<epoch, opinion, todo, events, postCache, key, best, selected, log,
                       bestFile, predictions, lastFile, probed, kept>>
    PROVE  SelectionInv(kind)'
<1>1. ~Live'
  BY DEF Live
<1>2. EpochsInv(kind)'
  BY <1>1 DEF SelectionInv, EpochsInv
<1>3. NetworkInv(kind)'
  BY DEF SelectionInv, NetworkInv
<1>4. BestInv(kind)'
  BY <1>1 DEF BestInv
<1>5. FilesInv(kind)'
  BY <1>1, BestFileIsBest DEF SelectionInv, FilesInv
<1> QED
  BY <1>2, <1>3, <1>4, <1>5 DEF SelectionInv

LEMMA SelectionKept ==
    ASSUME NEW kind, Trained(kind)!SelectionAssumption, SelectionInv(kind),
           [Trained(kind)!Next]_(Trained(kind)!vars)
    PROVE  SelectionInv(kind)'
<1>1. CASE Trained(kind)!LossFails \/ Trained(kind)!Kill
  <2>1. /\ training' \in {"failed", "killed"} /\ training # "over"
        /\ UNCHANGED <<epoch, opinion, todo, events, postCache, key, best, selected, log,
                       bestFile, predictions, lastFile, probed, kept>>
    BY <1>1 DEF Trained!LossFails, Trained!Kill, Trained!Over, Trained!memory, Trained!disk
  <2> QED
    BY <2>1, TrainingCut
<1>2. ASSUME NEW e \in Validation, Trained(kind)!Probe(e), training' # training
      PROVE  SelectionInv(kind)'
  <2>1. /\ training' = "failed" /\ training # "over"
        /\ UNCHANGED <<epoch, opinion, todo, events, postCache, key, best, selected, log,
                       bestFile, predictions, lastFile, probed, kept>>
    BY <1>2 DEF Trained!Probe
  <2> QED
    BY <2>1, TrainingCut
<1>3. CASE UNCHANGED Trained(kind)!vars
  <2>1. /\ training' = training
        /\ UNCHANGED <<epoch, opinion, todo, events, postCache, key, best, selected, log,
                       bestFile, predictions, lastFile, probed, kept>>
    BY <1>3 DEF Trained!vars, Trained!memory, Trained!disk
  <2> QED
    BY <2>1 DEF SelectionInv, EpochsInv, NetworkInv, BestInv, FilesInv, Compared, Waits, Live
<1> QED
  BY <1>1, <1>2, <1>3, EpochBegins, StopProbed, EpisodeScored, ScoreRecorded, BestCompared,
     FilesWritten, EpochEnds DEF Trained!Next

-----------------------------------------------------------------------------
(* What the invariant says of a training *)

SelectionHolds(kind) ==
    /\ Trained(kind)!TypeOK /\ Trained(kind)!FrozenIsTheBest /\ Trained(kind)!BestFollowsTheLog
    /\ Trained(kind)!StopsAreTheirOwn /\ Trained(kind)!FrozenPassIsSafe

(* The frozen epoch is the first of the best of all.                         *)
LEMMA FrozenIsSmallest ==
    ASSUME NEW kind, Trained(kind)!SelectionAssumption, SelectionInv(kind), kept # 0,
           kind # "visual"
    PROVE  /\ Len(log) = Epochs /\ kept \in 1..Epochs /\ Smallest(kind, log, Epochs, kept)
           /\ bestFile = kept /\ (kind = "adapted" => predictions = kept)
<1>1. training = "over" /\ kept = selected
  BY DEF SelectionInv, FilesInv
<1>2. Live /\ epoch = Epochs /\ Len(log) = Epochs /\ Epochs \in Nat \ {0}
  BY <1>1 DEF SelectionInv, EpochsInv, Live, Trained!SelectionAssumption
<1>3. Compared(kind) = Epochs
  BY <1>1, <1>2 DEF Compared, Waits
<1>4. Smallest(kind, log, Epochs, kept)
  BY <1>1, <1>2, <1>3 DEF SelectionInv, BestInv
<1>5. bestFile = kept /\ (kind = "adapted" => predictions = kept)
  BY <1>1, <1>2 DEF SelectionInv, FilesInv
<1> QED
  BY <1>2, <1>4, <1>5 DEF Smallest

LEMMA SelectionTypes ==
    ASSUME NEW kind, Trained(kind)!SelectionAssumption, SelectionInv(kind)
    PROVE  Trained(kind)!TypeOK
<1>1. /\ epoch \in 1..Epochs /\ Len(log) \in {epoch - 1, epoch}
      /\ lastFile \in {-1} \cup 0..epoch
  BY DEF SelectionInv, EpochsInv
<1>2. epoch \in Nat
  BY LinesSay DEF SelectionInv
<1>3. /\ {bestFile, predictions, lastFile} \subseteq {-1} \cup 0..epoch
      /\ kept \in 0..epoch /\ selected \in 0..epoch
  BY <1>1, <1>2 DEF SelectionInv, FilesInv
<1>4. DOMAIN probed = DOMAIN postCache
  BY DEF SelectionInv, NetworkInv
<1>5. ASSUME NEW e \in DOMAIN events PROVE events[e].delay \in {-1} \cup Nat
  <2>1. e \in Validation /\ events[e] \in MetricsOf(kind, e)
    BY EvaluationsSay DEF SelectionInv, NetworkInv, AllScored
  <2>2. events[e].delay = IF CompleteAt(e) # {} /\ events[e].claim \in CompleteAt(e)
                          THEN events[e].claim - Trained(kind)!FirstTruth(e) ELSE None
    BY <2>1, MetricsSay
  <2>3. CompleteAt(e) \subseteq Nat
    BY <2>1 DEF CompleteAt, Trained!SelectionAssumption
  <2>4. CompleteAt(e) # {} =>
          /\ Trained(kind)!FirstTruth(e) \in Nat
          /\ \A c \in CompleteAt(e) : Trained(kind)!FirstTruth(e) <= c
    BY <2>1, FirstTruthIsLeast
  <2> QED
    BY <2>2, <2>3, <2>4 DEF None
<1> QED
  BY <1>1, <1>3, <1>4, <1>5 DEF Trained!TypeOK, Trained!Torn, Trained!None

LEMMA SelectionSays ==
    ASSUME NEW kind, Trained(kind)!SelectionAssumption, SelectionInv(kind)
    PROVE  SelectionHolds(kind)
<1>1. /\ Len(log) \in Nat /\ DOMAIN log = 1..Len(log)
      /\ \A i \in 1..Len(log) : log[i] \in Lines(kind)
  BY LinesSay DEF SelectionInv
<1>2. Epochs \in Nat \ {0}
  BY DEF Trained!SelectionAssumption
<1>3. ASSUME kind = "adapted", NEW i \in 1..Len(log)
      PROVE  /\ DOMAIN log[i].events = Validation /\ AllScored(kind, log[i].events)
             /\ \E aux \in Auxiliaries :
                  /\ log[i].key \in Lexicographic(8)
                  /\ log[i].key[1] = IF Trained(kind)!Passed(log[i].events, aux) THEN 0 ELSE 1
  <2>1. log[i] \in Lines(kind)
    BY <1>1
  <2>2. PICK aux \in Auxiliaries : log[i].key = Trained(kind)!SelectionKey(log[i].events, aux)
    BY <1>3, <2>1 DEF Lines
  <2>3. DOMAIN log[i].events = Validation /\ log[i].events \in Evaluations(kind)
    BY <1>3, <2>1 DEF Lines
  <2>4. AllScored(kind, log[i].events)
    BY <2>3, EvaluationsSay
  <2> QED
    BY <2>2, <2>3, <2>4, KeyIsOfNumbers
<1>4. Trained(kind)!FrozenIsTheBest
  <2> SUFFICES ASSUME kept # 0, kind # "visual"
               PROVE  /\ Len(log) = Epochs
                      /\ kept = Trained(kind)!FirstBest(Epochs) /\ bestFile = kept
                      /\ kind = "adapted" => predictions = kept
                      /\ kind = "adapted" /\ (\E i \in DOMAIN log : log[i].key[1] = 0)
                           => log[kept].key[1] = 0
    BY DEF Trained!FrozenIsTheBest
  <2>1. /\ Len(log) = Epochs /\ kept \in 1..Epochs /\ Smallest(kind, log, Epochs, kept)
        /\ bestFile = kept /\ (kind = "adapted" => predictions = kept)
    BY FrozenIsSmallest
  <2>2. kept = Trained(kind)!FirstBest(Epochs)
    BY <1>2, <2>1, SmallestIsFirstBest
  <2>3. ASSUME kind = "adapted", NEW i \in 1..Len(log), log[i].key[1] = 0
        PROVE  log[kept].key[1] = 0
    <3>1. /\ log[i].key \in Lexicographic(8) /\ log[kept].key \in Lexicographic(8)
          /\ log[kept].key[1] = 0 \/ log[kept].key[1] = 1
      BY <1>3, <2>1, <2>3
    <3>2. ~Trained(kind)!Less(log[i].key, log[kept].key)
      BY <2>1 DEF Smallest
    <3>3. \A j \in 1..(1 - 1) : log[i].key[j] = log[kept].key[j]
      OBVIOUS
    <3>4. ASSUME log[kept].key[1] = 1 PROVE FALSE
      <4> DEFINE a == log[i].key
                 b == log[kept].key
      <4>1. a[1] < b[1] /\ 1 \in 1..8 /\ 8 \in Nat
        BY <2>3, <3>4
      <4>2. a \in Lexicographic(8) /\ b \in Lexicographic(8)
        BY <3>1
      <4>3. \A j \in 1..(1 - 1) : a[j] = b[j]
        BY <3>3
      <4> HIDE DEF a, b
      <4>4. Trained(kind)!Less(a, b)
        BY <4>1, <4>2, <4>3, LessThan
      <4> QED
        BY <3>2, <4>4, Zenon DEF a, b
    <3> QED
      BY <3>1, <3>4
  <2> QED
    BY <1>1, <2>1, <2>2, <2>3
<1>5. Trained(kind)!BestFollowsTheLog
  <2> SUFFICES ASSUME bestFile > 0
               PROVE  \/ bestFile = Trained(kind)!FirstBest(Len(log))
                      \/ Len(log) > 1 /\ bestFile = Trained(kind)!FirstBest(Len(log) - 1)
    BY DEF Trained!BestFollowsTheLog
  <2>1. \/ Smallest(kind, log, Len(log), bestFile)
        \/ Len(log) > 1 /\ Smallest(kind, log, Len(log) - 1, bestFile)
    BY BestFileIsBest
  <2>2. Len(log) > 1 => Len(log) - 1 \in Nat
    BY <1>1
  <2> QED
    BY <1>1, <2>1, <2>2, SmallestIsFirstBest
<1>6. Trained(kind)!StopsAreTheirOwn
  <2>1. ASSUME NEW i \in DOMAIN log, NEW e \in DOMAIN log[i].events
        PROVE  log[i].events[e].post =
                 IF log[i].events[e].claim = Trained(kind)!None THEN "none"
                 ELSE IF Lasting[<<e, log[i].events[e].claim>>] THEN "stable" ELSE "unstable"
    <3>1. log[i].events \in Evaluations(kind)
      BY <1>1 DEF Lines
    <3>2. e \in Validation /\ log[i].events[e] \in MetricsOf(kind, e)
      BY <3>1, EvaluationsSay DEF AllScored
    <3>3. log[i].events[e].post = PostOf(e, log[i].events[e].claim)
      BY <3>2, MetricsSay
    <3> QED
      BY <3>3, SameOperators, Zenon DEF PostOf
  <2>2. \A at \in DOMAIN probed : probed[at] = 1
    BY DEF SelectionInv, NetworkInv
  <2> QED
    BY <2>1, <2>2, Zenon DEF Trained!StopsAreTheirOwn
<1>7. Trained(kind)!FrozenPassIsSafe
  <2> SUFFICES ASSUME kept # 0, kind = "adapted", log[kept].key[1] = 0, NEW e \in Validation
               PROVE  IF Trained(kind)!FirstTruth(e) = None THEN log[kept].events[e].claim = None
                      ELSE LET ready == Trained(kind)!FirstTruth(e) IN
                           /\ log[kept].events[e].claim \in ready..(ready + MaxDelay)
                           /\ Complete[e][log[kept].events[e].claim]
                           /\ Lasting[<<e, log[kept].events[e].claim>>]
    BY SameOperators, Zenon DEF Trained!FrozenPassIsSafe
  <2>1. kept \in 1..Len(log)
    BY FrozenIsSmallest
  <2>2. /\ DOMAIN log[kept].events = Validation /\ AllScored(kind, log[kept].events)
        /\ \E aux \in Auxiliaries : Trained(kind)!Passed(log[kept].events, aux)
    BY <1>3, <2>1
  <2> QED
    BY <2>2, GateMet
<1> QED
  BY <1>4, <1>5, <1>6, <1>7, SelectionTypes, Zenon DEF SelectionHolds

(* Whatever a training's networks decide, and wherever it is killed: it      *)
(* freezes the first of its best epochs, with that epoch's checkpoint and    *)
(* predictions; best.pt, when it is whole, is the best of all lines, or of   *)
(* all but the last; no stop is simulated twice, or scored by another's; and *)
(* a network frozen with its gate met stops every episode in time and none   *)
(* too early.                                                                *)
THEOREM FrozenEpochIsBest ==
    ASSUME NEW kind, Trained(kind)!SelectionAssumption
    PROVE  Trained(kind)!Spec => []SelectionHolds(kind)
<1>1. Trained(kind)!Init => SelectionInv(kind)
  BY SelectionStarts
<1>2. SelectionInv(kind) /\ [Trained(kind)!Next]_(Trained(kind)!vars) => SelectionInv(kind)'
  BY SelectionKept
<1>3. SelectionInv(kind) => SelectionHolds(kind)
  BY SelectionSays
<1> QED
  BY <1>1, <1>2, <1>3, PTL DEF Trained!Spec

-----------------------------------------------------------------------------
(* The native baseline *)

Ran == Baseline!Runs
Worlds == Baseline!Episodes
InLoop == Baseline!InEpisode \cup {"erring", "writing"}
Handling == {"failing", "closing", "finishing", "ended"}
Rolling == InLoop \cup {"next", "returned", "completed"}
BaselinePlaces == {"assets", "egl", "loading", "loaded"} \cup Rolling \cup Handling
Records == [id : 0..Development, status : {"absent", "NOT_RUN", "COMPLETED", "ERROR"},
            success : {"None", "True", "False"}, steps : 0..Cap, render : BOOLEAN]
BaselineReceipts == [phase : {"absent", "smoke", "development"},
             readiness : Baseline!Statuses, model : Baseline!Statuses,
             rollout : Baseline!Statuses, render : BOOLEAN, episodes : Seq(Records),
             successes : Int]

Histories == [steps : 0..Cap, success : BOOLEAN, over : BOOLEAN]

BaselineShape ==
    /\ attempt \in 0..MaxRuns /\ batch \in {"smoke", "development"}
    /\ spot \in BaselinePlaces /\ struck \in BaselinePlaces \cup {"nowhere", "killed"}
    /\ doing \in {"readiness", "model", "rollout"}
BaselineReceiptShape == draft \in BaselineReceipts /\ onDisk \in [Ran -> BaselineReceipts]
LoopShape ==
    record \in Records /\ actions \in 0..Chunk /\ raising \in BOOLEAN /\ journal \in 0..Cap
WorldShape ==
    /\ episodeFile \in [Ran -> [Worlds -> Records]]
    /\ worlds \in [Ran -> [Worlds -> Histories]]

(* What an episode's receipt says of its world. *)
Ended(world) == world.success \/ world.over \/ world.steps = Cap
Honest(told, world) ==
    /\ told.status = "COMPLETED" =>
         /\ told.steps = world.steps /\ world.steps > 0
         /\ told.success = IF world.success THEN "True" ELSE "False"
         /\ Ended(world)
    /\ told.status \in {"ERROR", "NOT_RUN"} =>
         told.success = "None" /\ world.steps - told.steps \in {0, 1}

Listed == Len(draft.episodes)
Moved == worlds[attempt][record.id]

(* The runs to come have left nothing, and neither have the episodes to come *)
(* of this one.                                                              *)
FutureInv ==
    /\ attempt = 0 => spot = "ended"
    /\ \A r \in Ran : r > attempt =>
         /\ onDisk[r] = Baseline!NoReceipt
         /\ \A e \in Worlds : episodeFile[r][e] = Baseline!NoRecord
                              /\ worlds[r][e] = Baseline!Untouched
    /\ attempt > 0 => \A e \in Worlds :
         /\ episodeFile[attempt][e] # Baseline!NoRecord =>
              /\ e <= Listed + 1 /\ e <= Baseline!Batch(batch)
              /\ e > Listed => spot \in {"returned"} \cup Handling
         /\ e > Listed + 1 \/ e > Baseline!Batch(batch)
              \/ (e > Listed /\ spot \in {"assets", "egl", "loading", "loaded", "next",
                                          "completed"}) =>
              worlds[attempt][e] = Baseline!Untouched

(* How far the stages are, by the place in main. *)
StageInv ==
    /\ doing # "rollout" => Listed = 0
    /\ draft.rollout = "COMPLETED" => doing = "rollout"
    /\ spot \in {"assets", "egl"} => doing = "readiness"
    /\ spot \in {"loading", "loaded"} => doing = "model"
    /\ spot \in Rolling => doing = "rollout"
    /\ spot \in Rolling \cup {"loaded"} => draft.model = "PASS"

(* How far the episode under way is: what it counted, what it told and what  *)
(* its world did.                                                            *)
EpisodeInv ==
    /\ spot \in InLoop \cup {"returned"} =>
         record.id = Listed + 1 /\ record.id <= Baseline!Batch(batch)
    /\ spot = "returned" =>
         episodeFile[attempt][record.id] = record /\ record.status = "COMPLETED"
    /\ spot \in InLoop =>
         /\ episodeFile[attempt][record.id] = Baseline!NoRecord
         /\ Moved.steps - journal \in {0, 1} /\ record.steps - journal \in {0, 1}
         /\ Moved.steps - record.steps \in {0, 1}
         /\ record.status # "absent" /\ Honest(record, Moved)
    /\ spot \in {"resetting", "control", "stepped", "counted", "told"} =>
         record.status = "NOT_RUN"
    /\ spot \in {"resetting", "control"} =>
         /\ Moved.steps = journal /\ record.steps = journal /\ journal < Cap
         /\ ~Moved.success /\ ~Moved.over
    /\ spot = "stepped" => Moved.steps = journal + 1 /\ record.steps = journal
    /\ spot = "counted" => Moved.steps = journal + 1 /\ record.steps = journal + 1
    /\ spot \in {"told", "concluded"} =>
         Moved.steps = journal /\ record.steps = journal /\ journal > 0
    /\ spot = "concluded" => record.status = "COMPLETED"
    /\ spot \in Baseline!InEpisode \cup {"erring"} => ~raising
    /\ spot = "writing" /\ ~raising => record.status = "COMPLETED"

(* The receipts of the episodes are honest, and the lists are made of them.  *)
EpisodeFilesInv ==
    \A r \in Ran, e \in Worlds :
       /\ Honest(episodeFile[r][e], worlds[r][e])
       /\ episodeFile[r][e] = Baseline!NoRecord \/ episodeFile[r][e].id = e
IsOf(list, r) == \A i \in DOMAIN list : list[i].id = i /\ list[i] = episodeFile[r][i]
ListsInv ==
    /\ \A r \in Ran : IsOf(onDisk[r].episodes, r)
    /\ attempt > 0 => IsOf(draft.episodes, attempt)
    /\ Listed <= Baseline!Batch(batch)
    /\ spot \notin {"closing", "finishing", "ended"} =>
         \A i \in DOMAIN draft.episodes : draft.episodes[i].status = "COMPLETED"

(* A receipt that says COMPLETED lists every episode with its verdict.       *)
Whole(r) ==
    /\ r.model = "PASS" /\ Len(r.episodes) = Baseline!Batch(batch)
    /\ \A i \in DOMAIN r.episodes : r.episodes[i].status = "COMPLETED"
    /\ r.successes = Cardinality({e \in Worlds : worlds[attempt][e].success})
CompletionInv ==
    /\ draft.rollout = "COMPLETED" =>
         Whole(draft) /\ spot \in {"completed"} \cup Handling
    /\ attempt > 0 /\ onDisk[attempt].rollout = "COMPLETED" =>
         Whole(onDisk[attempt]) /\ spot = "ended"

(* The list on disk is the one in memory until the error is handled, and at  *)
(* most one episode that was played is beyond it.  Unless a signal hit the   *)
(* handling itself, an episode beyond the list in memory has its receipt     *)
(* when the error comes to be handled, and then there is none beyond it.     *)
NoneBeyond(n) == \A e \in Worlds : Baseline!Played(e) => e <= n
RescueInv ==
    attempt > 0 =>
      /\ doing # "rollout" => NoneBeyond(0)
      /\ NoneBeyond(Len(onDisk[attempt].episodes) + 1)
      /\ spot \notin {"closing", "finishing", "ended"} =>
           onDisk[attempt].episodes = draft.episodes
      /\ spot = "failing" /\ struck # "writing" =>
           \A e \in Worlds : Baseline!Played(e) /\ e > Listed =>
                             episodeFile[attempt][e] # Baseline!NoRecord
      /\ spot \in {"closing", "finishing"} /\ struck \notin {"writing", "failing"} =>
           NoneBeyond(Listed)
      /\ spot = "ended" /\ struck \notin Baseline!Losing =>
           NoneBeyond(Len(onDisk[attempt].episodes))

BaselineInv ==
    /\ BaselineShape /\ BaselineReceiptShape /\ LoopShape /\ WorldShape
    /\ FutureInv /\ StageInv /\ EpisodeInv /\ EpisodeFilesInv /\ ListsInv
    /\ CompletionInv /\ RescueInv /\ Baseline!SmokeCameFirst

-----------------------------------------------------------------------------
(* Which steps move what. *)
LEMMA WhoMovesWorlds ==
    Baseline!Next => \/ UNCHANGED <<episodeFile, worlds>>
                     \/ Baseline!Step \/ Baseline!WriteEpisode
BY Zenon DEF Baseline!Next, Baseline!Launch, Baseline!VerifyAssets, Baseline!VerifyEgl,
   Baseline!Load, Baseline!Roll, Baseline!NextEpisode, Baseline!AppendEpisode,
   Baseline!Complete, Baseline!Leave, Baseline!HandleError, Baseline!CloseBackend,
   Baseline!WriteFinal, Baseline!Reset, Baseline!Infer, Baseline!Count, Baseline!TellReturned,
   Baseline!GoOn, Baseline!Conclude, Baseline!ToFinally, Baseline!CondemnEpisode,
   Baseline!Raise, Baseline!Interrupt, Baseline!Kill

LEMMA WhoWritesReceipts ==
    Baseline!Next => \/ UNCHANGED <<draft, onDisk>>
                     \/ Baseline!Launch \/ Baseline!VerifyAssets \/ Baseline!VerifyEgl
                     \/ Baseline!Load \/ Baseline!Roll \/ Baseline!AppendEpisode
                     \/ Baseline!Complete \/ Baseline!HandleError \/ Baseline!WriteFinal
BY Zenon DEF Baseline!Next, Baseline!NextEpisode, Baseline!Leave, Baseline!CloseBackend,
   Baseline!Reset, Baseline!Infer, Baseline!Step, Baseline!Count, Baseline!TellReturned,
   Baseline!GoOn, Baseline!Conclude, Baseline!ToFinally, Baseline!CondemnEpisode,
   Baseline!WriteEpisode, Baseline!Raise, Baseline!Interrupt, Baseline!Kill, Baseline!main

LEMMA WhoLoops ==
    Baseline!Next => \/ UNCHANGED <<record, actions, raising, journal>>
                     \/ Baseline!NextEpisode \/ Baseline!Reset \/ Baseline!Infer
                     \/ Baseline!Step \/ Baseline!Count \/ Baseline!TellReturned
                     \/ Baseline!Conclude \/ Baseline!CondemnEpisode \/ Baseline!Interrupt
BY Zenon DEF Baseline!Next, Baseline!Launch, Baseline!VerifyAssets, Baseline!VerifyEgl,
   Baseline!Load, Baseline!Roll, Baseline!AppendEpisode, Baseline!Complete, Baseline!Leave,
   Baseline!HandleError, Baseline!CloseBackend, Baseline!WriteFinal, Baseline!GoOn,
   Baseline!ToFinally, Baseline!WriteEpisode, Baseline!Raise, Baseline!Kill, Baseline!episode

LEMMA WhoLaunches ==
    Baseline!Next => UNCHANGED <<attempt, batch>> \/ Baseline!Launch
BY Zenon DEF Baseline!Next, Baseline!VerifyAssets, Baseline!VerifyEgl, Baseline!Load,
   Baseline!Roll, Baseline!NextEpisode, Baseline!AppendEpisode, Baseline!Complete,
   Baseline!Leave, Baseline!HandleError, Baseline!CloseBackend, Baseline!WriteFinal,
   Baseline!Reset, Baseline!Infer, Baseline!Step, Baseline!Count, Baseline!TellReturned,
   Baseline!GoOn, Baseline!Conclude, Baseline!ToFinally, Baseline!CondemnEpisode,
   Baseline!WriteEpisode, Baseline!Raise, Baseline!Interrupt, Baseline!Kill, Baseline!main

LEMMA WhoStrikes ==
    Baseline!Next => \/ struck' = struck
                     \/ Baseline!Launch /\ struck' = "nowhere"
                     \/ Baseline!Interrupt /\ struck = "nowhere" /\ struck' = spot
                     \/ Baseline!Kill /\ struck' = "killed" /\ spot' = "ended"
BY Zenon DEF Baseline!Next, Baseline!Launch, Baseline!VerifyAssets, Baseline!VerifyEgl,
   Baseline!Load, Baseline!Roll, Baseline!NextEpisode, Baseline!AppendEpisode,
   Baseline!Complete, Baseline!Leave, Baseline!HandleError, Baseline!CloseBackend,
   Baseline!WriteFinal, Baseline!Reset, Baseline!Infer, Baseline!Step, Baseline!Count,
   Baseline!TellReturned, Baseline!GoOn, Baseline!Conclude, Baseline!ToFinally,
   Baseline!CondemnEpisode, Baseline!WriteEpisode, Baseline!Raise, Baseline!Interrupt,
   Baseline!Kill

(* What the place says of the run and of the episode under way. *)
LEMMA InRun ==
    ASSUME Baseline!NativeRunAssumption, BaselineInv
    PROVE  /\ Baseline!Batch(batch) \in 1..Development /\ Development \in Nat
           /\ Listed \in Nat /\ Listed <= Baseline!Batch(batch)
           /\ draft.episodes \in Seq(Records)
           /\ spot # "ended" => attempt \in Ran /\ attempt > 0
           /\ spot \in InLoop \cup {"returned"} => record.id \in Worlds
<1>1. Baseline!Batch(batch) \in 1..Development /\ Development \in Nat
  BY DEF Baseline!NativeRunAssumption, BaselineInv, BaselineShape, Baseline!Batch
<1>2. Listed \in Nat /\ Listed <= Baseline!Batch(batch) /\ draft.episodes \in Seq(Records)
  BY DEF BaselineInv, BaselineReceiptShape, BaselineReceipts, Listed, ListsInv
<1>3. spot # "ended" => attempt \in Ran /\ attempt > 0
  BY DEF BaselineInv, BaselineShape, FutureInv, Ran, Baseline!Runs,
     Baseline!NativeRunAssumption
<1>4. spot \in InLoop \cup {"returned"} => record.id \in Worlds
  BY <1>1, <1>2 DEF BaselineInv, LoopShape, Records, EpisodeInv, Worlds, Baseline!Episodes
<1> QED
  BY <1>1, <1>2, <1>3, <1>4

(* What has left a receipt is listed or comes next.                          *)
LEMMA InTheList ==
    ASSUME Baseline!NativeRunAssumption, BaselineInv, attempt > 0
    PROVE  /\ \A e \in Worlds : episodeFile[attempt][e] # Baseline!NoRecord =>
                e \in 1..Baseline!Batch(batch) /\ e <= Listed + 1
           /\ DOMAIN draft.episodes = 1..Listed
           /\ \A i \in 1..Listed :
                draft.episodes[i].id = i /\ draft.episodes[i] = episodeFile[attempt][i]
<1>1. \A e \in Worlds : episodeFile[attempt][e] # Baseline!NoRecord =>
          e <= Baseline!Batch(batch) /\ e <= Listed + 1
  BY DEF BaselineInv, FutureInv
<1>2. \A e \in Worlds : e \in Nat \ {0}
  BY InRun DEF Worlds, Baseline!Episodes
<1>3. DOMAIN draft.episodes = 1..Listed
  BY InRun DEF Listed
<1>4. \A i \in DOMAIN draft.episodes :
          draft.episodes[i].id = i /\ draft.episodes[i] = episodeFile[attempt][i]
  BY DEF BaselineInv, ListsInv, IsOf
<1> QED
  BY <1>1, <1>2, <1>3, <1>4, InRun

LEMMA WrittenSays ==
    ASSUME BaselineReceiptShape, attempt \in Ran, NEW r \in BaselineReceipts, Baseline!Written(r)
    PROVE  /\ onDisk' \in [Ran -> BaselineReceipts] /\ onDisk'[attempt] = r
           /\ \A s \in Ran : s # attempt => onDisk'[s] = onDisk[s]
BY DEF BaselineReceiptShape, Baseline!Written

LEMMA BaselineShapeKept ==
    ASSUME Baseline!NativeRunAssumption, BaselineInv, Baseline!Next
    PROVE  BaselineShape'
<1>1. spot' \in BaselinePlaces
  BY DEF BaselineInv, BaselineShape, BaselinePlaces, Rolling, InLoop, Handling, Baseline!InEpisode, 
   Baseline!InMain, Baseline!Next, Baseline!Launch, Baseline!VerifyAssets, Baseline!VerifyEgl,
   Baseline!Load, Baseline!Roll, Baseline!NextEpisode, Baseline!AppendEpisode,
   Baseline!Complete, Baseline!Leave, Baseline!HandleError, Baseline!CloseBackend,
   Baseline!WriteFinal, Baseline!Reset, Baseline!Infer, Baseline!Step, Baseline!Count,
   Baseline!TellReturned, Baseline!GoOn, Baseline!Conclude, Baseline!ToFinally,
   Baseline!CondemnEpisode, Baseline!WriteEpisode, Baseline!Raise, Baseline!Interrupt,
   Baseline!Kill
<1>2. attempt' \in 0..MaxRuns /\ batch' \in {"smoke", "development"}
  BY WhoLaunches DEF BaselineInv, BaselineShape, Baseline!Launch, Baseline!NativeRunAssumption
<1>3. struck' \in BaselinePlaces \cup {"nowhere", "killed"}
  <2>1. struck' \in {struck, spot, "nowhere", "killed"}
    BY WhoStrikes
  <2> QED
    BY <2>1 DEF BaselineInv, BaselineShape
<1>4. doing' \in {"readiness", "model", "rollout"}
  BY Zenon DEF BaselineInv, BaselineShape, Baseline!main, Baseline!Next, Baseline!Launch,
   Baseline!VerifyAssets, Baseline!VerifyEgl,
   Baseline!Load, Baseline!Roll, Baseline!NextEpisode, Baseline!AppendEpisode,
   Baseline!Complete, Baseline!Leave, Baseline!HandleError, Baseline!CloseBackend,
   Baseline!WriteFinal, Baseline!Reset, Baseline!Infer, Baseline!Step, Baseline!Count,
   Baseline!TellReturned, Baseline!GoOn, Baseline!Conclude, Baseline!ToFinally,
   Baseline!CondemnEpisode, Baseline!WriteEpisode, Baseline!Raise, Baseline!Interrupt,
   Baseline!Kill
<1> QED
  BY <1>1, <1>2, <1>3, <1>4 DEF BaselineShape

(* The error and what is rescued. *)
LEMMA HandledSays ==
    ASSUME Baseline!NativeRunAssumption, BaselineInv, Baseline!HandleError
    PROVE  /\ draft' \in BaselineReceipts /\ draft'[doing] = "ERROR"
           /\ \A stage \in {"readiness", "model", "rollout"} \ {doing} :
                draft'[stage] = draft[stage]
           /\ draft'.successes = draft.successes
           /\ doing # "rollout" => draft'.episodes = draft.episodes
           /\ \/ draft'.episodes = draft.episodes
              \/ /\ Listed < Baseline!Batch(batch)
                 /\ episodeFile[attempt][Listed + 1] # Baseline!NoRecord
                 /\ draft'.episodes = Append(draft.episodes, episodeFile[attempt][Listed + 1])
           /\ doing = "rollout" =>
                \A e \in Worlds : episodeFile[attempt][e] # Baseline!NoRecord =>
                                    e <= Len(draft'.episodes)
<1> DEFINE failed == [draft EXCEPT ![doing] = "ERROR"]
<1>1. /\ failed \in BaselineReceipts /\ failed[doing] = "ERROR"
      /\ \A stage \in {"readiness", "model", "rollout"} \ {doing} : failed[stage] = draft[stage]
      /\ failed.successes = draft.successes /\ failed.episodes = draft.episodes
      /\ failed.render = draft.render
  BY DEF BaselineInv, BaselineShape, BaselineReceiptShape, BaselineReceipts, Baseline!Statuses
<1>0. attempt > 0
  BY InRun DEF Baseline!HandleError
<1>2. \A e \in Baseline!Rescued : e = Listed + 1 /\ e \in Worlds
  <2> SUFFICES ASSUME NEW e \in Baseline!Rescued PROVE e = Listed + 1 /\ e \in Worlds
    OBVIOUS
  <2>1. /\ e \in 1..Baseline!Batch(batch) /\ episodeFile[attempt][e] # Baseline!NoRecord
        /\ \A i \in DOMAIN draft.episodes : draft.episodes[i].id # e
    BY DEF Baseline!Rescued
  <2>2. e \in Worlds
    BY <2>1, InRun DEF Worlds, Baseline!Episodes
  <2>3. e <= Listed + 1
    BY <1>0, <2>1, <2>2, InTheList
  <2>4. ~(e <= Listed)
    BY <1>0, <2>1, InTheList, InRun
  <2> QED
    BY <2>1, <2>2, <2>3, <2>4, InRun
<1>3. CASE doing = "rollout" /\ Baseline!Rescued # {}
  <2> DEFINE e == Listed + 1
  <2>1. e \in Baseline!Rescued /\ (CHOOSE x \in Baseline!Rescued : TRUE) = e
    BY <1>2, <1>3
  <2>2. /\ e \in 1..Baseline!Batch(batch) /\ e \in Worlds
        /\ episodeFile[attempt][e] # Baseline!NoRecord
    BY <2>1, <1>2 DEF Baseline!Rescued
  <2>3. draft' = [failed EXCEPT !.episodes = Append(@, episodeFile[attempt][e]),
                                !.render = @ \/ episodeFile[attempt][e].render]
    BY <1>3, <2>1, Zenon DEF Baseline!HandleError
  <2>4. episodeFile[attempt][e] \in Records
    BY <2>2, InRun DEF BaselineInv, WorldShape, Baseline!HandleError
  <2>5. Append(draft.episodes, episodeFile[attempt][e]) \in Seq(Records)
    BY <2>4 DEF BaselineInv, BaselineReceiptShape, BaselineReceipts, Listed
  <2>6. episodeFile[attempt][e].render \in BOOLEAN /\ draft.render \in BOOLEAN
    BY <2>4 DEF BaselineInv, BaselineReceiptShape, BaselineReceipts, Records
  <2> HIDE DEF failed
  <2>7. /\ draft' \in BaselineReceipts
        /\ draft'.episodes = Append(draft.episodes, episodeFile[attempt][e])
    BY <1>1, <2>3, <2>5, <2>6 DEF BaselineReceipts
  <2>8. \A f \in {"readiness", "model", "rollout", "successes"} : draft'[f] = failed[f]
    BY <1>1, <2>3 DEF BaselineReceipts
  <2>9. \A x \in Worlds : episodeFile[attempt][x] # Baseline!NoRecord =>
                            x <= Len(draft'.episodes)
    BY <1>0, <2>4, <2>7, InTheList, InRun DEF Listed
  <2> QED
    BY <1>1, <1>3, <2>2, <2>7, <2>8, <2>9, InRun
<1>4. CASE ~(doing = "rollout" /\ Baseline!Rescued # {})
  <2>1. draft' = failed
    BY <1>4, Zenon DEF Baseline!HandleError
  <2>2. doing = "rollout" => \A e \in Worlds : episodeFile[attempt][e] # Baseline!NoRecord =>
                                e <= Listed
    <3> SUFFICES ASSUME doing = "rollout", NEW e \in Worlds,
                        episodeFile[attempt][e] # Baseline!NoRecord, ~(e <= Listed)
                 PROVE  FALSE
      OBVIOUS
    <3>1. e \in 1..Baseline!Batch(batch)
      BY <1>0, InTheList
    <3>2. PICK i \in DOMAIN draft.episodes : draft.episodes[i].id = e
      BY <1>4, <3>1 DEF Baseline!Rescued
    <3> QED
      BY <1>0, <3>2, InTheList, InRun
  <2> HIDE DEF failed
  <2> QED
    BY <1>1, <2>1, <2>2 DEF Listed
<1> QED
  BY <1>3, <1>4

(* What a run and an episode start from. *)
LEMMA NewReceiptSays ==
    ASSUME NEW p \in {"smoke", "development"}
    PROVE  /\ Baseline!NewReceipt(p) \in BaselineReceipts
           /\ Baseline!NewReceipt(p).episodes = <<>>
           /\ Baseline!NewReceipt(p).rollout = "NOT_RUN"
<1>1. <<>> \in Seq(Records)
  OBVIOUS
<1>2. Baseline!NoReceipt \in BaselineReceipts /\ Baseline!NoReceipt.episodes = <<>>
  BY <1>1 DEF Baseline!NoReceipt, BaselineReceipts, Baseline!Statuses
<1> QED
  BY <1>2 DEF Baseline!NewReceipt, BaselineReceipts, Baseline!Statuses

LEMMA NewRecordSays ==
    ASSUME Development \in Nat, Cap \in Nat, NEW e \in 0..Development
    PROVE  /\ Baseline!NewRecord(e) \in Records
           /\ Baseline!NewRecord(e).id = e /\ Baseline!NewRecord(e).status = "NOT_RUN"
           /\ Baseline!NewRecord(e).success = "None" /\ Baseline!NewRecord(e).steps = 0
<1>1. /\ Baseline!NoRecord \in Records
      /\ Baseline!NoRecord.success = "None" /\ Baseline!NoRecord.steps = 0
  BY DEF Baseline!NoRecord, Records
<1> QED
  BY <1>1 DEF Baseline!NewRecord, Records

LaunchesRun ==
    /\ attempt + 1 \in Ran /\ attempt' = attempt + 1 /\ spot' = "assets"
    /\ batch' \in {"smoke", "development"} /\ doing' = "readiness"
    /\ draft' = Baseline!NewReceipt(batch')
    /\ onDisk' = [onDisk EXCEPT ![attempt + 1] = draft']
    /\ UNCHANGED <<episodeFile, worlds>>
LEMMA LaunchSays ==
    ASSUME Baseline!NativeRunAssumption, BaselineInv, Baseline!Launch
    PROVE  LaunchesRun
<1>1. /\ attempt' = attempt + 1 /\ spot' = "assets" /\ doing' = "readiness"
      /\ draft' = Baseline!NewReceipt(batch')
      /\ onDisk' = [onDisk EXCEPT ![attempt + 1] = draft']
      /\ UNCHANGED <<episodeFile, worlds>>
  BY Zenon DEF Baseline!Launch
<1>2. batch' \in {"smoke", "development"}
  BY DEF Baseline!Launch
<1>3. attempt + 1 \in Ran
  BY DEF Baseline!Launch, BaselineInv, BaselineShape, Ran, Baseline!Runs,
     Baseline!NativeRunAssumption
<1> QED
  BY <1>1, <1>2, <1>3, Zenon DEF LaunchesRun

LEMMA ReceiptShapeKept ==
    ASSUME Baseline!NativeRunAssumption, BaselineInv, Baseline!Next
    PROVE  BaselineReceiptShape'
<1> USE DEF BaselineInv, BaselineReceiptShape
<1>1. CASE UNCHANGED <<draft, onDisk>>
  BY <1>1
<1>2. CASE Baseline!Launch
  <2>1. LaunchesRun
    BY <1>2, LaunchSays
  <2>2. draft' \in BaselineReceipts
    BY <2>1, NewReceiptSays DEF LaunchesRun
  <2> QED
    BY <2>1, <2>2 DEF LaunchesRun
<1>3. CASE Baseline!VerifyAssets \/ Baseline!VerifyEgl \/ Baseline!Load \/ Baseline!Roll
           \/ Baseline!Complete
  <2>1. attempt \in Ran
    BY <1>3, InRun DEF Baseline!VerifyAssets, Baseline!VerifyEgl, Baseline!Load,
       Baseline!Roll, Baseline!Complete
  <2>2. Baseline!Successes(draft.episodes) \in Int
    <3>1. {i \in DOMAIN draft.episodes : draft.episodes[i].success = "True"}
            \subseteq 1..Listed
      <4>1. DOMAIN draft.episodes = 1..Listed
        BY InRun DEF Listed
      <4> QED
        BY <4>1
    <3>2. IsFiniteSet({i \in DOMAIN draft.episodes : draft.episodes[i].success = "True"})
      <4>1. IsFiniteSet(1..Listed)
        BY InRun, FS_Interval
      <4> QED
        BY <3>1, <4>1, FS_Subset
    <3>3. \A S : Baseline!Cardinality(S) = Cardinality(S)
      BY Zenon DEF Baseline!Cardinality, Cardinality
    <3> QED
      BY <3>2, <3>3, FS_CardinalityType DEF Baseline!Successes
  <2>3. draft' \in BaselineReceipts
    BY <1>3, <2>2 DEF BaselineReceipts, Baseline!VerifyAssets, Baseline!VerifyEgl, Baseline!Load,
       Baseline!Roll, Baseline!Complete, Baseline!Statuses
  <2>4. UNCHANGED onDisk \/ Baseline!Written(draft')
    BY <1>3, Zenon DEF Baseline!VerifyAssets, Baseline!VerifyEgl, Baseline!Load,
       Baseline!Roll, Baseline!Complete, Baseline!Written
  <2> QED
    BY <2>1, <2>3, <2>4, WrittenSays
<1>4. CASE Baseline!AppendEpisode
  <2>1. attempt \in Ran
    BY <1>4, InRun DEF Baseline!AppendEpisode
  <2>2. Append(draft.episodes, record) \in Seq(Records)
    BY InRun DEF LoopShape
  <2>3. draft' = [draft EXCEPT !.render = TRUE, !.episodes = Append(@, record)]
    BY <1>4, Zenon DEF Baseline!AppendEpisode
  <2>4. draft' \in BaselineReceipts
    BY <2>2, <2>3 DEF BaselineReceipts
  <2>5. Baseline!Written(draft')
    BY <1>4, Zenon DEF Baseline!AppendEpisode
  <2> QED
    BY <2>1, <2>4, <2>5, WrittenSays
<1>5. CASE Baseline!HandleError
  <2>1. UNCHANGED onDisk
    BY <1>5, Zenon DEF Baseline!HandleError
  <2> QED
    BY <1>5, <2>1, HandledSays
<1>6. CASE Baseline!WriteFinal
  <2>1. attempt \in Ran /\ draft' = draft /\ Baseline!Written(draft)
    BY <1>6, InRun DEF Baseline!WriteFinal, Baseline!main
  <2> QED
    BY <2>1, WrittenSays
<1> QED
  BY <1>1, <1>2, <1>3, <1>4, <1>5, <1>6, WhoWritesReceipts

LEMMA LoopShapeKept ==
    ASSUME Baseline!NativeRunAssumption, BaselineInv, Baseline!Next
    PROVE  LoopShape'
<1> USE DEF BaselineInv, LoopShape
<1>1. CASE UNCHANGED <<record, actions, raising, journal>>
  BY <1>1
<1>2. CASE Baseline!NextEpisode
  <2>1. record' = Baseline!NewRecord(Listed + 1) /\ Listed + 1 \in 0..Development
    BY <1>2, InRun DEF Baseline!NextEpisode, Listed
  <2>2. record' \in Records
    BY <2>1, NewRecordSays DEF Baseline!NativeRunAssumption
  <2> QED
    <3>1. actions' = 0 /\ raising' = FALSE /\ journal' = 0
      BY <1>2, Zenon DEF Baseline!NextEpisode
    <3>2. raising' \in BOOLEAN
      BY <3>1
    <3>3. 0 \in 0..Chunk /\ 0 \in 0..Cap
      BY DEF Baseline!NativeRunAssumption
    <3> QED
      BY <2>2, <3>1, <3>2, <3>3, Zenon
<1>3. CASE Baseline!Reset \/ Baseline!CondemnEpisode \/ Baseline!Interrupt
  <2>1. record' \in Records
    BY <1>3 DEF Baseline!Reset, Baseline!CondemnEpisode, Baseline!Interrupt, Records
  <2> QED
    BY <1>3, <2>1, Zenon DEF Baseline!Reset, Baseline!CondemnEpisode, Baseline!Interrupt
<1>4. CASE Baseline!Infer \/ Baseline!Step
  BY <1>4 DEF Baseline!Infer, Baseline!Step, Baseline!NativeRunAssumption
<1>5. CASE Baseline!Count
  <2>1. attempt \in Ran /\ record.id \in Worlds /\ spot = "stepped"
    BY <1>5, InRun DEF Baseline!Count, InLoop, Baseline!InEpisode
  <2>2. Moved \in Histories
    BY <2>1 DEF Moved, WorldShape
  <2>3. Moved.steps = record.steps + 1
    BY <2>1 DEF EpisodeInv
  <2>4. record.steps + 1 \in 0..Cap
    BY <2>2, <2>3 DEF Histories
  <2> QED
    BY <1>5, <2>4 DEF Baseline!Count, Records
<1>6. CASE Baseline!TellReturned
  <2>1. journal + 1 = record.steps
    BY <1>6 DEF Baseline!TellReturned, EpisodeInv
  <2> QED
    BY <1>6, <2>1 DEF Baseline!TellReturned, Records, Baseline!NativeRunAssumption
<1>7. CASE Baseline!Conclude
  <2>1. Baseline!Outcome.status \in {"NOT_RUN", "COMPLETED"} \/ Baseline!Outcome =
            [status |-> "INCOMPLETE", success |-> "None"]
    BY DEF Baseline!Outcome
  <2>2. Baseline!Outcome.success \in {"None", "True", "False"}
    BY DEF Baseline!Outcome
  <2>3. Baseline!Outcome.status # "INCOMPLETE"
    BY <1>7 DEF Baseline!Conclude, Baseline!Outcome, Records, EpisodeInv,
       Baseline!NativeRunAssumption
  <2> QED
    <3>1. Baseline!Outcome.status \in {"NOT_RUN", "COMPLETED"}
      BY <2>1, <2>3
    <3>2. record' = [record EXCEPT !.status = Baseline!Outcome.status,
                                   !.success = Baseline!Outcome.success]
          /\ UNCHANGED <<actions, raising, journal>>
      BY <1>7, Zenon DEF Baseline!Conclude
    <3> QED
      BY <2>2, <3>1, <3>2 DEF Records
<1> QED
  BY <1>1, <1>2, <1>3, <1>4, <1>5, <1>6, <1>7, WhoLoops

LEMMA WorldShapeKept ==
    ASSUME Baseline!NativeRunAssumption, BaselineInv, Baseline!Next
    PROVE  WorldShape'
<1> USE DEF BaselineInv, WorldShape
<1>1. CASE UNCHANGED <<episodeFile, worlds>>
  BY <1>1
<1>2. CASE Baseline!Step
  <2>1. attempt \in Ran /\ record.id \in Worlds
    BY <1>2, InRun DEF Baseline!Step, InLoop, Baseline!InEpisode
  <2>2. Moved \in Histories
    BY <2>1 DEF Moved
  <2>3. Moved.steps < Cap
    BY <1>2 DEF Baseline!Step, EpisodeInv
  <2>4. Moved.steps + 1 \in 0..Cap
    BY <2>2, <2>3 DEF Histories, Baseline!NativeRunAssumption
  <2>5. PICK over \in BOOLEAN, success \in BOOLEAN :
          worlds' = [worlds EXCEPT ![attempt][record.id] =
                       [steps |-> Moved.steps + 1, success |-> success, over |-> over]]
    BY <1>2, <2>1 DEF Baseline!Step, Moved
  <2>6. [steps |-> Moved.steps + 1, success |-> success, over |-> over] \in Histories
    BY <2>4 DEF Histories
  <2>7. UNCHANGED episodeFile
    BY <1>2, Zenon DEF Baseline!Step
  <2> QED
    BY <2>1, <2>5, <2>6, <2>7
<1>3. CASE Baseline!WriteEpisode
  <2>1. attempt \in Ran /\ record.id \in Worlds
    BY <1>3, InRun DEF Baseline!WriteEpisode, InLoop
  <2> QED
    BY <1>3, <2>1 DEF Baseline!WriteEpisode, LoopShape
<1> QED
  BY <1>1, <1>2, <1>3, WhoMovesWorlds

LEMMA StageKept ==
    ASSUME Baseline!NativeRunAssumption, BaselineInv, Baseline!Next
    PROVE  StageInv'
<1> USE DEF BaselineInv, StageInv, Listed, Rolling, InLoop, Baseline!InEpisode
<1>1. CASE Baseline!Launch
  <2>1. /\ spot' = "assets" /\ doing' = "readiness" /\ batch' \in {"smoke", "development"}
        /\ draft' = Baseline!NewReceipt(batch')
    BY <1>1, LaunchSays DEF LaunchesRun
  <2> QED
    BY <2>1, NewReceiptSays
<1>2. CASE Baseline!VerifyAssets \/ Baseline!VerifyEgl \/ Baseline!Load \/ Baseline!Roll
           \/ Baseline!Complete \/ Baseline!AppendEpisode
  <2>1. draft \in BaselineReceipts
    BY DEF BaselineReceiptShape
  <2> QED
    BY <1>2, <2>1 DEF BaselineReceipts, Baseline!VerifyAssets, Baseline!VerifyEgl, Baseline!Load,
       Baseline!Roll, Baseline!Complete, Baseline!AppendEpisode, Baseline!main
<1>3. CASE Baseline!HandleError
  <2>1. spot' = "closing" /\ doing' = doing
    BY <1>3, Zenon DEF Baseline!HandleError
  <2>2. doing # "rollout" => draft'.episodes = draft.episodes
    BY <1>3, HandledSays
  <2> QED
    BY <1>3, <2>1, <2>2, HandledSays DEF BaselineShape
<1>4. CASE Baseline!NextEpisode \/ Baseline!Leave \/ Baseline!CloseBackend
           \/ Baseline!WriteFinal \/ Baseline!Reset \/ Baseline!Infer \/ Baseline!Step
           \/ Baseline!Count \/ Baseline!TellReturned \/ Baseline!GoOn \/ Baseline!Conclude
           \/ Baseline!ToFinally \/ Baseline!CondemnEpisode \/ Baseline!WriteEpisode
           \/ Baseline!Raise \/ Baseline!Interrupt \/ Baseline!Kill
  <2>1. UNCHANGED <<doing, draft>>
    BY <1>4, Zenon DEF Baseline!main, Baseline!NextEpisode, Baseline!Leave,
       Baseline!CloseBackend, Baseline!WriteFinal, Baseline!Reset, Baseline!Infer,
       Baseline!Step, Baseline!Count, Baseline!TellReturned, Baseline!GoOn, Baseline!Conclude,
       Baseline!ToFinally, Baseline!CondemnEpisode, Baseline!WriteEpisode, Baseline!Raise,
       Baseline!Interrupt, Baseline!Kill
  <2>2. /\ spot' \in Rolling => spot \in Rolling
        /\ spot' \notin {"assets", "egl", "loading", "loaded"}
    <3>1. CASE Baseline!Interrupt
      BY <3>1 DEF BaselineShape, BaselinePlaces, Handling, Baseline!InMain, Baseline!Interrupt
    <3>2. CASE ~Baseline!Interrupt
      BY <1>4, <3>2 DEF Baseline!NextEpisode, Baseline!Leave, Baseline!CloseBackend,
         Baseline!WriteFinal, Baseline!Reset, Baseline!Infer, Baseline!Step, Baseline!Count,
         Baseline!TellReturned, Baseline!GoOn, Baseline!Conclude, Baseline!ToFinally,
         Baseline!CondemnEpisode, Baseline!WriteEpisode, Baseline!Raise, Baseline!Kill
    <3> QED
      BY <3>1, <3>2
  <2> QED
    BY <2>1, <2>2
<1> QED
  BY <1>1, <1>2, <1>3, <1>4 DEF Baseline!Next

LEMMA FilesKept ==
    ASSUME Baseline!NativeRunAssumption, BaselineInv, Baseline!Next
    PROVE  EpisodeFilesInv'
<1> SUFFICES ASSUME NEW r \in Ran, NEW e \in Worlds
             PROVE  /\ Honest(episodeFile[r][e], worlds[r][e])'
                    /\ episodeFile'[r][e] = Baseline!NoRecord \/ episodeFile'[r][e].id = e
  BY DEF EpisodeFilesInv
<1>0. /\ Honest(episodeFile[r][e], worlds[r][e])
      /\ episodeFile[r][e] = Baseline!NoRecord \/ episodeFile[r][e].id = e
  BY DEF BaselineInv, EpisodeFilesInv
<1>1. CASE UNCHANGED <<episodeFile, worlds>>
  BY <1>0, <1>1 DEF Honest, Ended
<1>2. CASE Baseline!Step
  <2>1. attempt \in Ran /\ record.id \in Worlds /\ spot \in InLoop
    BY <1>2, InRun DEF Baseline!Step, InLoop, Baseline!InEpisode
  <2>2. episodeFile[attempt][record.id] = Baseline!NoRecord
    BY <2>1 DEF BaselineInv, EpisodeInv
  <2>3. UNCHANGED episodeFile
    BY <1>2, Zenon DEF Baseline!Step
  <2>4. CASE r = attempt /\ e = record.id
    <3>1. episodeFile'[r][e].status = "absent" /\ episodeFile'[r][e] = Baseline!NoRecord
      BY <2>2, <2>3, <2>4 DEF Baseline!NoRecord
    <3> QED
      BY <3>1 DEF Honest
  <2>5. CASE ~(r = attempt /\ e = record.id)
    <3>1. worlds'[r][e] = worlds[r][e]
      BY <1>2, <2>1, <2>5 DEF Baseline!Step, BaselineInv, WorldShape
    <3> QED
      BY <1>0, <2>3, <3>1 DEF Honest, Ended
  <2> QED
    BY <2>4, <2>5
<1>3. CASE Baseline!WriteEpisode
  <2>1. attempt \in Ran /\ record.id \in Worlds /\ spot \in InLoop
    BY <1>3, InRun DEF Baseline!WriteEpisode, InLoop
  <2>2. /\ episodeFile' = [episodeFile EXCEPT ![attempt][record.id] = record]
        /\ UNCHANGED worlds
    BY <1>3, Zenon DEF Baseline!WriteEpisode
  <2>3. CASE r = attempt /\ e = record.id
    <3>1. episodeFile'[r][e] = record
      BY <2>1, <2>2, <2>3 DEF BaselineInv, WorldShape
    <3>2. Honest(record, worlds[r][e])
      BY <2>1, <2>3 DEF BaselineInv, EpisodeInv, Moved
    <3> QED
      BY <2>2, <2>3, <3>1, <3>2 DEF Honest, Ended
  <2>4. CASE ~(r = attempt /\ e = record.id)
    <3>1. episodeFile'[r][e] = episodeFile[r][e]
      BY <2>1, <2>2, <2>4 DEF BaselineInv, WorldShape
    <3> QED
      BY <1>0, <2>2, <3>1 DEF Honest, Ended
  <2> QED
    BY <2>3, <2>4
<1> QED
  BY <1>1, <1>2, <1>3, WhoMovesWorlds

(* A receipt of an episode is written once. *)
LEMMA EpisodeWrittenOnce ==
    ASSUME Baseline!NativeRunAssumption, BaselineInv, Baseline!Next,
           NEW r \in Ran, NEW e \in Worlds, episodeFile[r][e] # Baseline!NoRecord
    PROVE  episodeFile'[r][e] = episodeFile[r][e]
<1>1. CASE UNCHANGED episodeFile
  BY <1>1
<1>2. CASE Baseline!WriteEpisode
  <2>1. attempt \in Ran /\ record.id \in Worlds /\ spot \in InLoop
    BY <1>2, InRun DEF Baseline!WriteEpisode, InLoop
  <2>2. ~(r = attempt /\ e = record.id)
    BY <2>1 DEF BaselineInv, EpisodeInv
  <2> QED
    BY <1>2, <2>1, <2>2 DEF Baseline!WriteEpisode, BaselineInv, WorldShape
<1> QED
  <2>1. Baseline!Step => UNCHANGED episodeFile
    BY Zenon DEF Baseline!Step
  <2> QED
    BY <1>1, <1>2, <2>1, WhoMovesWorlds

LEMMA ListsStay ==
    ASSUME Baseline!NativeRunAssumption, BaselineInv, Baseline!Next,
           NEW r \in Ran, NEW list \in Seq(Records), IsOf(list, r)
    PROVE  \A i \in DOMAIN list : list[i].id = i /\ list[i] = episodeFile'[r][i]
<1> SUFFICES ASSUME NEW i \in DOMAIN list
             PROVE  list[i].id = i /\ list[i] = episodeFile'[r][i]
  OBVIOUS
<1>1. list[i].id = i /\ list[i] = episodeFile[r][i]
  BY DEF IsOf
<1>2. i \in Nat \ {0} /\ list[i] \in Records
  OBVIOUS
<1>3. i \in Worlds
  BY <1>1, <1>2, InRun DEF Records, Worlds, Baseline!Episodes
<1>4. episodeFile[r][i] # Baseline!NoRecord
  <2>1. Baseline!NoRecord.id = 0
    BY DEF Baseline!NoRecord
  <2> QED
    BY <1>1, <1>2, <2>1
<1> QED
  BY <1>1, <1>3, <1>4, EpisodeWrittenOnce

(* What a step makes of the list in memory. *)
LEMMA ListGoesOn ==
    ASSUME Baseline!NativeRunAssumption, BaselineInv, Baseline!Next, ~Baseline!Launch
    PROVE  /\ attempt' = attempt /\ batch' = batch
           /\ \/ draft'.episodes = draft.episodes
              \/ /\ Baseline!AppendEpisode /\ draft'.episodes = Append(draft.episodes, record)
              \/ /\ Baseline!HandleError
                 /\ Listed < Baseline!Batch(batch)
                 /\ episodeFile[attempt][Listed + 1] # Baseline!NoRecord
                 /\ draft'.episodes = Append(draft.episodes, episodeFile[attempt][Listed + 1])
           /\ onDisk' = onDisk \/ Baseline!Written(draft')
<1>1. attempt' = attempt /\ batch' = batch
  BY WhoLaunches
<1>2. CASE UNCHANGED <<draft, onDisk>>
  BY <1>1, <1>2
<1>3. CASE Baseline!VerifyAssets \/ Baseline!VerifyEgl \/ Baseline!Load \/ Baseline!Roll
           \/ Baseline!Complete \/ Baseline!WriteFinal
  <2>1. draft'.episodes = draft.episodes
    BY <1>3 DEF BaselineInv, BaselineReceiptShape, BaselineReceipts, Baseline!VerifyAssets,
       Baseline!VerifyEgl, Baseline!Load, Baseline!Roll, Baseline!Complete,
       Baseline!WriteFinal, Baseline!main
  <2>2. onDisk' = onDisk \/ Baseline!Written(draft')
    BY <1>3, Zenon DEF Baseline!VerifyAssets, Baseline!VerifyEgl, Baseline!Load,
       Baseline!Roll, Baseline!Complete, Baseline!WriteFinal, Baseline!main, Baseline!Written
  <2> QED
    BY <1>1, <2>1, <2>2
<1>4. CASE Baseline!AppendEpisode
  <2>1. draft' = [draft EXCEPT !.render = TRUE, !.episodes = Append(@, record)]
        /\ Baseline!Written(draft')
    BY <1>4, Zenon DEF Baseline!AppendEpisode
  <2>2. draft'.episodes = Append(draft.episodes, record)
    BY <2>1 DEF BaselineInv, BaselineReceiptShape, BaselineReceipts
  <2> QED
    BY <1>1, <1>4, <2>1, <2>2
<1>5. CASE Baseline!HandleError
  <2>1. onDisk' = onDisk
    BY <1>5, Zenon DEF Baseline!HandleError
  <2> QED
    BY <1>1, <1>5, <2>1, HandledSays
<1> QED
  BY <1>2, <1>3, <1>4, <1>5, WhoWritesReceipts

(* Who closes does not go back to the rollout. *)
LEMMA OnlyForward ==
    ASSUME BaselineShape, Baseline!Next, ~Baseline!Launch
    PROVE  /\ spot \in {"closing", "finishing", "ended"} =>
                spot' \in {"closing", "finishing", "ended"}
           /\ spot \in Handling => spot' \in Handling
<1>1. CASE Baseline!Interrupt
  BY <1>1 DEF BaselineShape, Handling, Baseline!InEpisode, Baseline!InMain, Baseline!Interrupt
<1>2. CASE ~Baseline!Interrupt
  BY <1>2 DEF Handling, Baseline!InEpisode, Baseline!Next, Baseline!VerifyAssets,
     Baseline!VerifyEgl, Baseline!Load, Baseline!Roll, Baseline!NextEpisode,
     Baseline!AppendEpisode, Baseline!Complete, Baseline!Leave, Baseline!HandleError,
     Baseline!CloseBackend, Baseline!WriteFinal, Baseline!Reset, Baseline!Infer, Baseline!Step,
     Baseline!Count, Baseline!TellReturned, Baseline!GoOn, Baseline!Conclude,
     Baseline!ToFinally, Baseline!CondemnEpisode, Baseline!WriteEpisode, Baseline!Raise,
     Baseline!Kill
<1> QED
  BY <1>1, <1>2

LEMMA ListsKept ==
    ASSUME Baseline!NativeRunAssumption, BaselineInv, Baseline!Next
    PROVE  ListsInv'
<1>0. onDisk \in [Ran -> BaselineReceipts] /\ \A r \in Ran : onDisk[r].episodes \in Seq(Records)
  BY DEF BaselineInv, BaselineReceiptShape, BaselineReceipts
<1>1. CASE Baseline!Launch
  <2>1. /\ attempt + 1 \in Ran /\ attempt' = attempt + 1
        /\ onDisk' = [onDisk EXCEPT ![attempt + 1] = draft']
        /\ draft'.episodes = <<>> /\ draft'.rollout = "NOT_RUN"
    BY <1>1, LaunchSays, NewReceiptSays DEF LaunchesRun
  <2>2. draft'.episodes = <<>> /\ Listed' = 0
    BY <2>1 DEF Listed
  <2>3. IsOf(draft.episodes, attempt)'
    BY <2>2 DEF IsOf
  <2>4. ASSUME NEW r \in Ran PROVE IsOf(onDisk[r].episodes, r)'
    <3>1. CASE r = attempt + 1
      BY <1>0, <2>1, <3>1 DEF IsOf
    <3>2. CASE r # attempt + 1
      <4>1. onDisk'[r] = onDisk[r]
        BY <1>0, <2>1, <3>2
      <4>2. IsOf(onDisk[r].episodes, r)
        BY DEF BaselineInv, ListsInv
      <4>3. \A i \in DOMAIN onDisk[r].episodes :
              /\ onDisk[r].episodes[i].id = i
              /\ onDisk[r].episodes[i] = episodeFile'[r][i]
        BY <1>0, <4>2, ListsStay
      <4> QED
        BY <4>1, <4>3 DEF IsOf
    <3> QED
      BY <3>1, <3>2
  <2>5. Baseline!Batch(batch)' \in Nat
    BY DEF Baseline!Batch, Baseline!NativeRunAssumption
  <2> QED
    BY <2>2, <2>3, <2>4, <2>5 DEF ListsInv
<1>2. CASE ~Baseline!Launch
  <2>1. /\ attempt' = attempt /\ batch' = batch
        /\ onDisk' = onDisk \/ Baseline!Written(draft')
    BY <1>2, ListGoesOn
  <2>2. draft'.episodes = draft.episodes
        \/ \E r \in Records : /\ Listed < Baseline!Batch(batch) /\ attempt \in Ran
                              /\ Listed + 1 \in Worlds
                              /\ draft'.episodes = Append(draft.episodes, r)
                              /\ r.id = Listed + 1 /\ r = episodeFile'[attempt][Listed + 1]
                              /\ Baseline!AppendEpisode => r.status = "COMPLETED"
                              /\ Baseline!AppendEpisode \/ Baseline!HandleError
    <3>1. CASE Baseline!AppendEpisode
      <4>1. /\ attempt \in Ran /\ record.id \in Worlds /\ record.id = Listed + 1
            /\ record.id <= Baseline!Batch(batch) /\ record.status = "COMPLETED"
            /\ episodeFile[attempt][record.id] = record
        BY <3>1, InRun DEF Baseline!AppendEpisode, BaselineInv, EpisodeInv
      <4>2. UNCHANGED episodeFile
        BY <3>1, Zenon DEF Baseline!AppendEpisode
      <4>3. record \in Records
        BY DEF BaselineInv, LoopShape
      <4>4. draft'.episodes = Append(draft.episodes, record) \/ draft'.episodes = draft.episodes
        <5>1. draft' = [draft EXCEPT !.render = TRUE, !.episodes = Append(@, record)]
          BY <3>1, Zenon DEF Baseline!AppendEpisode
        <5> QED
          BY <5>1 DEF BaselineInv, BaselineReceiptShape, BaselineReceipts
      <4> QED
        BY <3>1, <4>1, <4>2, <4>3, <4>4, InRun
    <3>2. CASE Baseline!HandleError /\ ~Baseline!AppendEpisode
      <4>1. CASE draft'.episodes # draft.episodes
        <5>1. /\ Listed < Baseline!Batch(batch)
              /\ episodeFile[attempt][Listed + 1] # Baseline!NoRecord
              /\ draft'.episodes = Append(draft.episodes, episodeFile[attempt][Listed + 1])
          BY <3>2, <4>1, HandledSays
        <5>2. attempt \in Ran /\ Listed + 1 \in Worlds
          <6>1. spot = "failing"
            BY <3>2, Zenon DEF Baseline!HandleError
          <6> QED
            BY <5>1, <6>1, InRun DEF Worlds, Baseline!Episodes
        <5>3. episodeFile[attempt][Listed + 1] \in Records
          BY <5>2 DEF BaselineInv, WorldShape
        <5>4. episodeFile[attempt][Listed + 1].id = Listed + 1
          BY <5>1, <5>2 DEF BaselineInv, EpisodeFilesInv
        <5>5. UNCHANGED episodeFile
          BY <3>2, Zenon DEF Baseline!HandleError
        <5> QED
          BY <3>2, <5>1, <5>2, <5>3, <5>4, <5>5
      <4> QED
        BY <4>1
    <3> QED
      BY <1>2, <3>1, <3>2, ListGoesOn
  <2>3. attempt > 0 => IsOf(draft.episodes, attempt)'
    <3> SUFFICES ASSUME attempt > 0 PROVE IsOf(draft.episodes, attempt)'
      OBVIOUS
    <3>1. attempt \in Ran /\ draft.episodes \in Seq(Records) /\ IsOf(draft.episodes, attempt)
      BY InRun DEF BaselineInv, BaselineShape, ListsInv, Ran, Baseline!Runs,
         Baseline!NativeRunAssumption
    <3>2. \A i \in DOMAIN draft.episodes :
            draft.episodes[i].id = i /\ draft.episodes[i] = episodeFile'[attempt][i]
      BY <3>1, ListsStay
    <3>3. CASE draft'.episodes = draft.episodes
      BY <2>1, <3>2, <3>3 DEF IsOf
    <3>4. CASE draft'.episodes # draft.episodes
      <4>1. PICK r \in Records : /\ draft'.episodes = Append(draft.episodes, r)
                                 /\ r.id = Listed + 1
                                 /\ r = episodeFile'[attempt][Listed + 1]
        BY <2>2, <3>4
      <4> QED
        BY <2>1, <3>1, <3>2, <4>1 DEF IsOf, Listed
    <3> QED
      BY <3>3, <3>4
  <2>4. ASSUME NEW r \in Ran PROVE IsOf(onDisk[r].episodes, r)'
    <3>1. CASE onDisk'[r] = onDisk[r]
      <4>1. IsOf(onDisk[r].episodes, r)
        BY DEF BaselineInv, ListsInv
      <4>2. \A i \in DOMAIN onDisk[r].episodes :
              /\ onDisk[r].episodes[i].id = i
              /\ onDisk[r].episodes[i] = episodeFile'[r][i]
        BY <1>0, <4>1, ListsStay
      <4> QED
        BY <3>1, <4>2 DEF IsOf
    <3>2. CASE onDisk'[r] # onDisk[r]
      <4>1. onDisk' = [onDisk EXCEPT ![attempt] = draft']
        BY <2>1, <3>2 DEF Baseline!Written
      <4>2. r = attempt /\ onDisk'[r] = draft'
        BY <1>0, <3>2, <4>1
      <4>3. attempt > 0
        BY <4>2 DEF Ran, Baseline!Runs
      <4> QED
        BY <2>1, <2>3, <4>2, <4>3 DEF IsOf
    <3> QED
      BY <3>1, <3>2
  <2>5. Listed' <= Baseline!Batch(batch)'
    <3>1. Baseline!Batch(batch)' = Baseline!Batch(batch)
      BY <2>1 DEF Baseline!Batch
    <3> QED
      BY <2>2, <3>1, InRun DEF Listed
  <2>6. ASSUME spot' \notin {"closing", "finishing", "ended"}
        PROVE  \A i \in DOMAIN draft'.episodes : draft'.episodes[i].status = "COMPLETED"
    <3>1. spot \notin {"closing", "finishing", "ended"}
      BY <1>2, <2>6, OnlyForward DEF BaselineInv
    <3>2. \A i \in DOMAIN draft.episodes : draft.episodes[i].status = "COMPLETED"
      BY <3>1 DEF BaselineInv, ListsInv
    <3>3. ~Baseline!HandleError
      BY <2>6 DEF Baseline!HandleError
    <3>4. CASE draft'.episodes # draft.episodes
      <4>1. PICK r \in Records : draft'.episodes = Append(draft.episodes, r)
                                 /\ r.status = "COMPLETED"
        BY <2>2, <3>3, <3>4
      <4>2. draft.episodes \in Seq(Records)
        BY InRun
      <4> QED
        BY <3>2, <4>1, <4>2
    <3> QED
      BY <3>2, <3>4
  <2> QED
    BY <2>1, <2>3, <2>4, <2>5, <2>6 DEF ListsInv
<1> QED
  BY <1>1, <1>2

(* What a smoke receipt that passes says of its world. *)
LEMMA PassedSmoke ==
    ASSUME BaselineInv, NEW s \in Ran, Baseline!SmokePasses(onDisk[s]), 1 \in Worlds
    PROVE  /\ worlds[s][1].steps > 0 /\ episodeFile[s][1].status = "COMPLETED"
           /\ worlds[s][1].success \/ worlds[s][1].over \/ worlds[s][1].steps = Cap
<1>1. /\ onDisk[s].episodes \in Seq(Records) /\ Len(onDisk[s].episodes) = 1
      /\ onDisk[s].episodes[1].status = "COMPLETED"
  BY DEF BaselineInv, BaselineReceiptShape, BaselineReceipts, Baseline!SmokePasses
<1>2. onDisk[s].episodes[1] = episodeFile[s][1]
  BY <1>1 DEF BaselineInv, ListsInv, IsOf
<1>3. Honest(episodeFile[s][1], worlds[s][1])
  BY DEF BaselineInv, EpisodeFilesInv
<1> QED
  BY <1>1, <1>2, <1>3 DEF Honest, Ended

LEMMA SmokeKept ==
    ASSUME Baseline!NativeRunAssumption, BaselineInv, Baseline!Next
    PROVE  Baseline!SmokeCameFirst'
<1>0. /\ 1 \in Worlds /\ MaxRuns \in Nat /\ attempt \in 0..MaxRuns
      /\ \A s \in 1..attempt : s \in Ran
  BY DEF Baseline!NativeRunAssumption, BaselineInv, BaselineShape, Worlds, Baseline!Episodes,
     Ran, Baseline!Runs
<1>1. CASE Baseline!Launch
  <2>1. /\ attempt' = attempt + 1 /\ UNCHANGED <<episodeFile, worlds>>
        /\ batch' = "development" => \E s \in 1..attempt : Baseline!SmokePasses(onDisk[s])
    BY <1>1, Zenon DEF Baseline!Launch
  <2> SUFFICES ASSUME batch' = "development"
               PROVE  \E s \in 1..attempt :
                        /\ worlds[s][1].steps > 0 /\ episodeFile[s][1].status = "COMPLETED"
                        /\ worlds[s][1].success \/ worlds[s][1].over
                           \/ worlds[s][1].steps = Cap
    BY <1>0, <2>1 DEF Baseline!SmokeCameFirst
  <2> QED
    BY <1>0, <2>1, PassedSmoke
<1>2. CASE ~Baseline!Launch
  <2>1. UNCHANGED <<attempt, batch>>
    BY <1>2, WhoLaunches
  <2> SUFFICES ASSUME attempt > 0, batch = "development"
               PROVE  \E s \in 1..(attempt - 1) :
                        /\ worlds'[s][1].steps > 0 /\ episodeFile'[s][1].status = "COMPLETED"
                        /\ worlds'[s][1].success \/ worlds'[s][1].over
                           \/ worlds'[s][1].steps = Cap
    BY <2>1 DEF Baseline!SmokeCameFirst
  <2>2. PICK s \in 1..(attempt - 1) :
          /\ worlds[s][1].steps > 0 /\ episodeFile[s][1].status = "COMPLETED"
          /\ worlds[s][1].success \/ worlds[s][1].over \/ worlds[s][1].steps = Cap
    BY DEF BaselineInv, Baseline!SmokeCameFirst
  <2>3. s \in Ran /\ s # attempt
    BY <1>0
  <2>4. worlds'[s] = worlds[s] /\ episodeFile'[s] = episodeFile[s]
    <3>1. CASE Baseline!Step
      BY <2>3, <3>1 DEF Baseline!Step, BaselineInv, WorldShape
    <3>2. CASE Baseline!WriteEpisode
      BY <2>3, <3>2 DEF Baseline!WriteEpisode, BaselineInv, WorldShape
    <3> QED
      BY <3>1, <3>2, WhoMovesWorlds
  <2> QED
    BY <2>2, <2>4
<1> QED
  BY <1>1, <1>2

LEMMA SuccessesSay ==
    ASSUME Baseline!NativeRunAssumption, BaselineInv, spot = "next",
           Listed = Baseline!Batch(batch)
    PROVE  Baseline!Successes(draft.episodes) =
             Cardinality({e \in Worlds : worlds[attempt][e].success})
<1>0. attempt \in Ran /\ attempt > 0
  BY InRun
<1>1. ASSUME NEW i \in 1..Listed
      PROVE  i \in Worlds /\ (draft.episodes[i].success = "True" <=> worlds[attempt][i].success)
  <2>1. i \in Worlds
    BY InRun DEF Worlds, Baseline!Episodes
  <2>2. draft.episodes[i] = episodeFile[attempt][i] /\ draft.episodes[i].status = "COMPLETED"
    BY <1>0, InTheList DEF BaselineInv, ListsInv
  <2>3. Honest(episodeFile[attempt][i], worlds[attempt][i])
    BY <1>0, <2>1 DEF BaselineInv, EpisodeFilesInv
  <2> QED
    BY <2>1, <2>2, <2>3 DEF Honest
<1>2. ASSUME NEW e \in Worlds, worlds[attempt][e].success
      PROVE  e \in 1..Listed
  <2>1. ~Baseline!Untouched.success
    BY DEF Baseline!Untouched
  <2>2. ~(e > Listed)
    BY <1>0, <1>2, <2>1 DEF BaselineInv, FutureInv
  <2> QED
    BY <2>2, InRun DEF Worlds, Baseline!Episodes
<1>3. {i \in DOMAIN draft.episodes : draft.episodes[i].success = "True"}
        = {e \in Worlds : worlds[attempt][e].success}
  <2>1. DOMAIN draft.episodes = 1..Listed
    BY <1>0, InTheList
  <2> QED
    BY <1>1, <1>2, <2>1
<1>4. \A S : Baseline!Cardinality(S) = Cardinality(S)
  BY Zenon DEF Baseline!Cardinality, Cardinality
<1> QED
  BY <1>3, <1>4, Zenon DEF Baseline!Successes

(* Nothing moves after the end but the next run. *)
LEMMA AfterTheEnd ==
    ASSUME Baseline!NativeRunAssumption, BaselineInv, Baseline!Next, ~Baseline!Launch,
           spot \in {"completed"} \cup Handling
    PROVE  /\ spot # "ended" /\ spot' \in Handling /\ UNCHANGED <<worlds, episodeFile>>
           /\ draft' = draft \/ Baseline!HandleError
           /\ onDisk' = onDisk \/ (Baseline!Written(draft) /\ spot' = "ended" /\ draft' = draft)
<1>1. spot # "ended" /\ \/ Baseline!Leave \/ Baseline!HandleError \/ Baseline!CloseBackend
                        \/ Baseline!WriteFinal \/ Baseline!Interrupt \/ Baseline!Kill
  BY DEF Handling, Baseline!InEpisode, Baseline!Next, Baseline!VerifyAssets,
     Baseline!VerifyEgl, Baseline!Load, Baseline!Roll, Baseline!NextEpisode,
     Baseline!AppendEpisode, Baseline!Complete, Baseline!Leave, Baseline!HandleError,
     Baseline!CloseBackend, Baseline!WriteFinal, Baseline!Reset, Baseline!Infer,
     Baseline!Step, Baseline!Count, Baseline!TellReturned, Baseline!GoOn, Baseline!Conclude,
     Baseline!ToFinally, Baseline!CondemnEpisode, Baseline!WriteEpisode, Baseline!Raise,
     Baseline!Interrupt, Baseline!Kill
<1>2. spot' \in Handling
  <2>1. spot \in Handling => spot' \in Handling
    BY OnlyForward DEF BaselineInv
  <2>2. spot = "completed" => spot' \in Handling
    BY <1>1 DEF Handling, Baseline!InEpisode, Baseline!InMain, Baseline!Leave,
       Baseline!HandleError, Baseline!CloseBackend, Baseline!WriteFinal, Baseline!Interrupt,
       Baseline!Kill
  <2> QED
    BY <2>1, <2>2
<1> QED
  BY <1>1, <1>2, Zenon DEF Baseline!main, Baseline!Leave, Baseline!HandleError,
     Baseline!CloseBackend, Baseline!WriteFinal, Baseline!Interrupt, Baseline!Kill

LEMMA CompletionKept ==
    ASSUME Baseline!NativeRunAssumption, BaselineInv, Baseline!Next
    PROVE  CompletionInv'
<1>0. draft \in BaselineReceipts /\ onDisk \in [Ran -> BaselineReceipts]
  BY DEF BaselineInv, BaselineReceiptShape
<1>1. CASE Baseline!Launch
  <2>1. /\ attempt + 1 \in Ran /\ attempt' = attempt + 1
        /\ onDisk' = [onDisk EXCEPT ![attempt + 1] = draft']
        /\ draft'.episodes = <<>> /\ draft'.rollout = "NOT_RUN"
    BY <1>1, LaunchSays, NewReceiptSays DEF LaunchesRun
  <2>2. draft'.rollout # "COMPLETED" /\ onDisk'[attempt'].rollout # "COMPLETED"
    BY <1>0, <2>1
  <2> QED
    BY <2>2 DEF CompletionInv
<1>2. CASE Baseline!Complete
  <2>1. /\ spot = "next" /\ spot' = "completed" /\ Listed = Baseline!Batch(batch)
        /\ UNCHANGED <<attempt, batch, worlds, onDisk>>
        /\ draft' = [draft EXCEPT !.rollout = "COMPLETED",
                                  !.successes = Baseline!Successes(draft.episodes)]
    BY <1>2, Zenon DEF Baseline!Complete, Listed
  <2>2. /\ draft'.model = draft.model /\ draft'.episodes = draft.episodes
        /\ draft'.successes = Baseline!Successes(draft.episodes)
    BY <1>0, <2>1 DEF BaselineReceipts
  <2>3. draft.model = "PASS"
    BY <2>1 DEF BaselineInv, StageInv, Rolling
  <2>4. \A i \in DOMAIN draft.episodes : draft.episodes[i].status = "COMPLETED"
    BY <2>1 DEF BaselineInv, ListsInv
  <2>5. Whole(draft)'
    BY <2>1, <2>2, <2>3, <2>4, SuccessesSay DEF Whole, Listed, Baseline!Batch
  <2>6. attempt > 0 /\ onDisk[attempt].rollout = "COMPLETED" => spot = "ended"
    BY DEF BaselineInv, CompletionInv
  <2> QED
    BY <2>1, <2>5, <2>6 DEF CompletionInv
<1>3. CASE ~Baseline!Launch /\ ~Baseline!Complete
  <2>1. UNCHANGED <<attempt, batch>>
    BY <1>3, WhoLaunches
  <2>2. draft'.rollout = "COMPLETED" => draft.rollout = "COMPLETED"
    <3>1. CASE Baseline!VerifyAssets \/ Baseline!VerifyEgl \/ Baseline!Load \/ Baseline!Roll
               \/ Baseline!AppendEpisode \/ Baseline!WriteFinal
      BY <1>0, <3>1 DEF BaselineReceipts, Baseline!VerifyAssets, Baseline!VerifyEgl, Baseline!Load,
         Baseline!Roll, Baseline!AppendEpisode, Baseline!WriteFinal, Baseline!main
    <3>2. CASE Baseline!HandleError
      BY <3>2, HandledSays
    <3> QED
      BY <1>3, <3>1, <3>2, WhoWritesReceipts
  <2>3. ASSUME draft'.rollout = "COMPLETED"
        PROVE  /\ draft' = draft /\ Whole(draft)' /\ spot \in {"completed"} \cup Handling
    <3>1. /\ Whole(draft) /\ spot \in {"completed"} \cup Handling /\ doing = "rollout"
      BY <2>2, <2>3 DEF BaselineInv, CompletionInv, StageInv
    <3>2. ~Baseline!HandleError
      BY <2>3, <3>1, HandledSays
    <3>3. draft' = draft /\ UNCHANGED worlds
      BY <1>3, <3>1, <3>2, AfterTheEnd
    <3> QED
      BY <2>1, <3>1, <3>3 DEF Whole, Baseline!Batch
  <2>4. draft'.rollout = "COMPLETED" =>
            Whole(draft)' /\ spot' \in {"completed"} \cup Handling
    BY <1>3, <2>3, AfterTheEnd
  <2>5. ASSUME attempt' > 0, onDisk'[attempt'].rollout = "COMPLETED"
        PROVE  Whole(onDisk[attempt])' /\ spot' = "ended"
    <3>1. onDisk' # onDisk
      <4> SUFFICES ASSUME onDisk' = onDisk PROVE FALSE
        OBVIOUS
      <4>1. spot = "ended"
        BY <2>1, <2>5 DEF BaselineInv, CompletionInv
      <4> QED
        BY <1>3, <4>1, AfterTheEnd DEF Handling
    <3>2. onDisk' = [onDisk EXCEPT ![attempt] = draft']
      BY <1>3, <3>1, ListGoesOn DEF Baseline!Written
    <3>3. onDisk'[attempt'] = draft'
      <4>1. attempt \in Ran
        BY <2>1, <2>5 DEF BaselineInv, BaselineShape, Ran, Baseline!Runs,
           Baseline!NativeRunAssumption
      <4> QED
        BY <1>0, <2>1, <3>2, <4>1
    <3>4. spot' = "ended" /\ Whole(draft)'
      BY <1>3, <2>3, <2>5, <3>1, <3>3, AfterTheEnd
    <3> QED
      BY <3>3, <3>4 DEF Whole
  <2> QED
    BY <2>4, <2>5 DEF CompletionInv
<1> QED
  BY <1>1, <1>2, <1>3

(* Where a step that does not launch a run leads to. *)
LEMMA GoesTo ==
    ASSUME BaselineShape, Baseline!Next, ~Baseline!Launch
    PROVE  /\ spot # "ended"
           /\ spot = "returned" => Baseline!AppendEpisode \/ spot' \in Handling
           /\ spot' \in {"assets", "egl", "loading", "loaded", "next", "completed"} =>
                \/ Baseline!AppendEpisode
                \/ spot \in {"assets", "egl", "loading", "loaded", "next", "completed"}
<1>1. CASE Baseline!Interrupt
  BY <1>1 DEF BaselineShape, BaselinePlaces, Rolling, InLoop, Handling,
     Baseline!InEpisode, Baseline!InMain, Baseline!Interrupt
<1>2. CASE ~Baseline!Interrupt
  BY <1>2 DEF Handling, Baseline!InEpisode, Baseline!Next, Baseline!VerifyAssets,
     Baseline!VerifyEgl, Baseline!Load, Baseline!Roll, Baseline!NextEpisode,
     Baseline!Complete, Baseline!Leave, Baseline!HandleError,
     Baseline!CloseBackend, Baseline!WriteFinal, Baseline!Reset, Baseline!Infer, Baseline!Step,
     Baseline!Count, Baseline!TellReturned, Baseline!GoOn, Baseline!Conclude,
     Baseline!ToFinally, Baseline!CondemnEpisode, Baseline!WriteEpisode, Baseline!Raise,
     Baseline!Kill, Baseline!AppendEpisode
<1> QED
  BY <1>1, <1>2

(* The worlds and the receipts of other episodes stay as they are. *)
LEMMA OthersStay ==
    ASSUME Baseline!NativeRunAssumption, BaselineInv, Baseline!Next,
           NEW r \in Ran, NEW e \in Worlds
    PROVE  /\ \/ worlds'[r][e] = worlds[r][e]
              \/ Baseline!Step /\ r = attempt /\ e = record.id
           /\ \/ episodeFile'[r][e] = episodeFile[r][e]
              \/ Baseline!WriteEpisode /\ r = attempt /\ e = record.id
<1>1. CASE UNCHANGED <<episodeFile, worlds>>
  BY <1>1
<1>2. CASE Baseline!Step
  <2>1. attempt \in Ran /\ record.id \in Worlds /\ UNCHANGED episodeFile
    BY <1>2, InRun, Zenon DEF Baseline!Step, InLoop, Baseline!InEpisode
  <2>2. worlds \in [Ran -> [Worlds -> Histories]]
    BY DEF BaselineInv, WorldShape
  <2>3. \E x : worlds' = [worlds EXCEPT ![attempt][record.id] = x]
    BY <1>2 DEF Baseline!Step
  <2>4. worlds'[r][e] = worlds[r][e] \/ (r = attempt /\ e = record.id)
    BY <2>1, <2>2, <2>3
  <2> QED
    BY <1>2, <2>1, <2>4
<1>3. CASE Baseline!WriteEpisode
  <2>1. attempt \in Ran /\ record.id \in Worlds /\ UNCHANGED worlds
    BY <1>3, InRun, Zenon DEF Baseline!WriteEpisode, InLoop
  <2> QED
    BY <1>3, <2>1 DEF Baseline!WriteEpisode, BaselineInv, WorldShape
<1> QED
  BY <1>1, <1>2, <1>3, WhoMovesWorlds

LEMMA FutureKept ==
    ASSUME Baseline!NativeRunAssumption, BaselineInv, Baseline!Next
    PROVE  FutureInv'
<1>0. /\ onDisk \in [Ran -> BaselineReceipts] /\ attempt \in Nat
      /\ \A r \in Ran : r \in Nat
      /\ \A e \in Worlds : e \in Nat
  BY DEF BaselineInv, BaselineShape, BaselineReceiptShape, Ran, Baseline!Runs, Worlds,
     Baseline!Episodes, Baseline!NativeRunAssumption
<1>1. CASE Baseline!Launch
  <2>1. /\ attempt' = attempt + 1 /\ spot' = "assets" /\ UNCHANGED <<episodeFile, worlds>>
        /\ onDisk' = [onDisk EXCEPT ![attempt + 1] = draft']
    BY <1>1, Zenon DEF Baseline!Launch
  <2>2. attempt + 1 \in Ran
    BY <1>1, <1>0 DEF Baseline!Launch, Ran, Baseline!Runs, Baseline!NativeRunAssumption
  <2>3. ASSUME NEW r \in Ran, r > attempt + 1
        PROVE  /\ onDisk'[r] = Baseline!NoReceipt
               /\ \A e \in Worlds : episodeFile'[r][e] = Baseline!NoRecord
                                    /\ worlds'[r][e] = Baseline!Untouched
    <3>1. r > attempt /\ onDisk'[r] = onDisk[r]
      BY <1>0, <2>1, <2>2, <2>3
    <3> QED
      BY <2>1, <3>1 DEF BaselineInv, FutureInv
  <2>4. \A e \in Worlds : /\ episodeFile'[attempt'][e] = Baseline!NoRecord
                          /\ worlds'[attempt'][e] = Baseline!Untouched
    BY <1>0, <2>1, <2>2 DEF BaselineInv, FutureInv
  <2>5. attempt' # 0 /\ attempt' > 0
    BY <1>0, <2>1
  <2>6. Baseline!NoRecord' = Baseline!NoRecord /\ Baseline!Untouched' = Baseline!Untouched
        /\ Baseline!NoReceipt' = Baseline!NoReceipt /\ Ran' = Ran /\ Worlds' = Worlds
    BY DEF Baseline!NoRecord, Baseline!Untouched, Baseline!NoReceipt, Ran, Worlds,
       Baseline!Runs, Baseline!Episodes
  <2> QED
    BY <2>1, <2>3, <2>4, <2>5 DEF FutureInv
<1>2. CASE ~Baseline!Launch
  <2>1. attempt' = attempt /\ batch' = batch /\ spot # "ended"
    BY <1>2, ListGoesOn, GoesTo DEF BaselineInv
  <2>2. attempt \in Ran /\ attempt > 0
    BY <2>1, InRun
  <2>3. /\ Listed \in Nat /\ Listed' \in {Listed, Listed + 1}
        /\ Baseline!AppendEpisode => Listed' = Listed + 1
    <3>0. draft.episodes \in Seq(Records) /\ Listed \in Nat
      BY InRun
    <3>1. ASSUME NEW x PROVE Len(Append(draft.episodes, x)) = Listed + 1
      BY <3>0 DEF Listed
    <3>2. Listed' \in {Listed, Listed + 1}
      BY <1>2, <3>0, <3>1, ListGoesOn DEF Listed
    <3>3. ASSUME Baseline!AppendEpisode PROVE Listed' = Listed + 1
      <4>1. draft'.episodes = Append(draft.episodes, record)
        BY <3>3 DEF Baseline!AppendEpisode, BaselineInv, BaselineReceiptShape, BaselineReceipts
      <4> QED
        BY <3>1, <4>1 DEF Listed
    <3> QED
      BY <3>0, <3>2, <3>3
  <2>4. ASSUME NEW r \in Ran, r > attempt
        PROVE  /\ onDisk'[r] = Baseline!NoReceipt
               /\ \A e \in Worlds : episodeFile'[r][e] = Baseline!NoRecord
                                    /\ worlds'[r][e] = Baseline!Untouched
    <3>1. r # attempt
      BY <1>0, <2>4
    <3>2. onDisk'[r] = onDisk[r]
      BY <1>0, <1>2, <2>2, <3>1, ListGoesOn DEF Baseline!Written
    <3> QED
      BY <2>4, <3>1, <3>2, OthersStay DEF BaselineInv, FutureInv
  <2>5. ASSUME NEW e \in Worlds, episodeFile'[attempt][e] # Baseline!NoRecord
        PROVE  /\ e <= Listed' + 1 /\ e <= Baseline!Batch(batch)
               /\ e > Listed' => spot' \in {"returned"} \cup Handling
    <3>1. CASE episodeFile'[attempt][e] = episodeFile[attempt][e]
      <4>1. /\ e <= Listed + 1 /\ e <= Baseline!Batch(batch)
            /\ e > Listed => spot \in {"returned"} \cup Handling
        BY <2>2, <2>5, <3>1 DEF BaselineInv, FutureInv
      <4>2. e > Listed' => e > Listed /\ ~Baseline!AppendEpisode
        BY <1>0, <2>3, <4>1
      <4>3. spot \in Handling => spot' \in Handling
        BY <1>2, OnlyForward DEF BaselineInv
      <4> QED
        BY <1>0, <1>2, <2>3, <4>1, <4>2, <4>3, GoesTo DEF BaselineInv
    <3>2. CASE Baseline!WriteEpisode /\ e = record.id
      <4>1. spot = "writing" /\ spot' \in {"failing", "returned"}
        BY <3>2 DEF Baseline!WriteEpisode
      <4>2. e = Listed + 1 /\ e <= Baseline!Batch(batch)
        BY <3>2, <4>1 DEF BaselineInv, EpisodeInv, InLoop
      <4>3. e <= Listed' + 1
        <5>1. CASE Listed' = Listed
          BY <2>3, <4>2, <5>1
        <5>2. CASE Listed' = Listed + 1
          <6>1. Listed + 1 <= Listed + 1 + 1
            BY <2>3
          <6> QED
            BY <4>2, <5>2, <6>1, Zenon
        <5> QED
          BY <2>3, <5>1, <5>2
      <4>4. spot' \in {"returned"} \cup Handling
        BY <4>1 DEF Handling
      <4> QED
        BY <4>2, <4>3, <4>4, Zenon
    <3> QED
      BY <2>2, <3>1, <3>2, OthersStay
  <2>6. ASSUME NEW e \in Worlds,
               e > Listed' + 1 \/ e > Baseline!Batch(batch)
                 \/ (e > Listed' /\ spot' \in {"assets", "egl", "loading", "loaded", "next",
                                               "completed"})
        PROVE  worlds'[attempt][e] = Baseline!Untouched
    <3>1. CASE worlds'[attempt][e] = worlds[attempt][e]
      <4>1. e > Listed + 1 \/ e > Baseline!Batch(batch)
                 \/ (e > Listed /\ spot \in {"assets", "egl", "loading", "loaded", "next",
                                             "completed"})
        BY <1>0, <1>2, <2>3, <2>6, GoesTo DEF BaselineInv
      <4> QED
        BY <2>2, <3>1, <4>1 DEF BaselineInv, FutureInv
    <3>2. CASE Baseline!Step /\ e = record.id
      <4>1. spot = "control" /\ spot' = "stepped"
        BY <3>2, Zenon DEF Baseline!Step
      <4>2. e = Listed + 1 /\ e <= Baseline!Batch(batch)
        BY <3>2, <4>1 DEF BaselineInv, EpisodeInv, InLoop, Baseline!InEpisode
      <4>3. draft' = draft
        BY <3>2, Zenon DEF Baseline!Step, Baseline!main
      <4> QED
        BY <1>0, <2>3, <2>6, <4>1, <4>2, <4>3, InRun DEF Listed
    <3> QED
      BY <2>2, <3>1, <3>2, OthersStay
  <2>7. ~(attempt' = 0)
    BY <2>1, <2>2, <1>0
  <2>8. Baseline!Batch(batch)' = Baseline!Batch(batch)
    BY <2>1, Zenon DEF Baseline!Batch
  <2> QED
    BY <2>1, <2>4, <2>5, <2>6, <2>7, <2>8 DEF FutureInv
<1> QED
  BY <1>1, <1>2

(* What a step of the loop finds. *)
LEMMA InTheLoop ==
    ASSUME Baseline!NativeRunAssumption, BaselineInv, spot \in InLoop
    PROVE  /\ record \in Records /\ journal \in Nat /\ Cap \in Nat /\ Moved \in Histories
           /\ record.id = Listed + 1 /\ record.id <= Baseline!Batch(batch)
           /\ record.steps \in Nat /\ Moved.steps \in Nat
           /\ episodeFile[attempt][record.id] = Baseline!NoRecord
           /\ Moved.steps - journal \in {0, 1} /\ record.steps - journal \in {0, 1}
           /\ Moved.steps - record.steps \in {0, 1}
           /\ record.status # "absent" /\ Honest(record, Moved)
<1>1. record \in Records /\ journal \in Nat /\ Cap \in Nat /\ record.steps \in Nat
  BY DEF BaselineInv, LoopShape, Records, Baseline!NativeRunAssumption
<1>2. Moved \in Histories
  <2>1. attempt \in Ran /\ record.id \in Worlds
    BY InRun DEF InLoop, Baseline!InEpisode
  <2> QED
    BY <2>1 DEF BaselineInv, WorldShape, Moved
<1>3. Moved.steps \in Nat
  BY <1>1, <1>2 DEF Histories
<1> QED
  BY <1>1, <1>2, <1>3 DEF BaselineInv, EpisodeInv

LEMMA EpisodeKept ==
    ASSUME Baseline!NativeRunAssumption, BaselineInv, Baseline!Next
    PROVE  EpisodeInv'
<1> USE DEF InLoop, Baseline!InEpisode
<1>1. CASE spot' \notin InLoop \cup {"returned"}
  BY <1>1 DEF EpisodeInv
<1>2. CASE Baseline!NextEpisode
  <2>1. /\ record' = Baseline!NewRecord(Listed + 1) /\ Listed < Baseline!Batch(batch)
        /\ Listed + 1 \in 0..Development /\ Listed + 1 \in Worlds
    BY <1>2, InRun DEF Baseline!NextEpisode, Listed, Worlds, Baseline!Episodes
  <2>2. /\ spot' = "resetting" /\ journal' = 0 /\ raising' = FALSE /\ spot = "next"
        /\ UNCHANGED <<attempt, batch, draft, episodeFile, worlds>>
    BY <1>2, Zenon DEF Baseline!NextEpisode, Baseline!main
  <2>3. Cap \in Nat /\ Cap > 0 /\ attempt \in Ran /\ attempt > 0
    BY <2>2, InRun DEF Baseline!NativeRunAssumption
  <2>4. /\ record'.id = Listed + 1 /\ record'.status = "NOT_RUN"
        /\ record'.success = "None" /\ record'.steps = 0
    BY <2>1, <2>3, InRun, NewRecordSays
  <2>5. worlds[attempt][Listed + 1] = Baseline!Untouched
    BY <2>1, <2>2, <2>3, InRun DEF BaselineInv, FutureInv
  <2>6. episodeFile[attempt][Listed + 1] = Baseline!NoRecord
    <3>1. Listed + 1 > Listed
      BY InRun
    <3> QED
      BY <2>1, <2>2, <2>3, <3>1 DEF BaselineInv, FutureInv, Handling
  <2>7. /\ Moved'.steps = 0 /\ Moved'.success = FALSE /\ Moved'.over = FALSE
    BY <2>2, <2>4, <2>5 DEF Moved, Baseline!Untouched
  <2>8. Listed' = Listed /\ Listed \in Nat /\ Baseline!Batch(batch)' = Baseline!Batch(batch)
    BY <2>2, InRun DEF Listed, Baseline!Batch
  <2>9. record'.id <= Baseline!Batch(batch)
    BY <2>1, <2>4, <2>8, InRun
  <2>10. episodeFile'[attempt'][record'.id] = Baseline!NoRecord
    BY <2>2, <2>4, <2>6
  <2>11. Honest(record, Moved)'
    BY <2>4, <2>7 DEF Honest
  <2> HIDE DEF InLoop, Baseline!InEpisode
  <2> QED
    BY <2>2, <2>3, <2>4, <2>7, <2>8, <2>9, <2>10, <2>11 DEF EpisodeInv, InLoop,
       Baseline!InEpisode
<1>3. CASE Baseline!Step
  <2>1. /\ spot = "control" /\ spot' = "stepped"
        /\ UNCHANGED <<attempt, batch, draft, episodeFile, record, journal, raising>>
    BY <1>3, Zenon DEF Baseline!Step, Baseline!main
  <2>2. attempt \in Ran /\ record.id \in Worlds
    BY <2>1, InRun
  <2>3. Moved'.steps = Moved.steps + 1
    BY <1>3, <2>1, <2>2 DEF BaselineInv, WorldShape, Moved, Baseline!Step
  <2>4. /\ record.status = "NOT_RUN" /\ Moved.steps = journal /\ record.steps = journal
        /\ ~raising
    BY <2>1 DEF BaselineInv, EpisodeInv
  <2>5. Listed' = Listed /\ Baseline!Batch(batch)' = Baseline!Batch(batch)
    BY <2>1 DEF Listed, Baseline!Batch
  <2>6. Honest(record, Moved)'
    BY <2>1, <2>3, <2>4, InTheLoop DEF Honest
  <2> QED
    BY <2>1, <2>3, <2>4, <2>5, <2>6, InTheLoop DEF EpisodeInv
<1>4. CASE Baseline!Reset \/ Baseline!Infer \/ Baseline!Count \/ Baseline!TellReturned
           \/ Baseline!GoOn \/ Baseline!Conclude \/ Baseline!ToFinally
           \/ Baseline!CondemnEpisode \/ ((Baseline!Raise \/ Baseline!Interrupt)
                                         /\ spot' \in InLoop)
  <2>1. /\ UNCHANGED <<attempt, batch, draft, episodeFile, worlds>>
    BY <1>4, Zenon DEF Baseline!main, Baseline!episode, Baseline!Reset, Baseline!Infer,
       Baseline!Count, Baseline!TellReturned, Baseline!GoOn, Baseline!Conclude,
       Baseline!ToFinally, Baseline!CondemnEpisode, Baseline!Raise, Baseline!Interrupt
  <2>0. spot \in InLoop
    <3>1. CASE Baseline!Interrupt /\ spot' \in InLoop
      BY <3>1 DEF Baseline!Interrupt, Baseline!InMain, BaselineInv, BaselineShape, BaselinePlaces,
         Rolling, Handling
    <3>2. CASE ~(Baseline!Interrupt /\ spot' \in InLoop)
      BY <1>4, <3>2 DEF Baseline!Reset, Baseline!Infer, Baseline!Count, Baseline!TellReturned,
         Baseline!GoOn, Baseline!Conclude, Baseline!ToFinally, Baseline!CondemnEpisode,
         Baseline!Raise
    <3> QED
      BY <3>1, <3>2
  <2>2. record'.id = record.id
    BY <1>4, <2>0, InTheLoop DEF Baseline!episode, Baseline!Reset, Baseline!Infer,
       Baseline!Count, Baseline!TellReturned, Baseline!GoOn, Baseline!Conclude,
       Baseline!ToFinally, Baseline!CondemnEpisode, Baseline!Raise, Baseline!Interrupt, Records
  <2>3. Listed' = Listed /\ Baseline!Batch(batch)' = Baseline!Batch(batch) /\ Moved' = Moved
    BY <2>1, <2>2 DEF Listed, Baseline!Batch, Moved
  <2>4. /\ record'.id = Listed' + 1 /\ record'.id <= Baseline!Batch(batch)'
        /\ episodeFile'[attempt'][record'.id] = Baseline!NoRecord
    BY <2>0, <2>1, <2>2, <2>3, InTheLoop
  <2>5. Honest(record, Moved) /\ record.status # "absent" /\ Moved.success \in BOOLEAN
    BY <2>0, InTheLoop DEF Histories
  <2>6. CASE Baseline!Infer \/ Baseline!ToFinally \/ Baseline!GoOn
    <3>1. UNCHANGED <<record, raising, journal>>
      BY <2>6, Zenon DEF Baseline!Infer, Baseline!ToFinally, Baseline!GoOn, Baseline!episode
    <3>2. Honest(record, Moved)'
      BY <2>3, <2>5, <3>1 DEF Honest
    <3>3. Baseline!Now = Moved
      BY DEF Moved, Baseline!Now
    <3> QED
      BY <2>0, <2>1, <2>3, <2>4, <2>5, <2>6, <3>1, <3>2, <3>3, InTheLoop
      DEF BaselineInv, EpisodeInv, Baseline!Infer, Baseline!ToFinally, Baseline!GoOn
  <2>7. CASE Baseline!Reset
    <3>1. record'.status = record.status /\ record'.success = record.success
          /\ record'.steps = record.steps /\ UNCHANGED <<journal, raising>>
          /\ spot = "resetting" /\ spot' = "control"
      BY <2>0, <2>7, InTheLoop DEF Baseline!Reset, Records
    <3>2. Honest(record, Moved)'
      BY <2>3, <2>5, <3>1 DEF Honest
    <3> QED
      BY <2>1, <2>3, <2>4, <2>5, <3>1, <3>2 DEF BaselineInv, EpisodeInv
  <2>8. CASE Baseline!Count
    <3>1. record'.status = record.status /\ record'.success = record.success
          /\ record'.steps = record.steps + 1 /\ UNCHANGED <<journal, raising>>
          /\ spot = "stepped" /\ spot' = "counted"
      BY <2>0, <2>8, InTheLoop DEF Baseline!Count, Records
    <3>2. record.status = "NOT_RUN" /\ Moved.steps = journal + 1 /\ record.steps = journal
      BY <3>1 DEF BaselineInv, EpisodeInv
    <3>3. Honest(record, Moved)'
      BY <2>0, <2>3, <2>5, <3>1, <3>2, InTheLoop DEF Honest
    <3> QED
      BY <2>0, <2>1, <2>3, <2>4, <2>5, <3>1, <3>2, <3>3, InTheLoop DEF BaselineInv, EpisodeInv
  <2>9. CASE Baseline!TellReturned
    <3>1. UNCHANGED <<record, raising>> /\ journal' = journal + 1
          /\ spot = "counted" /\ spot' = "told"
      BY <2>9, Zenon DEF Baseline!TellReturned
    <3>2. Honest(record, Moved)'
      BY <2>3, <2>5, <3>1 DEF Honest
    <3> QED
      BY <2>0, <2>1, <2>3, <2>4, <2>5, <3>1, <3>2, InTheLoop DEF BaselineInv, EpisodeInv
  <2>10. CASE Baseline!Conclude
    <3>1. /\ spot = "told" /\ spot' = "concluded" /\ UNCHANGED <<raising, journal>>
          /\ Moved.success \/ Moved.over \/ record.steps = Cap
          /\ record' = [record EXCEPT !.status = Baseline!Outcome.status,
                                      !.success = Baseline!Outcome.success]
      BY <2>10, Zenon DEF Baseline!Conclude, Baseline!Now, Moved
    <3>2. record'.status = Baseline!Outcome.status /\ record'.success = Baseline!Outcome.success
          /\ record'.steps = record.steps
      BY <2>0, <3>1, InTheLoop DEF Records
    <3>3. record.steps > 0 /\ record.steps = Moved.steps /\ record.steps = journal
      BY <3>1 DEF BaselineInv, EpisodeInv
    <3>4. Baseline!Outcome = [status |-> "COMPLETED",
                              success |-> IF Moved.success THEN "True" ELSE "False"]
      BY <2>0, <2>5, <3>1, <3>3, InTheLoop DEF Baseline!Outcome, Baseline!Now, Moved
    <3>5. record'.status = "COMPLETED"
          /\ record'.success = IF Moved.success THEN "True" ELSE "False"
      BY <3>2, <3>4
    <3>6. Honest(record, Moved)'
      BY <2>0, <2>3, <3>1, <3>2, <3>3, <3>5, InTheLoop DEF Honest, Ended
    <3>7. ~raising
      BY <3>1 DEF BaselineInv, EpisodeInv
    <3> QED
      BY <2>0, <2>1, <2>3, <2>4, <3>1, <3>2, <3>3, <3>5, <3>6, <3>7, InTheLoop
      DEF EpisodeInv
  <2>11. CASE Baseline!CondemnEpisode
    <3>1. record'.status = "ERROR" /\ record'.success = "None"
          /\ record'.steps = record.steps /\ UNCHANGED journal /\ raising' = TRUE
          /\ spot = "erring" /\ spot' = "writing"
      BY <2>0, <2>11, InTheLoop DEF Baseline!CondemnEpisode, Records
    <3>2. Honest(record, Moved)'
      BY <2>0, <2>3, <3>1, InTheLoop DEF Honest
    <3> QED
      BY <2>0, <2>1, <2>3, <2>4, <3>1, <3>2, InTheLoop DEF EpisodeInv
  <2>12. CASE (Baseline!Raise \/ Baseline!Interrupt) /\ spot' \in InLoop
    <3>1. UNCHANGED <<record, journal>>
      BY <2>12, Zenon DEF Baseline!Raise, Baseline!Interrupt, Baseline!episode
    <3>2. Honest(record, Moved)'
      BY <2>3, <2>5, <3>1 DEF Honest
    <3>3. /\ spot' \in {"erring", "writing"}
          /\ spot' = "erring" => spot \in Baseline!InEpisode /\ raising' = raising
          /\ spot' = "writing" => raising' = TRUE
      <4>1. raising \in BOOLEAN
        BY DEF BaselineInv, LoopShape
      <4>2. CASE Baseline!Raise
        BY <2>12, <4>2 DEF Baseline!Raise, Baseline!episode, InLoop, Baseline!InEpisode
      <4>3. CASE Baseline!Interrupt
        BY <2>0, <2>12, <4>1, <4>3 DEF Baseline!Interrupt, InLoop, Baseline!InEpisode,
           Baseline!InMain
      <4> QED
        BY <2>12, <4>2, <4>3
    <3>4. spot' = "erring" => ~raising'
      BY <3>3 DEF BaselineInv, EpisodeInv
    <3> QED
      BY <2>0, <2>1, <2>3, <2>4, <2>5, <3>1, <3>2, <3>3, <3>4, InTheLoop DEF EpisodeInv
  <2> QED
    BY <1>4, <2>6, <2>7, <2>8, <2>9, <2>10, <2>11, <2>12
<1>5. CASE Baseline!WriteEpisode
  <2>1. /\ spot = "writing" /\ spot' = (IF raising THEN "failing" ELSE "returned")
        /\ UNCHANGED <<attempt, batch, draft, record>>
        /\ episodeFile' = [episodeFile EXCEPT ![attempt][record.id] = record]
    BY <1>5, Zenon DEF Baseline!WriteEpisode, Baseline!main, Baseline!episode
  <2>2. attempt \in Ran /\ record.id \in Worlds
    BY <2>1, InRun
  <2>3. episodeFile'[attempt][record.id] = record
    BY <2>1, <2>2 DEF BaselineInv, WorldShape
  <2>4. ~raising => record.status = "COMPLETED"
    BY <2>1 DEF BaselineInv, EpisodeInv
  <2>5. Listed' = Listed /\ Baseline!Batch(batch)' = Baseline!Batch(batch)
    BY <2>1 DEF Listed, Baseline!Batch
  <2>6. raising \in BOOLEAN /\ spot' \in {"failing", "returned"}
    BY <2>1 DEF BaselineInv, LoopShape
  <2> QED
    BY <2>1, <2>3, <2>4, <2>5, <2>6, InTheLoop DEF EpisodeInv
<1> QED
  <2>1. CASE Baseline!Interrupt /\ spot' \in InLoop \cup {"returned"}
    BY <1>4, <2>1 DEF Baseline!Interrupt, Baseline!InMain, BaselineInv, BaselineShape,
       BaselinePlaces, Rolling, Handling
  <2>2. CASE ~Baseline!Interrupt /\ spot' \in InLoop \cup {"returned"}
    BY <1>2, <1>3, <1>4, <1>5, <2>2 DEF Baseline!Next, Baseline!Launch, Baseline!VerifyAssets,
       Baseline!VerifyEgl, Baseline!Load, Baseline!Roll, Baseline!AppendEpisode,
       Baseline!Complete, Baseline!Leave, Baseline!HandleError, Baseline!CloseBackend,
       Baseline!WriteFinal, Baseline!Raise, Baseline!Kill
  <2> QED
    BY <1>1, <2>1, <2>2

(* Before the episode under way is over, what was played is listed or is it. *)
LEMMA PlayedSoFar ==
    ASSUME Baseline!NativeRunAssumption, BaselineInv, attempt > 0, NEW e \in Worlds,
           Baseline!Played(e)
    PROVE  /\ e \in Nat /\ e > 0 /\ e <= Listed + 1
           /\ spot \in {"assets", "egl", "loading", "loaded", "next", "completed"} =>
                e <= Listed
<1>1. e \in Nat /\ e > 0 /\ Listed \in Nat
  BY InRun DEF Worlds, Baseline!Episodes
<1>2. CASE episodeFile[attempt][e] # Baseline!NoRecord
  BY <1>1, <1>2 DEF BaselineInv, FutureInv, Handling
<1>3. CASE worlds[attempt][e] # Baseline!Untouched
  BY <1>1, <1>3 DEF BaselineInv, FutureInv
<1> QED
  BY <1>1, <1>2, <1>3, Zenon DEF Baseline!Played

(* Only the episode under way is played on. *)
LEMMA PlayedStays ==
    ASSUME Baseline!NativeRunAssumption, BaselineInv, Baseline!Next, ~Baseline!Launch,
           NEW e \in Worlds
    PROVE  /\ attempt' = attempt
           /\ \/ Baseline!Step \/ Baseline!WriteEpisode
              \/ /\ Baseline!Played(e)' <=> Baseline!Played(e)
                 /\ episodeFile' = episodeFile
<1>1. attempt' = attempt
  BY ListGoesOn
<1> QED
  BY <1>1, WhoMovesWorlds DEF Baseline!Played, Baseline!Untouched, Baseline!NoRecord

(* The error that comes to be handled finds the receipt of what was played. *)
LEMMA FailingFinds ==
    ASSUME Baseline!NativeRunAssumption, BaselineInv, Baseline!Next, ~Baseline!Launch,
           spot' = "failing", struck' # "writing", NEW e \in Worlds,
           Baseline!Played(e)', e > Listed'
    PROVE  episodeFile'[attempt'][e] # Baseline!NoRecord
<1>1. attempt' = attempt /\ spot # "ended" /\ attempt \in Ran /\ attempt > 0
  BY ListGoesOn, GoesTo, InRun DEF BaselineInv
<1>2. CASE Baseline!WriteEpisode
  <2>1. record.id \in Worlds /\ record \in Records /\ spot = "writing"
        /\ record.id = Listed + 1 /\ Listed' = Listed
    BY <1>2, InRun, InTheLoop DEF Baseline!WriteEpisode, InLoop, Baseline!main, Listed
  <2>2. e <= Listed + 1
    <3>1. CASE e = record.id
      BY <2>1, <3>1, InRun
    <3>2. CASE e # record.id
      <4>1. worlds'[attempt][e] = worlds[attempt][e] /\ episodeFile'[attempt][e] = episodeFile[attempt][e]
        BY <1>1, <1>2, <2>1, <3>2 DEF Baseline!WriteEpisode, BaselineInv, WorldShape
      <4>2. Baseline!Played(e)
        BY <1>1, <4>1 DEF Baseline!Played
      <4> QED
        BY <1>1, <4>2, PlayedSoFar
    <3> QED
      BY <3>1, <3>2
  <2>3. e = record.id
    BY <2>1, <2>2, InRun DEF Worlds, Baseline!Episodes
  <2>4. episodeFile'[attempt][e] = record
    BY <1>1, <1>2, <2>1, <2>3 DEF Baseline!WriteEpisode, BaselineInv, WorldShape
  <2>5. record.id # 0 /\ Baseline!NoRecord.id = 0
    BY <2>1, InRun DEF Baseline!NoRecord
  <2> QED
    BY <1>1, <2>4, <2>5
<1>3. CASE ~Baseline!WriteEpisode
  <2>1. \/ Baseline!Raise /\ spot \in {"assets", "egl", "loading"}
        \/ Baseline!Interrupt /\ spot \in Baseline!InMain \cup {"writing"} /\ struck' = spot
    <3>1. CASE Baseline!Interrupt
      BY <3>1 DEF Baseline!Interrupt, Baseline!InEpisode, BaselineInv, BaselineShape,
         BaselinePlaces, Rolling, InLoop, Handling, Baseline!InMain
    <3>2. CASE ~Baseline!Interrupt
      BY <1>3, <3>2 DEF Baseline!InEpisode, Baseline!Next, Baseline!VerifyAssets,
         Baseline!VerifyEgl, Baseline!Load, Baseline!Roll, Baseline!NextEpisode,
         Baseline!AppendEpisode, Baseline!Complete, Baseline!Leave, Baseline!HandleError,
         Baseline!CloseBackend, Baseline!WriteFinal, Baseline!Reset, Baseline!Infer,
         Baseline!Step, Baseline!Count, Baseline!TellReturned, Baseline!GoOn,
         Baseline!Conclude, Baseline!ToFinally, Baseline!CondemnEpisode, Baseline!Raise,
         Baseline!Kill
    <3> QED
      BY <3>1, <3>2
  <2>2. UNCHANGED <<draft, worlds, episodeFile>>
    BY <2>1, Zenon DEF Baseline!Raise, Baseline!Interrupt, Baseline!main
  <2>3. Baseline!Played(e) /\ e > Listed
    BY <1>1, <2>2 DEF Baseline!Played, Baseline!Untouched, Baseline!NoRecord, Listed
  <2>4. spot \in {"assets", "egl", "loading", "loaded", "next", "completed"} => e <= Listed
    BY <1>1, <2>3, PlayedSoFar
  <2>5. e \in Nat /\ Listed \in Nat /\ e <= Listed + 1
    BY <1>1, <2>3, PlayedSoFar, InRun
  <2>6. spot = "returned"
    BY <2>1, <2>3, <2>4, <2>5 DEF Baseline!InMain
  <2>7. e = record.id /\ episodeFile[attempt][e] = record /\ record.status = "COMPLETED"
    BY <2>3, <2>5, <2>6 DEF BaselineInv, EpisodeInv
  <2>8. Baseline!NoRecord.status = "absent"
    BY DEF Baseline!NoRecord
  <2> QED
    BY <1>1, <2>2, <2>7, <2>8
<1> QED
  BY <1>2, <1>3

LEMMA RescueKept ==
    ASSUME Baseline!NativeRunAssumption, BaselineInv, Baseline!Next
    PROVE  RescueInv'
<1>0. \A e \in Worlds : e \in Nat /\ e > 0
  BY InRun DEF Worlds, Baseline!Episodes
<1>1. CASE Baseline!Launch
  <2>1. /\ attempt' = attempt + 1 /\ attempt' \in Ran /\ spot' = "assets"
        /\ onDisk' = [onDisk EXCEPT ![attempt + 1] = draft'] /\ draft'.episodes = <<>>
        /\ UNCHANGED <<episodeFile, worlds>>
    BY <1>1, LaunchSays, NewReceiptSays DEF LaunchesRun
  <2>2. onDisk'[attempt'].episodes = draft'.episodes /\ Len(onDisk'[attempt'].episodes) = 0
    BY <2>1 DEF BaselineInv, BaselineReceiptShape
  <2>3. attempt' > attempt
    BY <2>1 DEF BaselineInv, BaselineShape, Baseline!NativeRunAssumption
  <2>4. \A e \in Worlds : ~Baseline!Played(e)'
    BY <2>1, <2>3 DEF BaselineInv, FutureInv, Baseline!Played, Baseline!Untouched,
       Baseline!NoRecord
  <2> QED
    BY <2>1, <2>2, <2>4 DEF RescueInv, NoneBeyond
<1>2. CASE ~Baseline!Launch
  <2>0. /\ attempt' = attempt /\ spot # "ended" /\ attempt \in Ran /\ attempt > 0
        /\ onDisk \in [Ran -> BaselineReceipts] /\ Listed \in Nat
    BY <1>2, ListGoesOn, GoesTo, InRun DEF BaselineInv, BaselineReceiptShape
  <2>1. /\ onDisk' = onDisk \/ onDisk'[attempt] = draft'
        /\ draft'.episodes # draft.episodes => \/ onDisk'[attempt] = draft'
                                              \/ Baseline!HandleError
    <3>1. Baseline!AppendEpisode => Baseline!Written(draft')
      BY Zenon DEF Baseline!AppendEpisode
    <3>2. Baseline!Written(draft') => onDisk'[attempt] = draft'
      BY <2>0 DEF Baseline!Written
    <3> QED
      BY <1>2, <3>1, <3>2, ListGoesOn
  <2>2. ASSUME NEW e \in Worlds, Baseline!Played(e)' PROVE e <= Listed' + 1
    <3>1. FutureInv' /\ Listed' \in Nat
      BY FutureKept, ReceiptShapeKept DEF BaselineReceiptShape, BaselineReceipts, Listed
    <3>2. CASE episodeFile'[attempt'][e] # Baseline!NoRecord
      BY <2>0, <3>1, <3>2 DEF FutureInv, Baseline!NoRecord
    <3>3. CASE worlds'[attempt'][e] # Baseline!Untouched
      <4>1. ~(e > Listed' + 1)
        BY <2>0, <3>1, <3>3 DEF FutureInv, Baseline!Untouched
      <4> QED
        BY <1>0, <3>1, <4>1
    <3> QED
      BY <2>2, <3>2, <3>3, Zenon DEF Baseline!Played, Baseline!Untouched, Baseline!NoRecord
  <2>3. doing' # "rollout" => NoneBeyond(0)'
    <3> SUFFICES ASSUME doing' # "rollout", NEW e \in Worlds, Baseline!Played(e)' PROVE e <= 0
      BY DEF NoneBeyond
    <3>1. doing # "rollout"
      BY <1>2 DEF BaselineInv, StageInv, Rolling, InLoop, Baseline!InEpisode, Baseline!Next,
         Baseline!main, Baseline!VerifyAssets, Baseline!VerifyEgl, Baseline!Load,
         Baseline!Roll, Baseline!NextEpisode, Baseline!AppendEpisode, Baseline!Complete,
         Baseline!Leave, Baseline!HandleError, Baseline!CloseBackend, Baseline!WriteFinal,
         Baseline!Reset, Baseline!Infer, Baseline!Step, Baseline!Count,
         Baseline!TellReturned, Baseline!GoOn, Baseline!Conclude, Baseline!ToFinally,
         Baseline!CondemnEpisode, Baseline!WriteEpisode, Baseline!Raise,
         Baseline!Interrupt, Baseline!Kill
    <3>2. ~Baseline!Step /\ ~Baseline!WriteEpisode
      BY <3>1 DEF BaselineInv, StageInv, Rolling, InLoop, Baseline!InEpisode, Baseline!Step,
         Baseline!WriteEpisode
    <3>3. Baseline!Played(e)
      BY <1>2, <3>2, PlayedStays
    <3> QED
      BY <2>0, <3>1, <3>3 DEF BaselineInv, RescueInv, NoneBeyond
  <2>4. spot' \notin {"closing", "finishing", "ended"} =>
          onDisk'[attempt'].episodes = draft'.episodes
    <3> SUFFICES ASSUME spot' \notin {"closing", "finishing", "ended"}
                 PROVE  onDisk'[attempt].episodes = draft'.episodes
      BY <2>0
    <3>1. spot \notin {"closing", "finishing", "ended"}
      BY <1>2, OnlyForward DEF BaselineInv
    <3>2. ~Baseline!HandleError
      BY DEF Baseline!HandleError
    <3>3. onDisk[attempt].episodes = draft.episodes
      BY <2>0, <3>1 DEF BaselineInv, RescueInv
    <3> QED
      BY <2>1, <3>2, <3>3
  <2>5. NoneBeyond(Len(onDisk[attempt].episodes) + 1)'
    <3> SUFFICES ASSUME NEW e \in Worlds, Baseline!Played(e)'
                 PROVE  e <= Len(onDisk'[attempt].episodes) + 1
      BY <2>0 DEF NoneBeyond
    <3>1. CASE onDisk'[attempt].episodes = draft'.episodes
      BY <2>2, <3>1 DEF Listed
    <3>2. CASE onDisk'[attempt].episodes # draft'.episodes
      <4>1. onDisk' = onDisk /\ spot' \in {"closing", "finishing", "ended"}
        BY <2>0, <2>1, <2>4, <3>2
      <4>2. ~Baseline!Step /\ ~Baseline!WriteEpisode
        BY <4>1 DEF Baseline!Step, Baseline!WriteEpisode
      <4>3. Baseline!Played(e)
        BY <1>2, <4>2, PlayedStays
      <4> QED
        BY <2>0, <4>1, <4>3 DEF BaselineInv, RescueInv, NoneBeyond
    <3> QED
      BY <3>1, <3>2
  <2>6. spot' = "failing" /\ struck' # "writing" =>
          \A e \in Worlds : Baseline!Played(e)' /\ e > Listed' =>
                            episodeFile'[attempt'][e] # Baseline!NoRecord
    BY <1>2, FailingFinds
  <2>7. ASSUME spot' \in {"closing", "finishing"}, struck' \notin {"writing", "failing"},
               NEW e \in Worlds, Baseline!Played(e)'
        PROVE  e <= Listed'
    <3>1. /\ \/ Baseline!HandleError /\ spot = "failing"
             \/ Baseline!Leave /\ spot = "completed" /\ UNCHANGED draft
             \/ Baseline!CloseBackend /\ spot = "closing" /\ UNCHANGED draft
             \/ Baseline!Interrupt /\ spot = "closing" /\ struck = "nowhere" /\ UNCHANGED draft
          /\ ~Baseline!Step /\ ~Baseline!WriteEpisode
      <4>1. CASE Baseline!Interrupt
        BY <2>7, <4>1 DEF Baseline!Interrupt, Baseline!InEpisode, Baseline!InMain,
           BaselineInv, BaselineShape, BaselinePlaces, Rolling, InLoop, Handling,
           Baseline!main, Baseline!Step, Baseline!WriteEpisode
      <4>2. CASE ~Baseline!Interrupt
        BY <1>2, <2>7, <4>2 DEF Baseline!InEpisode, Baseline!Next, Baseline!main,
           Baseline!VerifyAssets, Baseline!VerifyEgl, Baseline!Load, Baseline!Roll,
           Baseline!NextEpisode, Baseline!AppendEpisode, Baseline!Complete,
           Baseline!Leave, Baseline!HandleError, Baseline!CloseBackend,
           Baseline!WriteFinal, Baseline!Reset, Baseline!Infer, Baseline!Step,
           Baseline!Count, Baseline!TellReturned, Baseline!GoOn, Baseline!Conclude,
           Baseline!ToFinally, Baseline!CondemnEpisode, Baseline!WriteEpisode,
           Baseline!Raise, Baseline!Kill
      <4> QED
        BY <4>1, <4>2
    <3>2. Baseline!Played(e) /\ UNCHANGED episodeFile
      BY <1>2, <2>7, <3>1, PlayedStays
    <3>3. e \in Nat /\ e <= Listed + 1
      BY <2>0, <3>2, PlayedSoFar
    <3>4. CASE Baseline!HandleError
      <4>1. struck' = struck /\ doing' = doing
        BY <3>4, Zenon DEF Baseline!HandleError
      <4>2. doing = "rollout"
        BY <1>0, <2>0, <3>2 DEF BaselineInv, RescueInv, NoneBeyond
      <4>3. e > Listed => episodeFile[attempt][e] # Baseline!NoRecord
        BY <2>0, <2>7, <3>1, <3>2, <3>4, <4>1 DEF BaselineInv, RescueInv, Baseline!HandleError
      <4>4. Listed' \in Nat /\ Listed' >= Listed
        <5>1. draft.episodes \in Seq(Records)
          BY InRun
        <5> QED
          BY <2>0, <3>4, <5>1, HandledSays DEF Listed
      <4>5. CASE e > Listed
        BY <3>4, <4>2, <4>3, <4>5, HandledSays DEF Listed
      <4>6. CASE ~(e > Listed)
        BY <2>0, <3>3, <4>4, <4>6
      <4> QED
        BY <4>5, <4>6
    <3>5. CASE spot = "completed" /\ UNCHANGED draft
      BY <2>0, <3>2, <3>5, PlayedSoFar DEF Listed
    <3>6. CASE spot = "closing" /\ UNCHANGED draft
      <4>1. struck' = struck \/ struck = "nowhere"
        BY <2>7, WhoStrikes, <1>2
      <4>2. e <= Listed
        BY <2>0, <2>7, <3>2, <3>6, <4>1 DEF BaselineInv, RescueInv, NoneBeyond
      <4> QED
        BY <3>6, <4>2 DEF Listed
    <3> QED
      BY <3>1, <3>4, <3>5, <3>6
  <2>8. ASSUME spot' = "ended", struck' \notin Baseline!Losing, NEW e \in Worlds,
               Baseline!Played(e)'
        PROVE  e <= Len(onDisk'[attempt].episodes)
    <3>1. struck' # "killed"
      BY <2>8 DEF Baseline!Losing
    <3>2. Baseline!WriteFinal
      <4>1. CASE Baseline!Interrupt
        BY <2>8, <4>1 DEF Baseline!Interrupt, Baseline!InEpisode, Baseline!InMain,
           BaselineInv, BaselineShape, BaselinePlaces, Rolling, InLoop, Handling,
           Baseline!Losing
      <4>2. CASE ~Baseline!Interrupt
        BY <1>2, <2>8, <3>1, <4>2 DEF Baseline!InEpisode, Baseline!Next,
           Baseline!VerifyAssets, Baseline!VerifyEgl, Baseline!Load, Baseline!Roll,
           Baseline!NextEpisode, Baseline!AppendEpisode, Baseline!Complete,
           Baseline!Leave, Baseline!HandleError, Baseline!CloseBackend,
           Baseline!Reset, Baseline!Infer, Baseline!Step,
           Baseline!Count, Baseline!TellReturned, Baseline!GoOn, Baseline!Conclude,
           Baseline!ToFinally, Baseline!CondemnEpisode, Baseline!WriteEpisode,
           Baseline!Raise, Baseline!Kill
      <4> QED
        BY <4>1, <4>2
    <3>3. /\ spot = "finishing" /\ struck' = struck /\ Baseline!Written(draft)
          /\ ~Baseline!Step /\ ~Baseline!WriteEpisode
      BY <3>2 DEF Baseline!WriteFinal, Baseline!Step, Baseline!WriteEpisode
    <3>4. Baseline!Played(e)
      BY <1>2, <2>8, <3>3, PlayedStays
    <3>5. e <= Listed
      BY <2>0, <2>8, <3>3, <3>4 DEF BaselineInv, RescueInv, NoneBeyond, Baseline!Losing
    <3>6. onDisk'[attempt] = draft
      BY <2>0, <3>3 DEF Baseline!Written
    <3> QED
      BY <3>5, <3>6 DEF Listed
  <2>9. spot' \in {"closing", "finishing"} /\ struck' \notin {"writing", "failing"} =>
          NoneBeyond(Listed)'
    BY <2>7 DEF NoneBeyond
  <2>10. spot' = "ended" /\ struck' \notin Baseline!Losing =>
           NoneBeyond(Len(onDisk[attempt].episodes))'
    BY <2>0, <2>8 DEF NoneBeyond
  <2> QED
    BY <2>0, <2>3, <2>4, <2>5, <2>6, <2>9, <2>10 DEF RescueInv, Baseline!Losing
<1> QED
  BY <1>1, <1>2

LEMMA BaselineStarts ==
    ASSUME Baseline!NativeRunAssumption, Baseline!Init
    PROVE  BaselineInv
<1> USE DEF Baseline!NativeRunAssumption, Baseline!Init
<1>1. BaselineShape
  BY DEF BaselineShape, BaselinePlaces, Handling
<1>2. Baseline!NoReceipt \in BaselineReceipts /\ Baseline!NoReceipt.episodes = <<>>
      /\ Baseline!NoReceipt.rollout = "absent"
  BY DEF Baseline!NoReceipt, BaselineReceipts, Baseline!Statuses
<1>3. Baseline!NoRecord \in Records /\ Baseline!NoRecord.status = "absent"
  BY DEF Baseline!NoRecord, Records
<1>4. Baseline!Untouched \in Histories
  BY DEF Baseline!Untouched, Histories
<1>5. BaselineReceiptShape
  BY <1>2 DEF BaselineReceiptShape, Ran
<1>6. LoopShape
  <2>1. raising \in BOOLEAN
    BY Zenon
  <2> QED
    BY <1>3, <2>1 DEF LoopShape
<1>7. WorldShape
  BY <1>3, <1>4 DEF WorldShape, Ran, Worlds
<1>8. FutureInv
  BY <1>2, <1>3, <1>4 DEF FutureInv, Ran, Worlds
<1>9. StageInv
  BY <1>2 DEF StageInv, Listed, Rolling, InLoop, Baseline!InEpisode
<1>10. EpisodeInv
  BY DEF EpisodeInv, InLoop, Baseline!InEpisode
<1>11. EpisodeFilesInv
  BY <1>3 DEF EpisodeFilesInv, Honest, Ran, Worlds
<1>12. ListsInv
  BY <1>2 DEF ListsInv, IsOf, Listed, Ran, Baseline!Batch
<1>13. CompletionInv /\ RescueInv /\ Baseline!SmokeCameFirst
  BY <1>2 DEF CompletionInv, RescueInv, Baseline!SmokeCameFirst
<1> QED
  BY <1>1, <1>5, <1>6, <1>7, <1>8, <1>9, <1>10, <1>11, <1>12, <1>13 DEF BaselineInv

LEMMA BaselineKept ==
    ASSUME Baseline!NativeRunAssumption, BaselineInv, [Baseline!Next]_(Baseline!vars)
    PROVE  BaselineInv'
<1>1. CASE Baseline!Next
  BY <1>1, BaselineShapeKept, ReceiptShapeKept, LoopShapeKept, WorldShapeKept, FutureKept,
     StageKept, EpisodeKept, FilesKept, ListsKept, CompletionKept, RescueKept, SmokeKept
  DEF BaselineInv
<1>2. CASE UNCHANGED Baseline!vars
  <2>1. UNCHANGED <<attempt, batch, spot, struck, doing, draft, record, actions, raising,
                    journal, onDisk, episodeFile, worlds>>
    BY <1>2, Zenon DEF Baseline!vars, Baseline!main, Baseline!episode
  <2>2. BaselineShape' = BaselineShape
    BY <2>1, Zenon DEF BaselineShape
  <2>3. BaselineReceiptShape' = BaselineReceiptShape
    BY <2>1, Zenon DEF BaselineReceiptShape
  <2>4. LoopShape' = LoopShape
    BY <2>1, Zenon DEF LoopShape
  <2>5. WorldShape' = WorldShape
    BY <2>1, Zenon DEF WorldShape
  <2>6. FutureInv' = FutureInv
    BY <2>1, Zenon DEF FutureInv, Listed, Baseline!Batch
  <2>7. StageInv' = StageInv
    BY <2>1, Zenon DEF StageInv, Listed
  <2>8. EpisodeInv' = EpisodeInv
    BY <2>1, Zenon DEF EpisodeInv, Listed, Moved, Honest, Ended, Baseline!Batch
  <2>9. EpisodeFilesInv' = EpisodeFilesInv
    BY <2>1, Zenon DEF EpisodeFilesInv, Honest, Ended
  <2>10. ListsInv' = ListsInv
    BY <2>1, Zenon DEF ListsInv, IsOf, Listed, Baseline!Batch
  <2>11. CompletionInv' = CompletionInv
    BY <2>1, Zenon DEF CompletionInv, Whole, Baseline!Batch
  <2>12. RescueInv' = RescueInv
    BY <2>1, Zenon DEF RescueInv, NoneBeyond, Listed, Baseline!Played
  <2>13. Baseline!SmokeCameFirst' = Baseline!SmokeCameFirst
    BY <2>1, Zenon DEF Baseline!SmokeCameFirst
  <2> QED
    BY <2>2, <2>3, <2>4, <2>5, <2>6, <2>7, <2>8, <2>9, <2>10, <2>11, <2>12, <2>13, Zenon
    DEF BaselineInv
<1> QED
  BY <1>1, <1>2

(* What the receipts promise. *)
LEMMA BaselineSays ==
    ASSUME Baseline!NativeRunAssumption, BaselineInv
    PROVE  /\ Baseline!TypeOK /\ Baseline!CompletedIsComplete /\ Baseline!VerdictIsTrue
           /\ Baseline!CutShortIsUndecided /\ Baseline!ListedOnce /\ Baseline!NothingIsLost
           /\ Baseline!SmokeCameFirst
<1>1. Baseline!TypeOK
  <2>1. \A f \in {"readiness", "model", "rollout"} : draft[f] \in Baseline!Statuses
    BY DEF BaselineInv, BaselineReceiptShape, BaselineReceipts
  <2>2. record.status \in Baseline!Statuses \ {"INCOMPLETE"} /\ record.steps \in 0..Cap
    BY DEF BaselineInv, LoopShape, Records, Baseline!Statuses
  <2> QED
    BY <2>1, <2>2 DEF BaselineInv, BaselineShape, LoopShape, Baseline!TypeOK
<1>2. Baseline!CompletedIsComplete
  <2> SUFFICES ASSUME attempt > 0, onDisk[attempt].rollout = "COMPLETED"
               PROVE  /\ onDisk[attempt].model = "PASS"
                      /\ Len(onDisk[attempt].episodes) =
                           IF batch = "smoke" THEN 1 ELSE Development
                      /\ \A i \in DOMAIN onDisk[attempt].episodes :
                           /\ onDisk[attempt].episodes[i].id = i
                           /\ onDisk[attempt].episodes[i].status = "COMPLETED"
                      /\ onDisk[attempt].successes =
                           Baseline!Cardinality({e \in Baseline!Episodes :
                                                   worlds[attempt][e].success})
    BY Zenon DEF Baseline!CompletedIsComplete
  <2>1. Whole(onDisk[attempt])
    BY DEF BaselineInv, CompletionInv
  <2>2. attempt \in Ran
    BY DEF BaselineInv, BaselineShape, Ran, Baseline!Runs, Baseline!NativeRunAssumption
  <2>3. IsOf(onDisk[attempt].episodes, attempt)
    BY <2>2 DEF BaselineInv, ListsInv
  <2>4. Cardinality({e \in Worlds : worlds[attempt][e].success}) =
          Baseline!Cardinality({e \in Baseline!Episodes : worlds[attempt][e].success})
    BY Zenon DEF Cardinality, Baseline!Cardinality, Worlds
  <2> QED
    BY <2>1, <2>3, <2>4, Zenon DEF Whole, IsOf, Baseline!Batch
<1>3. Baseline!VerdictIsTrue
  BY DEF BaselineInv, EpisodeFilesInv, Honest, Ended, Ran, Worlds, Baseline!VerdictIsTrue
<1>4. Baseline!CutShortIsUndecided
  <2>1. \A r \in Ran, e \in Worlds :
          episodeFile[r][e].status \in {"ERROR", "NOT_RUN"} =>
            /\ episodeFile[r][e].success = "None"
            /\ worlds[r][e].steps - episodeFile[r][e].steps \in {0, 1}
    BY DEF BaselineInv, EpisodeFilesInv, Honest
  <2>2. spot \in InLoop =>
          Moved.steps - journal \in {0, 1} /\ record.steps - journal \in {0, 1}
    BY InTheLoop
  <2> QED
    BY <2>1, <2>2, Zenon DEF Baseline!CutShortIsUndecided, Ran, Worlds, InLoop, Moved,
       Baseline!Now
<1>5. Baseline!ListedOnce
  <2> SUFFICES ASSUME NEW r \in Ran, NEW i \in DOMAIN onDisk[r].episodes
               PROVE  /\ onDisk[r].episodes[i] = episodeFile[r][onDisk[r].episodes[i].id]
                      /\ \A j \in DOMAIN onDisk[r].episodes :
                           onDisk[r].episodes[i].id = onDisk[r].episodes[j].id => i = j
    BY Zenon DEF Baseline!ListedOnce, Ran
  <2>1. IsOf(onDisk[r].episodes, r)
    BY DEF BaselineInv, ListsInv
  <2> QED
    BY <2>1, Zenon DEF IsOf
<1>6. Baseline!NothingIsLost
  <2> SUFFICES ASSUME spot = "ended", attempt > 0, NEW e \in Worlds, Baseline!Played(e),
                      \A i \in DOMAIN onDisk[attempt].episodes :
                         onDisk[attempt].episodes[i].id # e
               PROVE  struck \in Baseline!Losing /\ e = Len(onDisk[attempt].episodes) + 1
    BY Zenon DEF Baseline!NothingIsLost, Worlds
  <2> DEFINE list == onDisk[attempt].episodes
  <2>1. attempt \in Ran
    BY DEF BaselineInv, BaselineShape, Ran, Baseline!Runs, Baseline!NativeRunAssumption
  <2>2. list \in Seq(Records) /\ \A i \in DOMAIN list : list[i].id = i
    BY <2>1 DEF BaselineInv, BaselineReceiptShape, BaselineReceipts, ListsInv, IsOf
  <2>3. e \in Nat /\ e > 0
    BY InRun DEF Worlds, Baseline!Episodes
  <2>4. e > Len(list)
    <3> SUFFICES ASSUME e <= Len(list) PROVE FALSE
      BY <2>2, <2>3
    <3>1. e \in DOMAIN list
      BY <2>2, <2>3
    <3> QED
      BY <2>2, <3>1
  <2>5. e <= Len(list) + 1
    BY DEF BaselineInv, RescueInv, NoneBeyond
  <2>6. struck \notin Baseline!Losing => e <= Len(list)
    BY DEF BaselineInv, RescueInv, NoneBeyond
  <2> QED
    BY <2>2, <2>3, <2>4, <2>5, <2>6
<1> QED
  BY <1>1, <1>2, <1>3, <1>4, <1>5, <1>6 DEF BaselineInv

(* Every receipt a baseline run leaves is true of the episodes it played:    *)
(* completed means complete, a verdict is the world's, an episode cut short  *)
(* has none, none is listed twice, no development run comes before a smoke   *)
(* run that stepped its world, and an episode that was played is missing     *)
(* only when it was the one under way and the run was killed, or hit by the  *)
(* signal in the finally, the except or the final write (Losing).            *)
THEOREM ReceiptsTellTheTruth ==
    ASSUME Baseline!NativeRunAssumption
    PROVE  Baseline!Spec =>
             [](/\ Baseline!TypeOK /\ Baseline!CompletedIsComplete /\ Baseline!VerdictIsTrue
                /\ Baseline!CutShortIsUndecided /\ Baseline!ListedOnce
                /\ Baseline!NothingIsLost /\ Baseline!SmokeCameFirst)
<1>1. Baseline!Init => BaselineInv
  BY BaselineStarts
<1>2. BaselineInv /\ [Baseline!Next]_(Baseline!vars) => BaselineInv'
  BY BaselineKept
<1>3. BaselineInv => /\ Baseline!TypeOK /\ Baseline!CompletedIsComplete
                     /\ Baseline!VerdictIsTrue /\ Baseline!CutShortIsUndecided
                     /\ Baseline!ListedOnce /\ Baseline!NothingIsLost /\ Baseline!SmokeCameFirst
  BY BaselineSays
<1> QED
  BY <1>1, <1>2, <1>3, PTL DEF Baseline!Spec

-----------------------------------------------------------------------------
(* One execution of a language-conditioned task *)

CONSTANTS MaxSteps, Interval
VARIABLES interruptAt, place, execution, obs, boundary, physical, oracle, checks
Run == INSTANCE Execution WITH Chunk <- Interval, pc <- place, run <- execution

Executions(statuses) ==
    [status : statuses, steps : 0..MaxSteps, revision : 0..1, recoveries : 0..1,
     pending : Seq(Nat), chunkRevision : {-1, 0, 1}]
Statuses == {"accepted", "executing", "interrupted"} \cup Run!Final
Identities == [id : Nat, rev : 0..1]
Returns == [event : {"step_returned"}, step : Nat]
Scored == [event : {"scored_step"}, step : Nat, obs : Identities, success : BOOLEAN]
Refreshing == [event : {"refresh_identity"}, step : Nat, obs : Identities]
Rulings == [step : Nat, obs : Identities, decision : Run!Verdicts]

ExecutionShape ==
    /\ interruptAt \in 0..MaxSteps
    /\ place \in {"start", "loop", "interrupt", "check", "end"}
    /\ execution \in Executions(Statuses)
    /\ Len(execution.pending) <= Interval
    /\ obs \in Identities /\ obs.rev <= execution.revision
    /\ boundary \in BOOLEAN /\ physical \in Nat
JournalShape == oracle \in Seq(Returns \cup Scored \cup Refreshing) /\ checks \in Seq(Rulings)

(* What the place in the loop says of the status, and the status of the      *)
(* budget, the boundary and the one interruption.                            *)
Running == execution.status \in {"accepted", "executing"}
StatusInv ==
    /\ place = "start" => /\ execution.status = "accepted" /\ execution.pending = <<>>
                          /\ checks = <<>> /\ oracle = <<>>
    /\ place \in {"start", "loop"} => execution.status # "interrupted"
    /\ place = "interrupt" => execution.status = "executing" /\ ~boundary
    /\ place = "check" => execution.status \in {"executing", "interrupted"}
    /\ place = "end" => execution.status \in Run!Final
    /\ execution.status = "ERROR" => place = "end"
    /\ place \in {"start", "loop"} /\ Running => execution.steps < MaxSteps /\ ~boundary
RecoveryInv ==
    /\ execution.recoveries <= execution.revision
    /\ execution.revision = 1 /\ Running => execution.recoveries = 1
    /\ execution.status = "interrupted" => execution.revision = 1 /\ execution.recoveries = 0
PaidInv ==
    /\ Run!PaidControls
    /\ execution.status # "ERROR" => physical = execution.steps

(* No multiple of the interval was passed without a verdict.                 *)
NoneSkipped(q) ==
    /\ q * Interval <= Run!LastChecked /\ Run!LastChecked <= execution.steps
    /\ execution.steps <= q * Interval + Interval
    /\ place \in {"start", "loop"} => execution.steps < q * Interval + Interval
IntervalInv == \E q \in Nat : NoneSkipped(q)

(* The journal counts the controls, and every verdict is of a state in it.   *)
JournalInv ==
    execution.status # "ERROR" =>
        /\ Cardinality(Run!Places("step_returned")) = physical
        /\ Cardinality(Run!Places("scored_step")) = physical
        /\ {r.step : r \in Run!Rows("scored_step")} = 1..physical
IdentityInv ==
    /\ \A n \in DOMAIN oracle : oracle[n].event # "step_returned" => oracle[n].obs.id <= obs.id
    /\ \A i \in DOMAIN checks : checks[i].obs.id <= obs.id /\ Run!Identity(checks[i])
    /\ place \in {"interrupt", "check"} =>
         Run!Identity([step |-> execution.steps, obs |-> obs])

(* What is left of a chunk was planned after the last verdict and the last   *)
(* refresh, and the loop goes on only after "incomplete".                    *)
PlanInv == \A k \in DOMAIN execution.pending : Run!MadeSince(execution.pending[k])
VerdictInv ==
    /\ place \in {"start", "loop"} /\ Running =>
         checks = <<>> \/ Run!Last(checks).decision = "incomplete"
    /\ execution.status = "complete" =>
         /\ checks # <<>> /\ Run!Last(checks).decision = "complete"
         /\ Run!Last(checks).obs = obs /\ Run!Last(checks).step = physical

ExecutionInv ==
    /\ ExecutionShape /\ JournalShape /\ StatusInv /\ RecoveryInv /\ PaidInv
    /\ IntervalInv /\ JournalInv /\ IdentityInv /\ PlanInv /\ VerdictInv

-----------------------------------------------------------------------------
(* The steps, and what each leaves of the execution. *)

(* A call has raised: in its own place, after the checker has answered, or   *)
(* while the control was made.                                               *)
FailsAt ==
    /\ place # "end" /\ execution' = [execution EXCEPT !.pending = <<>>, !.status = "ERROR"]
    /\ UNCHANGED <<physical, oracle>>
    /\ \/ UNCHANGED checks
       \/ \E decision \in Run!Verdicts :
            /\ place = "check"
            /\ checks' = Append(checks, [step |-> execution.steps, obs |-> obs,
                                         decision |-> decision])
FailsMoving ==
    /\ place = "loop" /\ Run!Authorized
    /\ execution' = [Run!Taken EXCEPT !.status = "ERROR", !.pending = <<>>]
    /\ UNCHANGED checks
    /\ \/ UNCHANGED <<physical, oracle>>
       \/ /\ physical' = physical + 1
          /\ oracle' \in {oracle, Append(oracle, Run!StepReturned(physical'))}
Fails ==
    /\ place' = "end" /\ UNCHANGED <<interruptAt, obs, boundary>>
    /\ FailsAt \/ FailsMoving
Accepts ==
    /\ place = "start" /\ place' = "loop"
    /\ obs' = Run!Project
    /\ UNCHANGED <<interruptAt, execution, boundary, physical, oracle, checks>>
Plans ==
    /\ place = "loop" /\ Run!Continues /\ execution.pending = <<>> /\ Run!Current(obs)
    /\ execution' = [execution EXCEPT !.pending = [k \in 1..Interval |-> obs.id],
                                      !.chunkRevision = execution.revision,
                                      !.status = "executing"]
    /\ UNCHANGED <<interruptAt, place, obs, boundary, physical, oracle, checks>>
Moves(success) ==
    /\ place = "loop" /\ Run!Authorized
    /\ execution' = Run!Taken
    /\ physical' = physical + 1
    /\ obs' = Run!Project
    /\ boundary' \in BOOLEAN
    /\ oracle' = oracle \o <<Run!StepReturned(physical'),
                             Run!ScoredStep(physical', obs', success)>>
    /\ LET interrupted == interruptAt = execution'.steps /\ ~boundary'
       IN  place' = IF interrupted THEN "interrupt"
                    ELSE IF Run!MustCheck(interrupted, boundary') THEN "check"
                    ELSE "loop"
    /\ UNCHANGED <<interruptAt, checks>>
Turns ==
    /\ place = "interrupt" /\ place' = "check"
    /\ execution.status = "executing" /\ execution.recoveries = 0
    /\ execution' = Run!Interrupted
    /\ obs' = Run!Project
    /\ oracle' = Append(oracle, Run!Refreshed(physical, obs'))
    /\ UNCHANGED <<interruptAt, boundary, physical, checks>>
Rules(decision) ==
    /\ place = "check" /\ place' = "loop"
    /\ checks' = Append(checks, [step |-> execution.steps, obs |-> obs,
                                 decision |-> decision])
    /\ Run!Judge(decision)
    /\ UNCHANGED <<interruptAt, obs, boundary, physical, oracle>>
Leaves ==
    /\ place = "loop" /\ ~Run!Continues /\ place' = "end"
    /\ UNCHANGED <<interruptAt, execution, obs, boundary, physical, oracle, checks>>

LEMMA ExecutionSteps ==
    ASSUME [Run!Next]_(Run!vars)
    PROVE  \/ Fails \/ Accepts \/ Plans \/ (\E success \in BOOLEAN : Moves(success)) \/ Turns
           \/ (\E decision \in Run!Verdicts : Rules(decision)) \/ Leaves
           \/ UNCHANGED Run!vars
<1>1. CASE Run!Start
  BY <1>1, Zenon DEF Run!Start, Run!Fail, Fails, FailsAt, Accepts
<1>2. CASE Run!Infer
  BY <1>2, Zenon DEF Run!Infer, Run!Fail, Fails, FailsAt, Plans
<1>3. CASE Run!Control
  BY <1>3, Zenon DEF Run!Control, Run!Fail, Fails, FailsAt, FailsMoving, Moves
<1>4. CASE Run!Interrupt
  BY <1>4, Zenon DEF Run!Interrupt, Run!Fail, Fails, FailsAt, Turns
<1>5. CASE Run!Check
  BY <1>5, Zenon DEF Run!Check, Run!Fail, Fails, FailsAt, Rules
<1>6. CASE Run!End
  BY <1>6, Zenon DEF Run!End, Leaves
<1>7. CASE Run!Returned \/ UNCHANGED Run!vars
  BY <1>7, Zenon DEF Run!Returned
<1> QED
  BY <1>1, <1>2, <1>3, <1>4, <1>5, <1>6, <1>7, Zenon DEF Run!Next

LEMMA NothingPending == <<>> \in Seq(Nat) /\ Len(<<>>) = 0
OBVIOUS

LEMMA FailingSays ==
    ASSUME Run!BudgetAssumption, ExecutionShape, Fails
    PROVE  /\ execution'.status = "ERROR" /\ execution'.pending = <<>>
           /\ execution'.revision = execution.revision
           /\ execution'.recoveries = execution.recoveries
           /\ execution' \in Executions({"ERROR"})
           /\ execution'.steps = execution.steps + (IF FailsAt THEN 0 ELSE 1)
           /\ physical' \in {physical, physical + 1}
           /\ FailsAt => UNCHANGED <<physical, oracle>>
           /\ ~FailsAt => UNCHANGED checks /\ Run!Authorized /\ place = "loop"
<1>0. execution \in Executions(Statuses) /\ MaxSteps \in Nat
  BY DEF ExecutionShape, Run!BudgetAssumption
<1>1. CASE FailsAt
  <2>1. execution' = [execution EXCEPT !.pending = <<>>, !.status = "ERROR"]
        /\ UNCHANGED <<physical, oracle>>
    BY <1>1 DEF FailsAt
  <2>2. execution'.steps = execution.steps + 0
    BY <1>0, <2>1 DEF Executions
  <2> QED
    BY <1>0, <1>1, <2>1, <2>2, NothingPending DEF Executions
<1>2. CASE ~FailsAt
  <2>1. FailsMoving
    BY <1>2 DEF Fails
  <2>2. execution' = [execution EXCEPT !.steps = @ + 1, !.pending = <<>>, !.status = "ERROR"]
    BY <1>0, <2>1 DEF FailsMoving, Run!Taken, Executions
  <2>3. execution.steps + 1 \in 0..MaxSteps
    BY <1>0, <2>1 DEF FailsMoving, Run!Authorized, Executions
  <2>4. UNCHANGED checks /\ Run!Authorized /\ place = "loop"
        /\ physical' \in {physical, physical + 1}
    BY <2>1 DEF FailsMoving
  <2>5. execution' \in Executions({"ERROR"})
    BY <1>0, <2>2, <2>3, NothingPending DEF Executions
  <2>6. execution'.status = "ERROR" /\ execution'.pending = <<>>
        /\ execution'.revision = execution.revision
        /\ execution'.recoveries = execution.recoveries
        /\ execution'.steps = execution.steps + 1
    BY <1>0, <2>2 DEF Executions
  <2> QED
    BY <1>2, <2>4, <2>5, <2>6
<1> QED
  BY <1>1, <1>2

LEMMA PlanningSays ==
    ASSUME Run!BudgetAssumption, ExecutionShape, Plans
    PROVE  /\ execution'.status = "executing"
           /\ execution'.pending = [k \in 1..Interval |-> obs.id]
           /\ execution'.revision = execution.revision
           /\ execution'.recoveries = execution.recoveries
           /\ execution'.steps = execution.steps
           /\ execution' \in Executions({"executing"})
           /\ Len(execution'.pending) = Interval
<1>1. [k \in 1..Interval |-> obs.id] \in Seq(Nat)
      /\ Len([k \in 1..Interval |-> obs.id]) = Interval
  BY DEF ExecutionShape, Identities, Run!BudgetAssumption
<1>2. execution \in Executions(Statuses)
  BY DEF ExecutionShape
<1>3. execution' = [execution EXCEPT !.pending = [k \in 1..Interval |-> obs.id],
          !.chunkRevision = execution.revision, !.status = "executing"]
  BY DEF Plans
<1>4. execution.revision \in {-1, 0, 1}
  BY <1>2 DEF Executions
<1> HIDE DEF Plans
<1>5. execution' \in Executions({"executing"})
  BY <1>1, <1>2, <1>3, <1>4 DEF Executions
<1>6. execution'.pending = [k \in 1..Interval |-> obs.id]
  BY <1>2, <1>3, Zenon DEF Executions
<1> QED
  BY <1>1, <1>2, <1>3, <1>5, <1>6, Zenon DEF Executions

LEMMA MovingSays ==
    ASSUME Run!BudgetAssumption, ExecutionShape, NEW success \in BOOLEAN, Moves(success)
    PROVE  /\ execution.status = "executing" /\ execution'.status = "executing"
           /\ execution.pending # <<>> /\ execution'.pending = Tail(execution.pending)
           /\ execution'.revision = execution.revision
           /\ execution'.recoveries = execution.recoveries
           /\ execution.steps < MaxSteps /\ execution'.steps = execution.steps + 1
           /\ execution' \in Executions({"executing"})
           /\ Len(execution'.pending) = Len(execution.pending) - 1
           /\ obs' = [id |-> obs.id + 1, rev |-> execution.revision]
<1>1. Tail(execution.pending) \in Seq(Nat)
      /\ Len(Tail(execution.pending)) = Len(execution.pending) - 1
  BY DEF Moves, ExecutionShape, Executions, Run!Authorized
<1>2. execution \in Executions(Statuses) /\ MaxSteps \in Nat
  BY DEF ExecutionShape, Run!BudgetAssumption
<1>3. execution.status = "executing" /\ execution.pending # <<>> /\ execution.steps < MaxSteps
  BY DEF Moves, Run!Authorized
<1>4. execution' = [execution EXCEPT !.steps = @ + 1, !.pending = Tail(execution.pending)]
  BY <1>2 DEF Moves, Run!Taken, Executions
<1>5. execution.steps + 1 \in 0..MaxSteps
  BY <1>2, <1>3 DEF Executions
<1>6. execution' \in Executions({"executing"}) /\ execution'.steps = execution.steps + 1
      /\ execution'.pending = Tail(execution.pending)
      /\ execution'.revision = execution.revision
      /\ execution'.recoveries = execution.recoveries
  BY <1>1, <1>2, <1>3, <1>4, <1>5 DEF Executions
<1>7. obs' = [id |-> obs.id + 1, rev |-> execution.revision]
  BY <1>6 DEF Moves, Run!Project
<1> QED
  BY <1>1, <1>3, <1>6, <1>7 DEF Executions

LEMMA TurningSays ==
    ASSUME Run!BudgetAssumption, ExecutionShape, RecoveryInv, Turns
    PROVE  /\ execution'.status = "interrupted" /\ execution'.pending = <<>>
           /\ execution.revision = 0 /\ execution'.revision = 1
           /\ execution.recoveries = 0 /\ execution'.recoveries = 0
           /\ execution'.steps = execution.steps
           /\ execution' \in Executions({"interrupted"})
           /\ obs' = [id |-> obs.id + 1, rev |-> 1]
<1>1. execution \in Executions(Statuses)
  BY DEF ExecutionShape
<1>2. execution.revision = 0 /\ execution.recoveries = 0
  BY <1>1 DEF Turns, RecoveryInv, Running, Executions
<1>3. execution' = [execution EXCEPT !.pending = <<>>, !.chunkRevision = -1, !.revision = 1,
                                     !.status = "interrupted"]
  BY <1>2 DEF Turns, Run!Interrupted
<1>4. execution'.revision = 1
  BY <1>1, <1>3 DEF Executions
<1>5. obs' = [id |-> obs.id + 1, rev |-> 1]
  BY <1>4 DEF Turns, Run!Project
<1> HIDE DEF Turns
<1>6. execution' \in Executions({"interrupted"})
  <2>1. -1 \in {-1, 0, 1} /\ 1 \in 0..1
    OBVIOUS
  <2> QED
    BY <1>1, <1>3, <2>1, NothingPending DEF Executions
<1>7. execution'.status = "interrupted" /\ execution'.pending = <<>>
      /\ execution'.recoveries = execution.recoveries /\ execution'.steps = execution.steps
  BY <1>1, <1>3 DEF Executions
<1> QED
  BY <1>2, <1>4, <1>5, <1>6, <1>7

LEMMA RulingSays ==
    ASSUME Run!BudgetAssumption, ExecutionShape, RecoveryInv, StatusInv,
           NEW decision \in Run!Verdicts, Rules(decision)
    PROVE  /\ execution'.status = Run!Verdict(decision)
           /\ execution'.status \in {"executing"} \cup (Run!Final \ {"ERROR"})
           /\ execution'.pending = <<>>
           /\ execution'.revision = execution.revision
           /\ execution'.recoveries = IF execution'.status = "executing"
                                         /\ execution.status = "interrupted" THEN 1
                                      ELSE execution.recoveries
           /\ execution'.steps = execution.steps
           /\ execution' \in Executions({"executing"} \cup Run!Final)
<1> DEFINE verdict == Run!Verdict(decision)
<1>1. verdict \in {"executing"} \cup (Run!Final \ {"ERROR"})
  BY DEF Run!Verdict, Run!Verdicts, Run!Final, ExecutionShape
<1> HIDE DEF verdict
<1>2. execution' = [execution EXCEPT !.pending = <<>>, !.chunkRevision = -1, !.status = verdict,
          !.recoveries = @ + (IF Run!Recovers(decision) THEN 1 ELSE 0)]
  BY Zenon DEF Rules, Run!Judge, verdict
<1>3. Run!Recovers(decision) <=> verdict = "executing" /\ execution.status = "interrupted"
  BY Zenon DEF Run!Recovers, verdict
<1>4. execution \in Executions(Statuses)
  BY DEF ExecutionShape
<1>5. execution.status = "interrupted" => execution.recoveries = 0
  BY DEF RecoveryInv
<1>6. execution.recoveries + (IF Run!Recovers(decision) THEN 1 ELSE 0)
        = IF verdict = "executing" /\ execution.status = "interrupted" THEN 1
          ELSE execution.recoveries
  BY <1>3, <1>4, <1>5 DEF Executions
<1> DEFINE recoveries == IF verdict = "executing" /\ execution.status = "interrupted" THEN 1
                         ELSE execution.recoveries
<1>7. recoveries \in 0..1 /\ verdict \in {"executing"} \cup Run!Final
  BY <1>1, <1>4 DEF Executions
<1>8. execution' = [execution EXCEPT !.pending = <<>>, !.chunkRevision = -1, !.status = verdict,
                                     !.recoveries = recoveries]
  BY <1>2, <1>6
<1> HIDE DEF recoveries
<1>9. execution' \in Executions({"executing"} \cup Run!Final) /\ execution'.status = verdict
      /\ execution'.pending = <<>> /\ execution'.revision = execution.revision
      /\ execution'.steps = execution.steps /\ execution'.recoveries = recoveries
  BY <1>4, <1>7, <1>8, NothingPending DEF Executions
<1> QED
  BY <1>1, <1>9 DEF recoveries, verdict

-----------------------------------------------------------------------------
(* The invariants one by one. *)

LEMMA ExecutionShapeKept ==
    ASSUME Run!BudgetAssumption, ExecutionShape, StatusInv, RecoveryInv, [Run!Next]_(Run!vars)
    PROVE  ExecutionShape'
<1>0. /\ interruptAt \in 0..MaxSteps /\ execution \in Executions(Statuses)
      /\ place \in {"start", "loop", "interrupt", "check", "end"}
      /\ Len(execution.pending) <= Interval /\ obs \in Identities
      /\ obs.rev <= execution.revision /\ boundary \in BOOLEAN /\ physical \in Nat
      /\ Interval \in Nat
  BY DEF ExecutionShape, Run!BudgetAssumption
<1>a. \A S : execution' \in Executions(S) /\ S \subseteq Statuses
             => execution' \in Executions(Statuses)
  BY Zenon DEF Executions
<1>b. {"ERROR"} \subseteq Statuses /\ {"executing"} \subseteq Statuses
      /\ {"interrupted"} \subseteq Statuses /\ {"executing"} \cup Run!Final \subseteq Statuses
  BY DEF Statuses, Run!Final
<1>1. CASE Fails
  BY <1>0, <1>1, <1>a, <1>b, FailingSays, NothingPending DEF Fails, ExecutionShape
<1>2. CASE Accepts
  <2>1. obs' = [id |-> obs.id + 1, rev |-> execution.revision]
    BY <1>2 DEF Accepts, Run!Project
  <2>2. execution.revision \in 0..1
    BY <1>0 DEF Executions
  <2>3. obs' \in Identities /\ obs'.rev = execution.revision
    BY <1>0, <2>1, <2>2 DEF Identities
  <2> QED
    BY <1>0, <1>2, <2>2, <2>3 DEF Accepts, ExecutionShape
<1>3. CASE Plans
  <2>1. UNCHANGED <<interruptAt, place, obs, boundary, physical>>
    BY <1>3 DEF Plans
  <2> QED
    BY <1>0, <1>3, <1>a, <1>b, <2>1, PlanningSays DEF ExecutionShape
<1>4. ASSUME NEW success \in BOOLEAN, Moves(success) PROVE ExecutionShape'
  <2>1. UNCHANGED interruptAt /\ boundary' \in BOOLEAN /\ physical' = physical + 1
        /\ place' \in {"interrupt", "check", "loop"}
    BY <1>4 DEF Moves
  <2>2. /\ execution' \in Executions({"executing"})
        /\ Len(execution'.pending) = Len(execution.pending) - 1
        /\ execution'.revision = execution.revision
        /\ obs' = [id |-> obs.id + 1, rev |-> execution.revision]
    BY <1>4, MovingSays
  <2>3. execution.revision \in 0..1 /\ Len(execution.pending) \in Nat
    BY <1>0 DEF Executions
  <2>4. obs' \in Identities /\ obs'.rev = execution.revision
    BY <1>0, <2>2, <2>3 DEF Identities
  <2> QED
    BY <1>0, <1>a, <1>b, <2>1, <2>2, <2>3, <2>4 DEF ExecutionShape
<1>5. CASE Turns
  <2>1. UNCHANGED <<interruptAt, boundary, physical>> /\ place' = "check"
    BY <1>5 DEF Turns
  <2>2. /\ execution' \in Executions({"interrupted"}) /\ execution'.pending = <<>>
        /\ execution'.revision = 1 /\ obs' = [id |-> obs.id + 1, rev |-> 1]
    BY <1>5, TurningSays
  <2>3. obs' \in Identities /\ obs'.rev = 1
    BY <1>0, <2>2 DEF Identities
  <2> QED
    BY <1>0, <1>a, <1>b, <2>1, <2>2, <2>3, NothingPending DEF ExecutionShape
<1>6. ASSUME NEW decision \in Run!Verdicts, Rules(decision) PROVE ExecutionShape'
  <2>1. UNCHANGED <<interruptAt, obs, boundary, physical>> /\ place' = "loop"
    BY <1>6 DEF Rules
  <2>2. /\ execution' \in Executions({"executing"} \cup Run!Final)
        /\ execution'.pending = <<>> /\ execution'.revision = execution.revision
    BY <1>6, RulingSays
  <2> QED
    BY <1>0, <1>a, <1>b, <2>1, <2>2, NothingPending DEF ExecutionShape
<1>7. CASE Leaves
  BY <1>0, <1>7 DEF Leaves, ExecutionShape
<1>8. CASE UNCHANGED Run!vars
  BY <1>0, <1>8 DEF Run!vars, ExecutionShape
<1> QED
  BY <1>1, <1>2, <1>3, <1>4, <1>5, <1>6, <1>7, <1>8, ExecutionSteps, Zenon

LEMMA JournalShapeKept ==
    ASSUME Run!BudgetAssumption, ExecutionShape, JournalShape, ExecutionShape',
           [Run!Next]_(Run!vars)
    PROVE  JournalShape'
<1> DEFINE Written == Returns \cup Scored \cup Refreshing
<1>0. /\ oracle \in Seq(Written) /\ checks \in Seq(Rulings) /\ physical \in Nat
      /\ obs \in Identities /\ obs' \in Identities /\ execution.steps \in Nat
  BY DEF JournalShape, ExecutionShape, Executions, Run!BudgetAssumption
<1>1. \A n \in Nat : Run!StepReturned(n) \in Written
  BY DEF Run!StepReturned, Returns
<1>2. \A n \in Nat, success \in BOOLEAN : Run!ScoredStep(n, obs', success) \in Written
  BY <1>0 DEF Run!ScoredStep, Scored
<1>3. \A n \in Nat : Run!Refreshed(n, obs') \in Written
  BY <1>0 DEF Run!Refreshed, Refreshing
<1>4. \A decision \in Run!Verdicts :
        [step |-> execution.steps, obs |-> obs, decision |-> decision] \in Rulings
  BY <1>0 DEF Rulings
<1> HIDE DEF Written
<1>5. oracle' \in Seq(Written)
  <2>1. CASE Fails
    <3>1. \/ oracle' = oracle
          \/ /\ physical' = physical + 1
             /\ oracle' \in {oracle, Append(oracle, Run!StepReturned(physical'))}
      BY <2>1, Zenon DEF Fails, FailsAt, FailsMoving
    <3> QED
      BY <1>0, <1>1, <3>1
  <2>2. ASSUME NEW success \in BOOLEAN, Moves(success) PROVE oracle' \in Seq(Written)
    <3>1. /\ physical' = physical + 1
          /\ oracle' = oracle \o <<Run!StepReturned(physical'),
                                   Run!ScoredStep(physical', obs', success)>>
      BY <2>2 DEF Moves
    <3> QED
      BY <1>0, <1>1, <1>2, <3>1
  <2>3. CASE Turns
    BY <1>0, <1>3, <2>3 DEF Turns
  <2>4. CASE Accepts \/ Plans \/ (\E decision \in Run!Verdicts : Rules(decision)) \/ Leaves
             \/ UNCHANGED Run!vars
    BY <1>0, <2>4, Zenon DEF Accepts, Plans, Rules, Leaves, Run!vars
  <2> QED
    BY <2>1, <2>2, <2>3, <2>4, ExecutionSteps, Zenon
<1>6. checks' \in Seq(Rulings)
  <2>1. checks' = checks \/ \E decision \in Run!Verdicts :
          checks' = Append(checks, [step |-> execution.steps, obs |-> obs,
                                    decision |-> decision])
    <3>1. CASE Fails
      BY <3>1, Zenon DEF Fails, FailsAt, FailsMoving
    <3>2. ASSUME NEW success \in BOOLEAN, Moves(success) PROVE checks' = checks
      BY <3>2 DEF Moves
    <3>3. ASSUME NEW decision \in Run!Verdicts, Rules(decision)
          PROVE  checks' = Append(checks, [step |-> execution.steps, obs |-> obs,
                                           decision |-> decision])
      BY <3>3 DEF Rules
    <3>4. CASE Accepts \/ Plans \/ Turns \/ Leaves \/ UNCHANGED Run!vars
      BY <3>4, Zenon DEF Accepts, Plans, Turns, Leaves, Run!vars
    <3> QED
      BY <3>1, <3>2, <3>3, <3>4, ExecutionSteps, Zenon
  <2>2. checks' = checks \/ \E row \in Rulings : checks' = Append(checks, row)
    BY <1>4, <2>1, Zenon
  <2> HIDE DEF Rulings
  <2> QED
    BY <1>0, <2>2
<1> QED
  BY <1>5, <1>6 DEF JournalShape, Written

LEMMA StatusKept ==
    ASSUME Run!BudgetAssumption, ExecutionShape, StatusInv, RecoveryInv, PaidInv,
           [Run!Next]_(Run!vars)
    PROVE  StatusInv' /\ RecoveryInv' /\ PaidInv'
<1>0. /\ execution.steps \in 0..MaxSteps /\ execution.revision \in 0..1 /\ MaxSteps \in Nat
      /\ execution.recoveries \in 0..1 /\ execution.status \in Statuses /\ physical \in Nat
      /\ place \in {"start", "loop", "interrupt", "check", "end"}
  BY DEF ExecutionShape, Executions, Run!BudgetAssumption
<1> USE DEF Running, Run!PaidControls, Run!Final
<1>1. CASE Fails
  <2>1. /\ execution'.status = "ERROR" /\ place' = "end"
        /\ execution'.revision = execution.revision
        /\ execution'.recoveries = execution.recoveries
    BY <1>1, FailingSays DEF Fails
  <2>2. execution.status # "ERROR"
    BY <1>1 DEF Fails, FailsAt, FailsMoving, StatusInv
  <2>3. physical' <= execution'.steps /\ execution'.steps <= physical' + 1
    <3>1. CASE FailsAt
      BY <1>0, <1>1, <2>2, <3>1, FailingSays DEF PaidInv
    <3>2. CASE ~FailsAt
      BY <1>0, <1>1, <2>2, <3>2, FailingSays DEF PaidInv
    <3> QED
      BY <3>1, <3>2
  <2> QED
    BY <2>1, <2>3 DEF StatusInv, RecoveryInv, PaidInv
<1>2. CASE Accepts
  BY <1>0, <1>2 DEF Accepts, StatusInv, RecoveryInv, PaidInv
<1>3. CASE Plans
  <2>1. /\ execution'.status = "executing" /\ execution'.steps = execution.steps
        /\ execution'.revision = execution.revision
        /\ execution'.recoveries = execution.recoveries
    BY <1>3, PlanningSays
  <2>2. place' = "loop" /\ physical' = physical /\ boundary' = boundary /\ place = "loop" /\ Running
        /\ execution.steps < MaxSteps
    BY <1>3 DEF Plans, Run!Continues
  <2> QED
    BY <1>0, <2>1, <2>2 DEF StatusInv, RecoveryInv, PaidInv
<1>4. ASSUME NEW success \in BOOLEAN, Moves(success)
      PROVE  StatusInv' /\ RecoveryInv' /\ PaidInv'
  <2>1. /\ execution.status = "executing" /\ execution'.status = "executing"
        /\ execution'.revision = execution.revision
        /\ execution'.recoveries = execution.recoveries
        /\ execution.steps < MaxSteps /\ execution'.steps = execution.steps + 1
    BY <1>4, MovingSays
  <2>2. /\ place' \in {"interrupt", "check", "loop"} /\ boundary' \in BOOLEAN
        /\ place' = "interrupt" => ~boundary'
        /\ place' = "loop" => execution'.steps # MaxSteps /\ ~boundary'
        /\ physical' = physical + 1
    BY <1>4 DEF Moves, Run!MustCheck
  <2> QED
    BY <1>0, <2>1, <2>2 DEF StatusInv, RecoveryInv, PaidInv
<1>5. CASE Turns
  <2>1. /\ execution'.status = "interrupted" /\ execution.status = "executing"
        /\ execution'.revision = 1 /\ execution'.recoveries = 0
        /\ execution'.steps = execution.steps
        /\ place' = "check" /\ physical' = physical
    BY <1>5, TurningSays DEF Turns
  <2> QED
    BY <1>0, <2>1 DEF StatusInv, RecoveryInv, PaidInv
<1>6. ASSUME NEW decision \in Run!Verdicts, Rules(decision)
      PROVE  StatusInv' /\ RecoveryInv' /\ PaidInv'
  <2>1. /\ execution'.status = Run!Verdict(decision)
        /\ execution'.status \in {"executing"} \cup (Run!Final \ {"ERROR"})
        /\ execution'.revision = execution.revision
        /\ execution'.recoveries = IF execution'.status = "executing"
                                      /\ execution.status = "interrupted" THEN 1
                                   ELSE execution.recoveries
        /\ execution'.steps = execution.steps
    BY <1>6, RulingSays
  <2>2. place' = "loop" /\ place = "check" /\ physical' = physical /\ boundary' = boundary
    BY <1>6 DEF Rules
  <2>3. Run!Verdict(decision) = "executing" => ~boundary /\ ~(execution.steps >= MaxSteps)
    BY DEF Run!Verdict, Run!Verdicts
  <2>4. execution.status \in {"executing", "interrupted"}
    BY <2>2 DEF StatusInv
  <2>5. execution'.status = "executing" => execution.steps < MaxSteps /\ ~boundary
    BY <1>0, <2>1, <2>3
  <2> HIDE DEF Run!Final
  <2>6. execution'.status = "executing" \/ execution'.status \in Run!Final \ {"ERROR"}
    BY <2>1
  <2>7. StatusInv'
    BY <2>1, <2>2, <2>5, <2>6 DEF StatusInv, Run!Final
  <2>8. RecoveryInv'
    BY <1>0, <2>1, <2>4, <2>6 DEF RecoveryInv, Run!Final
  <2>9. PaidInv'
    BY <1>0, <2>1, <2>2, <2>4, <2>6 DEF PaidInv, Run!Final
  <2> QED
    BY <2>7, <2>8, <2>9
<1>7. CASE Leaves
  <2>1. execution.status \in Run!Final
    BY <1>0, <1>7 DEF Leaves, Run!Continues, StatusInv, Statuses
  <2> QED
    BY <1>0, <1>7, <2>1 DEF Leaves, StatusInv, RecoveryInv, PaidInv
<1>8. CASE UNCHANGED Run!vars
  BY <1>8 DEF Run!vars, StatusInv, RecoveryInv, PaidInv
<1> QED
  BY <1>1, <1>2, <1>3, <1>4, <1>5, <1>6, <1>7, <1>8, ExecutionSteps, Zenon

(* Between two verdicts *)

(* One more control does not pass a multiple of the interval unless it is    *)
(* reached.                                                                  *)
LEMMA NoMultipleBetween ==
    ASSUME NEW q \in Nat, NEW length \in Nat \ {0}, NEW n \in Nat,
           n < q * length + length, (n + 1) % length # 0
    PROVE  n + 1 < q * length + length
<1>1. ((q + 1) * length) % length = 0
  OBVIOUS
<1>2. (q + 1) * length = q * length + length
  OBVIOUS
<1>3. n + 1 # q * length + length
  BY <1>1, <1>2
<1>4. q * length \in Nat
  OBVIOUS
<1> QED
  BY <1>3, <1>4

LEMMA LastMultiple ==
    ASSUME NEW n \in Nat, NEW length \in Nat \ {0}
    PROVE  \E q \in Nat : q * length <= n /\ n < q * length + length
<1>1. (n \div length) * length <= n /\ n < (n \div length) * length + length
      /\ n \div length \in Nat
  OBVIOUS
<1> QED
  BY <1>1

LEMMA LastOf ==
    ASSUME NEW S, NEW rows \in Seq(S), NEW row \in S, NEW more \in Seq(S),
           more = Append(rows, row)
    PROVE  more # <<>> /\ Len(more) = Len(rows) + 1 /\ Run!Last(more) = row
BY DEF Run!Last

LEMMA VerdictCounts ==
    ASSUME checks \in Seq(Rulings), NEW row \in Rulings, checks' = Append(checks, row)
    PROVE  Run!LastChecked' = row.step /\ checks' # <<>> /\ Run!Last(checks') = row
<1>1. checks' \in Seq(Rulings)
  OBVIOUS
<1> QED
  BY <1>1, LastOf, Zenon DEF Run!LastChecked

LEMMA IntervalKept ==
    ASSUME Run!BudgetAssumption, ExecutionShape, JournalShape, StatusInv, RecoveryInv, PaidInv,
           IntervalInv, [Run!Next]_(Run!vars)
    PROVE  IntervalInv'
<1>0. /\ execution.steps \in Nat /\ Interval \in Nat \ {0} /\ checks \in Seq(Rulings)
      /\ \A q \in Nat : q * Interval \in Nat
  BY DEF ExecutionShape, Executions, Run!BudgetAssumption, JournalShape
<1>1. PICK q \in Nat : NoneSkipped(q)
  BY DEF IntervalInv
<1> DEFINE past == q * Interval
<1>2. /\ past \in Nat /\ past <= Run!LastChecked /\ Run!LastChecked <= execution.steps
      /\ execution.steps <= past + Interval
      /\ place \in {"start", "loop"} => execution.steps < past + Interval
  BY <1>0, <1>1 DEF NoneSkipped
<1>3. checks' = checks => Run!LastChecked' = Run!LastChecked
  BY DEF Run!LastChecked, Run!Last
<1>4. Run!LastChecked \in Int
  <2>1. CASE checks = <<>>
    BY <2>1 DEF Run!LastChecked
  <2>2. CASE checks # <<>>
    <3>1. checks[Len(checks)] \in Rulings
      BY <1>0, <2>2
    <3> QED
      BY <2>2, <3>1 DEF Run!LastChecked, Run!Last, Rulings
  <2> QED
    BY <2>1, <2>2
<1>5. ASSUME NEW m \in Nat, m * Interval <= Run!LastChecked',
             Run!LastChecked' <= execution'.steps,
             execution'.steps <= m * Interval + Interval,
             place' \in {"start", "loop"} => execution'.steps < m * Interval + Interval
      PROVE  IntervalInv'
  BY <1>5, Zenon DEF IntervalInv, NoneSkipped
<1>6. ASSUME past <= Run!LastChecked',
             Run!LastChecked' <= execution'.steps,
             execution'.steps <= past + Interval,
             place' \in {"start", "loop"} => execution'.steps < past + Interval
      PROVE  IntervalInv'
  BY <1>5, <1>6, Zenon
<1>7. ASSUME NEW decision \in Run!Verdicts
      PROVE  [step |-> execution.steps, obs |-> obs, decision |-> decision] \in Rulings
  BY <1>0 DEF Rulings, ExecutionShape
<1> HIDE DEF past
<1>8. CASE Fails
  <2>1. place' = "end"
    BY <1>8 DEF Fails
  <2>2. CASE FailsAt
    <3>1. execution'.steps = execution.steps
      BY <1>0, <1>8, <2>2, FailingSays
    <3>2. CASE checks' = checks
      BY <1>0, <1>2, <1>3, <1>4, <1>6, <2>1, <3>1, <3>2
    <3>3. ASSUME NEW decision \in Run!Verdicts,
                 checks' = Append(checks, [step |-> execution.steps, obs |-> obs,
                                           decision |-> decision])
          PROVE  IntervalInv'
      <4>1. Run!LastChecked' = execution.steps
        BY <1>0, <1>7, <3>3, VerdictCounts
      <4> QED
        BY <1>0, <1>2, <1>4, <1>6, <2>1, <3>1, <4>1
    <3> QED
      BY <2>2, <3>2, <3>3, Zenon DEF FailsAt
  <2>3. CASE ~FailsAt
    <3>1. execution'.steps = execution.steps + 1 /\ place = "loop" /\ checks' = checks
      BY <1>8, <2>3, FailingSays
    <3> QED
      BY <1>0, <1>2, <1>3, <1>4, <1>6, <2>1, <3>1
  <2> QED
    BY <2>2, <2>3
<1>9. ASSUME NEW success \in BOOLEAN, Moves(success) PROVE IntervalInv'
  <2>1. execution'.steps = execution.steps + 1
    BY <1>9, MovingSays
  <2>2. /\ place = "loop" /\ checks' = checks /\ place' \in {"interrupt", "check", "loop"}
        /\ place' = "loop" => execution'.steps % Interval # 0
    BY <1>9 DEF Moves, Run!MustCheck
  <2>3. place' = "loop" => execution.steps + 1 < past + Interval
    BY <1>0, <1>2, <2>1, <2>2, NoMultipleBetween DEF past
  <2> QED
    BY <1>0, <1>2, <1>3, <1>4, <1>6, <2>1, <2>2, <2>3
<1>10. ASSUME NEW decision \in Run!Verdicts, Rules(decision) PROVE IntervalInv'
  <2>1. Run!LastChecked' = execution.steps
    BY <1>0, <1>7, <1>10, VerdictCounts DEF Rules
  <2>2. execution'.steps = execution.steps
    BY <1>10, RulingSays
  <2>3. PICK m \in Nat : m * Interval <= execution.steps
                         /\ execution.steps < m * Interval + Interval
    BY <1>0, LastMultiple
  <2>4. execution.steps <= m * Interval + Interval /\ execution.steps <= execution.steps
    BY <1>0, <2>3
  <2> QED
    BY <1>5, <2>1, <2>2, <2>3, <2>4, Zenon
<1>11. CASE Accepts \/ Plans \/ Turns \/ Leaves \/ UNCHANGED Run!vars
  <2>1. execution'.steps = execution.steps
    <3>1. CASE Plans
      BY <3>1, PlanningSays
    <3>2. CASE Turns
      BY <3>2, TurningSays
    <3> QED
      BY <1>11, <3>1, <3>2 DEF Accepts, Leaves, Run!vars
  <2>2. checks' = checks /\ (place' \in {"start", "loop"} => place \in {"start", "loop"})
    BY <1>11, Zenon DEF Accepts, Plans, Turns, Leaves, Run!vars
  <2> QED
    BY <1>0, <1>2, <1>3, <1>4, <1>6, <2>1, <2>2
<1> QED
  BY <1>8, <1>9, <1>10, <1>11, ExecutionSteps, Zenon

(* The journal *)

LEMMA StillRunning ==
    ASSUME StatusInv, [Run!Next]_(Run!vars)
    PROVE  execution'.status # "ERROR" => execution.status # "ERROR"
<1>1. place # "end" => execution.status # "ERROR"
  BY DEF StatusInv
<1>2. place # "end" \/ UNCHANGED Run!vars
  BY ExecutionSteps, Zenon DEF Fails, FailsAt, FailsMoving, Accepts, Plans, Moves, Turns, Rules,
     Leaves
<1> QED
  BY <1>1, <1>2, Zenon DEF Run!vars

At(rows, event) == {n \in DOMAIN rows : rows[n].event = event}

Grown(rows, row, more) ==
    \A event :
        /\ row.event # event => At(more, event) = At(rows, event)
        /\ row.event = event =>
             /\ At(more, event) = At(rows, event) \cup {Len(more)}
             /\ Cardinality(At(more, event)) = Cardinality(At(rows, event)) + 1
        /\ \A n \in At(rows, event) : more[n] = rows[n]
        /\ more[Len(more)] = row

LEMMA OneMoreRow ==
    ASSUME NEW S, NEW rows \in Seq(S), NEW row \in S, NEW more, more = Append(rows, row)
    PROVE  Grown(rows, row, more)
<1> SUFFICES ASSUME NEW event
    PROVE  /\ row.event # event => At(more, event) = At(rows, event)
           /\ row.event = event =>
                /\ At(more, event) = At(rows, event) \cup {Len(more)}
                /\ Cardinality(At(more, event)) = Cardinality(At(rows, event)) + 1
           /\ \A n \in At(rows, event) : more[n] = rows[n]
           /\ more[Len(more)] = row
  BY Zenon DEF Grown
<1>1. /\ more \in Seq(S) /\ Len(more) = Len(rows) + 1 /\ more[Len(more)] = row
      /\ \A n \in DOMAIN rows : more[n] = rows[n]
      /\ DOMAIN more = DOMAIN rows \cup {Len(more)} /\ Len(more) \notin DOMAIN rows
  OBVIOUS
<1>2. IsFiniteSet(At(rows, event))
  <2>1. At(rows, event) \subseteq 1..Len(rows)
    BY DEF At
  <2>2. IsFiniteSet(1..Len(rows))
    BY FS_Interval
  <2> QED
    BY <2>1, <2>2, FS_Subset
<1>3. row.event # event => At(more, event) = At(rows, event)
  BY <1>1, Zenon DEF At
<1>4. row.event = event => At(more, event) = At(rows, event) \cup {Len(more)}
  BY <1>1, Zenon DEF At
<1>5. Len(more) \notin At(rows, event)
  BY <1>1, Zenon DEF At
<1>6. Cardinality(At(rows, event) \cup {Len(more)}) = Cardinality(At(rows, event)) + 1
  BY <1>2, <1>5, FS_AddElement
<1>7. \A n \in At(rows, event) : more[n] = rows[n]
  BY <1>1, Zenon DEF At
<1> QED
  BY <1>1, <1>2, <1>3, <1>4, <1>6, <1>7, Zenon

(* A control that came back is in the journal twice: as returned, then as    *)
(* scored.                                                                   *)
LEMMA MoveWritten ==
    ASSUME ExecutionShape, JournalShape, ExecutionShape', NEW success \in BOOLEAN, Moves(success)
    PROVE  \E rows \in Seq(Returns \cup Scored \cup Refreshing) :
             /\ rows = Append(oracle, Run!StepReturned(physical + 1))
             /\ oracle' = Append(rows, Run!ScoredStep(physical + 1, obs', success))
             /\ Run!StepReturned(physical + 1) \in Returns
             /\ Run!ScoredStep(physical + 1, obs', success) \in Scored
<1> DEFINE returned == Run!StepReturned(physical + 1)
           scored == Run!ScoredStep(physical + 1, obs', success)
<1>1. returned \in Returns /\ scored \in Scored
  BY DEF ExecutionShape, Run!StepReturned, Run!ScoredStep, Returns, Scored
<1>2. oracle' = oracle \o <<returned, scored>>
  BY DEF Moves
<1> HIDE DEF returned, scored
<1>3. oracle \in Seq(Returns \cup Scored \cup Refreshing)
  BY DEF JournalShape
<1>4. oracle' = Append(Append(oracle, returned), scored)
  BY <1>1, <1>2, <1>3
<1>5. Append(oracle, returned) \in Seq(Returns \cup Scored \cup Refreshing)
  BY <1>1, <1>3
<1> QED
  BY <1>1, <1>4, <1>5 DEF returned, scored

LEMMA OneMoreImage ==
    ASSUME NEW S, NEW x, NEW before, NEW after, \A n \in S : after[n] = before[n],
           NEW old, NEW new, old = {before[n] : n \in S}, new = {after[n] : n \in S \cup {x}}
    PROVE  new = old \cup {after[x]}
OBVIOUS

LEMMA OneMoreStep ==
    ASSUME NEW old, NEW row, NEW new, new = old \cup {row}
    PROVE  {r.step : r \in new} = {r.step : r \in old} \cup {row.step}
OBVIOUS

LEMMA JournalKept ==
    ASSUME Run!BudgetAssumption, ExecutionShape, JournalShape, StatusInv, ExecutionShape',
           JournalInv, [Run!Next]_(Run!vars)
    PROVE  JournalInv'
<1> DEFINE Written == Returns \cup Scored \cup Refreshing
<1> SUFFICES ASSUME execution'.status # "ERROR"
             PROVE  /\ Cardinality(Run!Places("step_returned"))' = physical'
                    /\ Cardinality(Run!Places("scored_step"))' = physical'
                    /\ {r.step : r \in Run!Rows("scored_step")'} = 1..physical'
  BY DEF JournalInv
<1>1. /\ Cardinality(Run!Places("step_returned")) = physical
      /\ Cardinality(Run!Places("scored_step")) = physical
      /\ {r.step : r \in Run!Rows("scored_step")} = 1..physical
  BY StillRunning DEF JournalInv
<1>2. oracle \in Seq(Written) /\ physical \in Nat
  BY DEF JournalShape, ExecutionShape
<1>3. ~Fails
  BY FailingSays
<1>4. ASSUME NEW success \in BOOLEAN, Moves(success)
      PROVE  /\ Cardinality(Run!Places("step_returned"))' = physical'
             /\ Cardinality(Run!Places("scored_step"))' = physical'
             /\ {r.step : r \in Run!Rows("scored_step")'} = 1..physical'
  <2> DEFINE returned == Run!StepReturned(physical + 1)
             scored == Run!ScoredStep(physical + 1, obs', success)
  <2>1. PICK rows \in Seq(Written) : /\ rows = Append(oracle, returned)
                                     /\ oracle' = Append(rows, scored)
                                     /\ returned \in Returns /\ scored \in Scored
    BY <1>4, MoveWritten
  <2>2. returned.event = "step_returned" /\ scored.event = "scored_step"
        /\ scored.step = physical + 1
    BY DEF Run!StepReturned, Run!ScoredStep
  <2>3. physical' = physical + 1
    BY <1>4 DEF Moves
  <2> HIDE DEF returned, scored
  <2>4. returned \in Written /\ scored \in Written
    BY <2>1
  <2> HIDE DEF Written
  <2>a. Grown(oracle, returned, rows)
    BY <1>2, <2>1, <2>4, OneMoreRow, Zenon
  <2>b. Grown(rows, scored, oracle')
    BY <2>1, <2>4, OneMoreRow, Zenon
  <2>5. /\ At(rows, "scored_step") = At(oracle, "scored_step")
        /\ Cardinality(At(rows, "step_returned")) = Cardinality(At(oracle, "step_returned")) + 1
        /\ \A n \in At(oracle, "scored_step") : rows[n] = oracle[n]
    BY <2>2, <2>a DEF Grown
  <2>6. /\ At(oracle', "step_returned") = At(rows, "step_returned")
        /\ At(oracle', "scored_step") = At(rows, "scored_step") \cup {Len(oracle')}
        /\ Cardinality(At(oracle', "scored_step")) = Cardinality(At(rows, "scored_step")) + 1
        /\ \A n \in At(rows, "scored_step") : oracle'[n] = rows[n]
        /\ oracle'[Len(oracle')] = scored
    BY <2>2, <2>b DEF Grown
  <2>7. \A event : Run!Places(event) = At(oracle, event) /\ Run!Places(event)' = At(oracle', event)
    BY Zenon DEF Run!Places, At
  <2>8. {r.step : r \in Run!Rows("scored_step")'}
          = {r.step : r \in Run!Rows("scored_step")} \cup {physical + 1}
    <3>1. Run!Rows("scored_step")' = Run!Rows("scored_step") \cup {scored}
      <4>1. Run!Rows("scored_step") = {oracle[n] : n \in At(oracle, "scored_step")}
            /\ Run!Rows("scored_step")' = {oracle'[n] : n \in At(oracle', "scored_step")}
        BY <2>7, Zenon DEF Run!Rows
      <4>2. \A n \in At(oracle, "scored_step") : oracle'[n] = oracle[n]
        BY <2>5, <2>6
      <4>3. Run!Rows("scored_step")' = Run!Rows("scored_step") \cup {oracle'[Len(oracle')]}
        <5>1. Run!Rows("scored_step")'
                = {oracle'[n] : n \in At(oracle, "scored_step") \cup {Len(oracle')}}
          <6>1. At(oracle', "scored_step") = At(oracle, "scored_step") \cup {Len(oracle')}
            BY <2>5, <2>6
          <6> QED
            BY <4>1, <6>1
        <5> QED
          BY <4>1, <4>2, <5>1, OneMoreImage
      <4> QED
        BY <2>6, <4>3
    <3> QED
      <4>1. {r.step : r \in Run!Rows("scored_step")'}
              = {r.step : r \in Run!Rows("scored_step")} \cup {scored.step}
        BY <3>1, OneMoreStep, Zenon
      <4> QED
        <5>1. {scored.step} = {physical + 1}
          BY <2>2
        <5> QED
          BY <4>1, <5>1, Zenon
  <2> QED
    <3>1. 1..physical' = 1..physical \cup {physical + 1}
      BY <1>2, <2>3
    <3>2. {r.step : r \in Run!Rows("scored_step")'} = 1..physical'
      BY <1>1, <2>8, <3>1, Zenon
    <3>3. Cardinality(Run!Places("step_returned"))' = physical + 1
          /\ Cardinality(Run!Places("scored_step"))' = physical + 1
      BY <1>1, <2>5, <2>6, <2>7, Zenon
    <3> QED
      BY <2>3, <3>2, <3>3, Zenon
<1>5. CASE Turns
  <2> DEFINE row == Run!Refreshed(physical, obs')
  <2>1. row \in Written /\ row.event = "refresh_identity"
    BY DEF ExecutionShape, Run!Refreshed, Refreshing
  <2>2. oracle' = Append(oracle, row) /\ physical' = physical
    BY <1>5 DEF Turns
  <2> HIDE DEF row, Written
  <2>a. Grown(oracle, row, oracle')
    BY <1>2, <2>1, <2>2, OneMoreRow, Zenon
  <2>3. \A event \in {"step_returned", "scored_step"} :
          /\ At(oracle', event) = At(oracle, event)
          /\ \A n \in At(oracle, event) : oracle'[n] = oracle[n]
    BY <2>1, <2>a DEF Grown
  <2>4. \A event : Run!Places(event) = At(oracle, event) /\ Run!Places(event)' = At(oracle', event)
    BY Zenon DEF Run!Places, At
  <2>5. Run!Rows("scored_step")' = Run!Rows("scored_step")
    BY <2>3, <2>4, Zenon DEF Run!Rows
  <2> QED
    BY <1>1, <2>2, <2>3, <2>4, <2>5, Zenon
<1>6. CASE Accepts \/ Plans \/ (\E decision \in Run!Verdicts : Rules(decision)) \/ Leaves
           \/ UNCHANGED Run!vars
  <2>1. oracle' = oracle /\ physical' = physical
    BY <1>6, Zenon DEF Accepts, Plans, Rules, Leaves, Run!vars
  <2> QED
    BY <1>1, <2>1, Zenon DEF Run!Places, Run!Rows
<1> QED
  BY <1>3, <1>4, <1>5, <1>6, ExecutionSteps, Zenon

LEMMA SameCount == \A S : Run!Cardinality(S) = Cardinality(S)
BY Zenon DEF Cardinality, Run!Cardinality, IsFiniteSet, Run!IsFiniteSet

LEMMA IdentityStays ==
    ASSUME NEW c, Run!Identity(c), DOMAIN oracle \subseteq DOMAIN oracle',
           \A n \in DOMAIN oracle : oracle'[n] = oracle[n],
           \A n \in DOMAIN oracle' \ DOMAIN oracle :
             oracle'[n].event = "refresh_identity" => oracle'[n].obs # c.obs
    PROVE  Run!Identity(c)'
<1>1. \A event : Run!Places(event) \subseteq Run!Places(event)'
  BY Zenon DEF Run!Places
<1>2. \A event : \A n \in Run!Places(event) : oracle'[n] = oracle[n]
  BY Zenon DEF Run!Places
<1>3. \A event : Run!Rows(event) \subseteq Run!Rows(event)'
  BY <1>1, <1>2, Zenon DEF Run!Rows
<1>4. \A t \in Run!Truth(c.step) : t \in Run!Truth(c.step)'
  BY <1>3, Zenon DEF Run!Truth
<1>5. Run!Refreshes(c)' = Run!Refreshes(c)
  BY Zenon DEF Run!Refreshes, Run!Places
<1> QED
  BY <1>4, <1>5, Zenon DEF Run!Identity

(* Rows are only added, and carry the new observation if they carry one;     *)
(* only the interruption writes a refresh.                                   *)
LEMMA RowsAdded ==
    ASSUME Run!BudgetAssumption, ExecutionShape, JournalShape, RecoveryInv, ExecutionShape',
           [Run!Next]_(Run!vars)
    PROVE  /\ DOMAIN oracle \subseteq DOMAIN oracle'
           /\ \A n \in DOMAIN oracle : oracle'[n] = oracle[n]
           /\ \A n \in DOMAIN oracle' \ DOMAIN oracle :
                /\ oracle'[n].event # "step_returned" => oracle'[n].obs = obs'
                /\ oracle'[n].event = "refresh_identity" => Turns /\ obs'.id = obs.id + 1
           /\ obs'.id \in {obs.id, obs.id + 1} /\ obs.id \in Nat /\ obs'.id \in Nat
<1> DEFINE Written == Returns \cup Scored \cup Refreshing
<1>0. oracle \in Seq(Written) /\ physical \in Nat /\ obs \in Identities /\ obs' \in Identities
  BY DEF JournalShape, ExecutionShape
<1>1. obs.id \in Nat /\ obs'.id \in Nat
  BY <1>0 DEF Identities
<1>2. CASE Fails
  <2>1. obs' = obs
    BY <1>2 DEF Fails
  <2>2. oracle' = oracle \/ oracle' = Append(oracle, Run!StepReturned(physical'))
    BY <1>2, Zenon DEF Fails, FailsAt, FailsMoving
  <2>3. Run!StepReturned(physical').event = "step_returned"
    BY DEF Run!StepReturned
  <2> HIDE DEF Written
  <2> QED
    BY <1>0, <1>1, <2>1, <2>2, <2>3
<1>3. ASSUME NEW success \in BOOLEAN, Moves(success)
      PROVE  /\ DOMAIN oracle \subseteq DOMAIN oracle'
             /\ \A n \in DOMAIN oracle : oracle'[n] = oracle[n]
             /\ \A n \in DOMAIN oracle' \ DOMAIN oracle :
                  /\ oracle'[n].event # "step_returned" => oracle'[n].obs = obs'
                  /\ oracle'[n].event # "refresh_identity"
             /\ obs'.id = obs.id + 1
  <2> DEFINE returned == Run!StepReturned(physical + 1)
             scored == Run!ScoredStep(physical + 1, obs', success)
  <2>1. PICK rows \in Seq(Written) : /\ rows = Append(oracle, returned)
                                     /\ oracle' = Append(rows, scored)
                                     /\ returned \in Returns /\ scored \in Scored
    BY <1>3, MoveWritten
  <2>2. returned.event = "step_returned" /\ scored.event = "scored_step" /\ scored.obs = obs'
    BY DEF Run!StepReturned, Run!ScoredStep
  <2>3. obs'.id = obs.id + 1
    BY <1>3, MovingSays
  <2> HIDE DEF returned, scored, Written
  <2>4. /\ Len(rows) = Len(oracle) + 1 /\ rows[Len(oracle) + 1] = returned
        /\ \A n \in 1..Len(oracle) : rows[n] = oracle[n]
    BY <1>0, <2>1
  <2>5. /\ DOMAIN oracle' = 1..(Len(oracle) + 2) /\ oracle'[Len(oracle) + 2] = scored
        /\ \A n \in 1..(Len(oracle) + 1) : oracle'[n] = rows[n]
    BY <1>0, <2>1, <2>4
  <2>6. DOMAIN oracle = 1..Len(oracle) /\ Len(oracle) \in Nat
    BY <1>0
  <2> QED
    BY <2>2, <2>3, <2>4, <2>5, <2>6
<1>4. CASE Turns
  <2>1. obs'.id = obs.id + 1
    BY <1>4, TurningSays
  <2>2. oracle' = Append(oracle, Run!Refreshed(physical, obs'))
    BY <1>4 DEF Turns
  <2>3. Run!Refreshed(physical, obs').obs = obs'
    BY DEF Run!Refreshed
  <2> HIDE DEF Written
  <2> QED
    BY <1>0, <1>1, <1>4, <2>1, <2>2, <2>3
<1>5. CASE Accepts
  <2>1. oracle' = oracle /\ obs' = [id |-> obs.id + 1, rev |-> execution'.revision]
    BY <1>5 DEF Accepts, Run!Project
  <2> QED
    BY <1>1, <2>1
<1>6. CASE Plans \/ (\E decision \in Run!Verdicts : Rules(decision)) \/ Leaves
           \/ UNCHANGED Run!vars
  <2>1. oracle' = oracle /\ obs' = obs
    BY <1>6, Zenon DEF Plans, Rules, Leaves, Run!vars
  <2> QED
    BY <1>1, <2>1
<1> QED
  BY <1>1, <1>2, <1>3, <1>4, <1>5, <1>6, ExecutionSteps

LEMMA ChecksAdded ==
    ASSUME Run!BudgetAssumption, ExecutionShape, JournalShape, [Run!Next]_(Run!vars)
    PROVE  \/ checks' = checks
           \/ \E decision \in Run!Verdicts :
                LET row == [step |-> execution.steps, obs |-> obs, decision |-> decision]
                IN  /\ place = "check" /\ row \in Rulings /\ checks' = Append(checks, row)
                    /\ Fails \/ Rules(decision)
<1>1. ASSUME NEW decision \in Run!Verdicts
      PROVE  [step |-> execution.steps, obs |-> obs, decision |-> decision] \in Rulings
  BY DEF Rulings, ExecutionShape, Executions, Run!BudgetAssumption
<1>2. CASE Fails
  BY <1>1, <1>2, Zenon DEF Fails, FailsAt, FailsMoving
<1>3. ASSUME NEW success \in BOOLEAN, Moves(success) PROVE checks' = checks
  BY <1>3 DEF Moves
<1>4. ASSUME NEW decision \in Run!Verdicts, Rules(decision)
      PROVE  /\ place = "check"
             /\ checks' = Append(checks, [step |-> execution.steps, obs |-> obs,
                                          decision |-> decision])
  BY <1>4 DEF Rules
<1>5. CASE Accepts \/ Plans \/ Turns \/ Leaves \/ UNCHANGED Run!vars
  BY <1>5, Zenon DEF Accepts, Plans, Turns, Leaves, Run!vars
<1> QED
  BY <1>1, <1>2, <1>3, <1>4, <1>5, ExecutionSteps, Zenon

LEMMA IdentityKept ==
    ASSUME Run!BudgetAssumption, ExecutionShape, JournalShape, StatusInv, RecoveryInv, PaidInv,
           JournalInv, IdentityInv, ExecutionShape', JournalShape', JournalInv', PaidInv',
           [Run!Next]_(Run!vars)
    PROVE  IdentityInv'
<1>1. /\ DOMAIN oracle \subseteq DOMAIN oracle'
      /\ \A n \in DOMAIN oracle : oracle'[n] = oracle[n]
      /\ \A n \in DOMAIN oracle' \ DOMAIN oracle :
           /\ oracle'[n].event # "step_returned" => oracle'[n].obs = obs'
           /\ oracle'[n].event = "refresh_identity" => Turns /\ obs'.id = obs.id + 1
      /\ obs'.id \in {obs.id, obs.id + 1} /\ obs.id \in Nat /\ obs'.id \in Nat
  BY RowsAdded
<1>2. checks \in Seq(Rulings) /\ checks' \in Seq(Rulings)
      /\ oracle \in Seq(Returns \cup Scored \cup Refreshing)
  BY DEF JournalShape
<1>3. \A n \in DOMAIN oracle' : oracle'[n].event # "step_returned" => oracle'[n].obs.id <= obs'.id
  <2> SUFFICES ASSUME NEW n \in DOMAIN oracle', oracle'[n].event # "step_returned"
               PROVE  oracle'[n].obs.id <= obs'.id
    OBVIOUS
  <2>1. CASE n \in DOMAIN oracle
    <3>1. oracle[n] \in Returns \cup Scored \cup Refreshing /\ oracle'[n] = oracle[n]
      BY <1>1, <1>2, <2>1
    <3>2. oracle[n].obs.id \in Nat
      BY <3>1 DEF Returns, Scored, Refreshing, Identities
    <3>3. oracle[n].obs.id <= obs.id
      BY <2>1, <3>1 DEF IdentityInv
    <3> QED
      BY <1>1, <3>1, <3>2, <3>3
  <2>2. CASE n \notin DOMAIN oracle
    BY <1>1, <2>2
  <2> QED
    BY <2>1, <2>2
<1>4. ASSUME NEW c, Run!Identity(c), c.obs.id \in Nat, c.obs.id <= obs.id
      PROVE  Run!Identity(c)'
  <2>1. \A n \in DOMAIN oracle' \ DOMAIN oracle :
          oracle'[n].event = "refresh_identity" => oracle'[n].obs # c.obs
    <3> SUFFICES ASSUME NEW n \in DOMAIN oracle' \ DOMAIN oracle,
                        oracle'[n].event = "refresh_identity"
                 PROVE  oracle'[n].obs # c.obs
      OBVIOUS
    <3>1. oracle'[n].obs = obs' /\ obs'.id = obs.id + 1
      BY <1>1
    <3>2. oracle'[n].obs.id # c.obs.id
      BY <1>1, <1>4, <3>1
    <3> QED
      BY <3>2
  <2> QED
    BY <1>1, <1>4, <2>1, IdentityStays, Zenon
<1>5. ASSUME NEW i \in DOMAIN checks
      PROVE  checks[i].obs.id <= obs'.id /\ checks[i].obs.id \in Nat /\ Run!Identity(checks[i])
  <2>1. checks[i] \in Rulings
    BY <1>2
  <2>2. checks[i].obs.id \in Nat
    BY <2>1 DEF Rulings, Identities
  <2>3. checks[i].obs.id <= obs.id /\ Run!Identity(checks[i])
    BY DEF IdentityInv
  <2> QED
    BY <1>1, <2>2, <2>3
<1>6. ASSUME NEW i \in DOMAIN checks, NEW c, c = checks[i] PROVE Run!Identity(c)'
  <2>1. c.obs.id <= obs.id /\ Run!Identity(c) /\ c.obs.id \in Nat
    BY <1>5, <1>6 DEF IdentityInv
  <2> QED
    BY <1>4, <2>1
<1>7. ASSUME NEW c, c \in Rulings, c.obs = obs, Run!Identity(c)
      PROVE  c.obs.id <= obs'.id /\ Run!Identity(c)'
  <2>1. c.obs.id \in Nat /\ c.obs.id <= obs.id
    BY <1>1, <1>7
  <2> QED
    BY <1>1, <1>4, <1>7, <2>1
<1>8. \A i \in DOMAIN checks' : checks'[i].obs.id <= obs'.id /\ Run!Identity(checks[i])'
  <2> SUFFICES ASSUME NEW i, i \in DOMAIN checks', NEW c, c = checks'[i]
               PROVE  c.obs.id <= obs'.id /\ Run!Identity(c)'
    BY Zenon
  <2>1. CASE checks' = checks
    BY <1>5, <1>6, <2>1, Zenon
  <2>2. ASSUME NEW decision \in Run!Verdicts, place = "check",
               NEW row \in Rulings,
               row = [step |-> execution.steps, obs |-> obs, decision |-> decision],
               checks' = Append(checks, row)
        PROVE  c.obs.id <= obs'.id /\ Run!Identity(c)'
    <3>1. Run!Identity([step |-> execution.steps, obs |-> obs])
      BY <2>2 DEF IdentityInv
    <3>2. Run!Identity(row)
      BY <2>2, <3>1 DEF Run!Identity, Run!Truth, Run!Refreshes
    <3>3. row.obs = obs
      BY <2>2
    <3>4. (i \in DOMAIN checks /\ c = checks[i]) \/ c = row
      BY <1>2, <2>2
    <3> QED
      BY <1>5, <1>6, <1>7, <3>2, <3>3, <3>4, Zenon
  <2> QED
    BY <2>1, <2>2, ChecksAdded, Zenon
<1>9. ASSUME NEW c, c = [step |-> execution'.steps, obs |-> obs'],
             place' \in {"interrupt", "check"}
      PROVE  Run!Identity(c)'
  <2>1. ASSUME NEW success \in BOOLEAN, Moves(success) PROVE Run!Identity(c)'
    <3> DEFINE scored == Run!ScoredStep(physical + 1, obs', success)
    <3>1. PICK rows \in Seq(Returns \cup Scored \cup Refreshing) :
            oracle' = Append(rows, scored) /\ scored \in Scored
      BY <2>1, MoveWritten
    <3>2. scored.event = "scored_step" /\ scored.step = physical + 1 /\ scored.obs = obs'
      BY DEF Run!ScoredStep
    <3>3. c.step = physical + 1 /\ c.obs = obs'
      <4>1. execution'.steps = execution.steps + 1 /\ execution.status = "executing"
        BY <2>1, MovingSays
      <4> QED
        BY <1>9, <4>1 DEF PaidInv
    <3> HIDE DEF scored
    <3>4. \E n \in DOMAIN oracle' : oracle'[n] = scored
      <4>1. Len(rows) + 1 \in DOMAIN oracle' /\ oracle'[Len(rows) + 1] = scored
        BY <3>1
      <4> QED
        BY <4>1, Zenon
    <3>5. scored \in Run!Rows("scored_step")'
      BY <3>2, <3>4, Zenon DEF Run!Rows, Run!Places
    <3>6. scored \in Run!Truth(c.step)'
      BY <3>2, <3>3, <3>5, Zenon DEF Run!Truth
    <3> QED
      <4>1. scored.obs = c.obs
        BY <3>2, <3>3
      <4> QED
        BY <3>6, <4>1 DEF Run!Identity
  <2>2. CASE Turns
    <3> DEFINE row == Run!Refreshed(physical, obs')
               before == [step |-> execution.steps, obs |-> obs]
    <3>1. oracle' = Append(oracle, row) /\ place = "interrupt" /\ execution.status = "executing"
      BY <2>2 DEF Turns
    <3>2. execution'.steps = execution.steps /\ obs'.id = obs.id + 1
      BY <2>2, TurningSays
    <3>3. row.event = "refresh_identity" /\ row.step = physical /\ row.obs = obs'
      BY DEF Run!Refreshed
    <3>4. c.step = physical /\ c.obs = obs'
      BY <1>9, <3>1, <3>2 DEF PaidInv
    <3>5. Run!Truth(before.step) # {}
      BY <3>1, Zenon DEF IdentityInv, Run!Identity
    <3>6. before.step = physical
      BY <3>1 DEF PaidInv
    <3> HIDE DEF row, before
    <3>7. Run!Truth(c.step)' # {}
      <4>1. \A n \in Run!Places("scored_step") :
              n \in Run!Places("scored_step")' /\ oracle'[n] = oracle[n]
        BY <1>1, Zenon DEF Run!Places
      <4>2. \A r \in Run!Rows("scored_step") : r \in Run!Rows("scored_step")'
        BY <4>1, Zenon DEF Run!Rows
      <4> QED
        BY <3>4, <3>5, <3>6, <4>2, Zenon DEF Run!Truth
    <3>8. /\ Len(oracle) + 1 \in DOMAIN oracle' /\ oracle'[Len(oracle) + 1] = row
          /\ \A n \in DOMAIN oracle' : n # Len(oracle) + 1 => n \in DOMAIN oracle
      BY <1>2, <3>1
    <3>9. \A n \in DOMAIN oracle :
            ~(oracle[n].event = "refresh_identity" /\ oracle[n].obs = obs')
      <4> SUFFICES ASSUME NEW n \in DOMAIN oracle, oracle[n].event = "refresh_identity"
                   PROVE  oracle[n].obs # obs'
        OBVIOUS
      <4>1. oracle[n].obs.id <= obs.id
        BY DEF IdentityInv
      <4>2. oracle[n].obs.id # obs'.id
        BY <1>1, <3>2, <4>1
      <4> QED
        BY <4>2
    <3>10. Run!Refreshes(c)' = {Len(oracle) + 1}
      <4>1. \A n \in DOMAIN oracle' :
              (/\ oracle'[n].event = "refresh_identity"
               /\ oracle'[n].step = c.step
               /\ oracle'[n].obs = c.obs) <=> n = Len(oracle) + 1
        BY <1>1, <3>3, <3>4, <3>8, <3>9, Zenon
      <4> QED
        BY <3>8, <4>1, Zenon DEF Run!Refreshes, Run!Places
    <3>11. Cardinality(Run!Refreshes(c)') = 1
      BY <3>10, FS_Singleton
    <3> QED
      <4>1. Run!Cardinality(Run!Refreshes(c)') = 1
        BY <3>11, SameCount, Zenon
      <4> QED
        BY <3>7, <4>1 DEF Run!Identity
  <2>3. ~Fails /\ ~Accepts /\ ~Plans /\ ~Leaves /\ \A decision \in Run!Verdicts : ~Rules(decision)
    BY <1>9 DEF Fails, Accepts, Plans, Leaves, Rules
  <2>4. CASE UNCHANGED Run!vars
    <3>1. place \in {"interrupt", "check"} /\ c = [step |-> execution.steps, obs |-> obs]
          /\ oracle' = oracle
      BY <1>9, <2>4, Zenon DEF Run!vars
    <3> QED
      BY <3>1, Zenon DEF IdentityInv, Run!Identity, Run!Truth, Run!Rows, Run!Refreshes, Run!Places
  <2> QED
    BY <2>1, <2>2, <2>3, <2>4, ExecutionSteps, Zenon
<1>10. place' \in {"interrupt", "check"} =>
         Run!Identity([step |-> execution.steps, obs |-> obs])'
  BY <1>9, Zenon DEF Run!Identity, Run!Truth, Run!Refreshes, Run!Rows, Run!Places
<1> QED
  BY <1>3, <1>8, <1>10, Zenon DEF IdentityInv

(* What is left of a chunk, and what the last verdict said. *)
LEMMA PlanKept ==
    ASSUME Run!BudgetAssumption, ExecutionShape, JournalShape, StatusInv, RecoveryInv,
           IdentityInv, PlanInv, ExecutionShape', JournalShape', [Run!Next]_(Run!vars)
    PROVE  PlanInv'
<1>1. CASE execution'.pending = <<>>
  BY <1>1 DEF PlanInv
<1>2. ASSUME checks' = checks, Run!Rows("refresh_identity")' = Run!Rows("refresh_identity")
      PROVE  \A id : Run!MadeSince(id) => Run!MadeSince(id)'
  BY <1>2, Zenon DEF Run!MadeSince, Run!Last
<1>3. CASE Plans
  <2>1. /\ execution'.pending = [k \in 1..Interval |-> obs.id] /\ checks' = checks
        /\ oracle' = oracle
    BY <1>3, PlanningSays DEF Plans
  <2>2. Run!MadeSince(obs.id)
    <3>1. checks # <<>> => obs.id >= Run!Last(checks).obs.id
      <4> HAVE checks # <<>>
      <4>1. Len(checks) \in DOMAIN checks /\ checks[Len(checks)] \in Rulings
        BY DEF JournalShape
      <4>2. checks[Len(checks)].obs.id <= obs.id /\ checks[Len(checks)].obs.id \in Nat
        BY <4>1 DEF IdentityInv, Rulings, Identities
      <4>3. obs.id \in Nat
        BY DEF ExecutionShape, Identities
      <4> QED
        BY <4>2, <4>3 DEF Run!Last
    <3>2. ASSUME NEW r \in Run!Rows("refresh_identity") PROVE obs.id >= r.obs.id
      <4>1. PICK n \in DOMAIN oracle : r = oracle[n] /\ oracle[n].event = "refresh_identity"
        BY <3>2, Zenon DEF Run!Rows, Run!Places
      <4>2. oracle[n] \in Returns \cup Scored \cup Refreshing
        BY DEF JournalShape
      <4>3. oracle[n].obs.id \in Nat /\ oracle[n].obs.id <= obs.id
        BY <4>1, <4>2 DEF IdentityInv, Returns, Scored, Refreshing, Identities
      <4>4. obs.id \in Nat
        BY DEF ExecutionShape, Identities
      <4> QED
        BY <4>1, <4>3, <4>4
    <3> QED
      BY <3>1, <3>2 DEF Run!MadeSince
  <2>3. \A id : Run!MadeSince(id) => Run!MadeSince(id)'
    BY <1>2, <2>1, Zenon DEF Run!Rows, Run!Places
  <2>4. \A k \in DOMAIN execution'.pending : execution'.pending[k] = obs.id
    BY <2>1
  <2> SUFFICES ASSUME NEW k \in DOMAIN execution'.pending, NEW id, id = execution'.pending[k]
               PROVE  Run!MadeSince(id)'
    BY Zenon DEF PlanInv, Run!MadeSince
  <2>5. id = obs.id
    BY <2>4
  <2> QED
    BY <2>2, <2>3, <2>5, Zenon
<1>4. ASSUME NEW success \in BOOLEAN, Moves(success) PROVE PlanInv'
  <2>1. execution.pending # <<>> /\ execution'.pending = Tail(execution.pending)
        /\ checks' = checks /\ ~Turns
    BY <1>4, MovingSays DEF Moves, Turns
  <2>2. \A n \in DOMAIN oracle' \ DOMAIN oracle : oracle'[n].event # "refresh_identity"
    BY <2>1, RowsAdded
  <2>3. DOMAIN oracle \subseteq DOMAIN oracle' /\ \A n \in DOMAIN oracle : oracle'[n] = oracle[n]
    BY RowsAdded
  <2>4. Run!Places("refresh_identity")' = Run!Places("refresh_identity")
    BY <2>2, <2>3, Zenon DEF Run!Places
  <2>5. \A n \in Run!Places("refresh_identity") : oracle'[n] = oracle[n]
    BY <2>3, Zenon DEF Run!Places
  <2>6. Run!Rows("refresh_identity")' = Run!Rows("refresh_identity")
    BY <2>4, <2>5, Zenon DEF Run!Rows
  <2>7. \A id : Run!MadeSince(id) => Run!MadeSince(id)'
    BY <1>2, <2>1, <2>6, Zenon
  <2>8. execution.pending \in Seq(Nat)
    BY DEF ExecutionShape, Executions
  <2>9. \A k \in DOMAIN execution'.pending :
          k + 1 \in DOMAIN execution.pending /\ execution'.pending[k] = execution.pending[k + 1]
    BY <2>1, <2>8
  <2> SUFFICES ASSUME NEW k \in DOMAIN execution'.pending, NEW id, id = execution'.pending[k]
               PROVE  Run!MadeSince(id)'
    BY Zenon DEF PlanInv, Run!MadeSince
  <2>10. Run!MadeSince(execution.pending[k + 1])
    BY <2>9, Zenon DEF PlanInv
  <2> QED
    BY <2>7, <2>9, <2>10, Zenon
<1>5. CASE Accepts \/ Leaves \/ UNCHANGED Run!vars
  <2>1. UNCHANGED <<execution, oracle, checks>>
    BY <1>5, Zenon DEF Accepts, Leaves, Run!vars
  <2> QED
    BY <2>1, Zenon DEF PlanInv, Run!MadeSince, Run!Rows, Run!Places, Run!Last
<1>6. CASE Fails \/ Turns \/ \E decision \in Run!Verdicts : Rules(decision)
  BY <1>1, <1>6, FailingSays, TurningSays, RulingSays, Zenon
<1> QED
  BY <1>3, <1>4, <1>5, <1>6, ExecutionSteps, Zenon

LEMMA VerdictKept ==
    ASSUME Run!BudgetAssumption, ExecutionShape, JournalShape, StatusInv, RecoveryInv, PaidInv,
           VerdictInv, JournalShape', [Run!Next]_(Run!vars)
    PROVE  VerdictInv'
<1>0. checks \in Seq(Rulings) /\ execution.status \in Statuses
  BY DEF JournalShape, ExecutionShape, Executions
<1> USE DEF Running, Run!Final
<1>1. CASE Fails
  BY <1>1, FailingSays DEF Fails, VerdictInv
<1>2. CASE Accepts
  <2>1. execution.status = "accepted" /\ checks = <<>> /\ UNCHANGED <<execution, checks>>
    BY <1>2 DEF Accepts, StatusInv
  <2> QED
    BY <2>1 DEF VerdictInv
<1>3. CASE Plans
  <2>1. execution'.status = "executing" /\ place = "loop" /\ Running /\ checks' = checks
    BY <1>3, PlanningSays DEF Plans, Run!Continues
  <2> QED
    BY <2>1, Zenon DEF VerdictInv, Run!Last
<1>4. ASSUME NEW success \in BOOLEAN, Moves(success) PROVE VerdictInv'
  <2>1. execution'.status = "executing" /\ place = "loop" /\ Running /\ checks' = checks
    BY <1>4, MovingSays DEF Moves
  <2> QED
    BY <2>1, Zenon DEF VerdictInv, Run!Last
<1>5. CASE Turns
  BY <1>5, TurningSays DEF Turns, VerdictInv
<1>6. ASSUME NEW decision \in Run!Verdicts, Rules(decision) PROVE VerdictInv'
  <2> DEFINE row == [step |-> execution.steps, obs |-> obs, decision |-> decision]
  <2>1. row \in Rulings
    BY DEF Rulings, ExecutionShape, Executions, Run!BudgetAssumption
  <2>2. checks' = Append(checks, row) /\ obs' = obs /\ physical' = physical /\ place = "check"
    BY <1>6 DEF Rules
  <2>3. row.step = execution.steps /\ row.obs = obs /\ row.decision = decision
    OBVIOUS
  <2> HIDE DEF row
  <2>4. checks' # <<>> /\ Run!Last(checks') = row
    BY <1>0, <2>1, <2>2, VerdictCounts
  <2>5. execution'.status = Run!Verdict(decision)
    BY <1>6, RulingSays
  <2>6. /\ Run!Verdict(decision) = "complete" => decision = "complete"
        /\ Run!Verdict(decision) \in {"accepted", "executing"} => decision = "incomplete"
    BY DEF Run!Verdict, Run!Verdicts
  <2>7. physical = execution.steps
    BY <2>2 DEF StatusInv, PaidInv
  <2>8. Run!Last(checks)' = row
    BY <2>4 DEF Run!Last
  <2> QED
    BY <2>2, <2>3, <2>4, <2>5, <2>6, <2>7, <2>8 DEF VerdictInv
<1>7. CASE Leaves
  BY <1>7, Zenon DEF Leaves, VerdictInv, Run!Last
<1>8. CASE UNCHANGED Run!vars
  BY <1>8, Zenon DEF Run!vars, VerdictInv, Run!Last
<1> QED
  BY <1>1, <1>2, <1>3, <1>4, <1>5, <1>6, <1>7, <1>8, ExecutionSteps, Zenon

-----------------------------------------------------------------------------
LEMMA ExecutionStarts ==
    ASSUME Run!BudgetAssumption, Run!Init
    PROVE  ExecutionInv
<1>1. /\ interruptAt \in 0..MaxSteps /\ place = "start"
      /\ execution = [status |-> "accepted", steps |-> 0, revision |-> 0, recoveries |-> 0,
                      pending |-> <<>>, chunkRevision |-> -1]
      /\ obs = [id |-> 0, rev |-> 0] /\ boundary = FALSE /\ physical = 0
      /\ oracle = <<>> /\ checks = <<>>
  BY DEF Run!Init, Run!NoObservation
<1>2. /\ execution.status = "accepted" /\ execution.steps = 0 /\ execution.revision = 0
      /\ execution.recoveries = 0 /\ execution.pending = <<>> /\ execution.chunkRevision = -1
  BY <1>1
<1>3. execution \in Executions(Statuses)
  <2>1. "accepted" \in Statuses /\ 0 \in 0..MaxSteps /\ 0 \in 0..1 /\ -1 \in {-1, 0, 1}
    BY DEF Statuses, Run!BudgetAssumption
  <2> QED
    BY <1>1, <2>1, NothingPending DEF Executions
<1>4. ExecutionShape /\ JournalShape
  <2>1. obs \in Identities /\ obs.rev = 0
    BY <1>1 DEF Identities
  <2>2. Len(execution.pending) = 0
    BY <1>2, NothingPending
  <2>3. JournalShape
    <3>1. \A S : <<>> \in Seq(S)
      OBVIOUS
    <3>2. oracle \in Seq(Returns \cup Scored \cup Refreshing) /\ checks \in Seq(Rulings)
      BY <1>1, <3>1, Zenon
    <3>3. physical \in Nat
      BY <1>1
    <3> QED
      BY <3>2, <3>3, Zenon DEF JournalShape
  <2>4. ExecutionShape
    <3>1. Len(execution.pending) <= Interval /\ obs.rev <= execution.revision
      BY <1>2, <2>1, <2>2 DEF Run!BudgetAssumption
    <3>2. /\ place \in {"start", "loop", "interrupt", "check", "end"}
          /\ boundary \in BOOLEAN /\ physical \in Nat
      BY <1>1
    <3> QED
      BY <1>1, <1>3, <2>1, <3>1, <3>2, Zenon DEF ExecutionShape
  <2> QED
    BY <2>3, <2>4
<1>5. StatusInv /\ RecoveryInv /\ PaidInv
  BY <1>1, <1>2 DEF StatusInv, RecoveryInv, PaidInv, Run!PaidControls, Run!BudgetAssumption
<1>6. NoneSkipped(0)
  BY <1>1, <1>2 DEF NoneSkipped, Run!LastChecked, Run!BudgetAssumption
<1>7. IntervalInv
  BY <1>6 DEF IntervalInv
<1>8. /\ \A event : Run!Places(event) = {}
      /\ Run!Rows("scored_step") = {}
  BY <1>1 DEF Run!Places, Run!Rows
<1>9. JournalInv
  <2>1. Cardinality({}) = 0 /\ 1..0 = {}
    BY FS_EmptySet
  <2>2. {r.step : r \in Run!Rows("scored_step")} = {}
    BY <1>8
  <2> QED
    BY <1>1, <1>8, <2>1, <2>2, SameCount, Zenon DEF JournalInv
<1>10. IdentityInv /\ PlanInv /\ VerdictInv
  BY <1>1, <1>2 DEF IdentityInv, PlanInv, VerdictInv
<1> QED
  BY <1>4, <1>5, <1>7, <1>9, <1>10 DEF ExecutionInv

LEMMA ExecutionKept ==
    ASSUME Run!BudgetAssumption, ExecutionInv, [Run!Next]_(Run!vars)
    PROVE  ExecutionInv'
<1>1. /\ ExecutionShape /\ JournalShape /\ StatusInv /\ RecoveryInv /\ PaidInv
      /\ IntervalInv /\ JournalInv /\ IdentityInv /\ PlanInv /\ VerdictInv
  BY DEF ExecutionInv
<1>2. ExecutionShape'
  BY <1>1, ExecutionShapeKept
<1>3. JournalShape'
  BY <1>1, <1>2, JournalShapeKept
<1>4. StatusInv' /\ RecoveryInv' /\ PaidInv'
  BY <1>1, StatusKept
<1>5. IntervalInv'
  BY <1>1, IntervalKept
<1>6. JournalInv'
  BY <1>1, <1>2, JournalKept
<1>7. IdentityInv'
  BY <1>1, <1>2, <1>3, <1>4, <1>6, IdentityKept
<1>8. PlanInv'
  BY <1>1, <1>2, <1>3, PlanKept
<1>9. VerdictInv'
  BY <1>1, <1>3, VerdictKept
<1> QED
  BY <1>2, <1>3, <1>4, <1>5, <1>6, <1>7, <1>8, <1>9 DEF ExecutionInv

(* What the invariant says of every state. *)
ExecutionHolds ==
    /\ Run!TypeOK /\ Run!PaidControls /\ Run!CheckedOften /\ Run!CompleteIsChecked
    /\ Run!EndsDecided /\ Run!PassIsHonest

LEMMA ExecutionSays ==
    ASSUME Run!BudgetAssumption, ExecutionInv
    PROVE  ExecutionHolds
<1>0. /\ ExecutionShape /\ JournalShape /\ StatusInv /\ RecoveryInv /\ PaidInv
      /\ IntervalInv /\ JournalInv /\ IdentityInv /\ VerdictInv
  BY DEF ExecutionInv
<1>1. Run!TypeOK
  BY <1>0 DEF ExecutionShape, Executions, Statuses, Identities, RecoveryInv, Run!TypeOK, Run!Final
<1>2. Run!PaidControls
  BY <1>0 DEF PaidInv
<1>3. Run!CheckedOften
  <2>1. PICK q \in Nat : NoneSkipped(q)
    BY <1>0 DEF IntervalInv
  <2> DEFINE past == q * Interval
  <2>2. past \in Nat /\ past <= Run!LastChecked /\ execution.steps <= past + Interval
        /\ Interval \in Nat
    BY <2>1 DEF NoneSkipped, Run!BudgetAssumption
  <2> HIDE DEF past
  <2>3. physical <= execution.steps /\ physical \in Nat /\ execution.steps \in Nat
    BY <1>0, <1>2 DEF Run!PaidControls, ExecutionShape, Executions, Run!BudgetAssumption
  <2>4. Run!LastChecked \in Int
    <3>1. CASE checks = <<>>
      BY <3>1 DEF Run!LastChecked
    <3>2. CASE checks # <<>>
      <4>1. checks[Len(checks)] \in Rulings
        BY <1>0, <3>2 DEF JournalShape
      <4> QED
        BY <3>2, <4>1 DEF Run!LastChecked, Run!Last, Rulings
    <3> QED
      BY <3>1, <3>2
  <2> QED
    BY <2>2, <2>3, <2>4 DEF Run!CheckedOften
<1>4. Run!CompleteIsChecked
  BY <1>0 DEF VerdictInv, Run!CompleteIsChecked
<1>5. execution.status # "ERROR" => Run!CompleteLog
  <2> HAVE execution.status # "ERROR"
  <2>1. physical = execution.steps
    BY <1>0 DEF PaidInv
  <2>2. /\ Run!Cardinality(Run!Places("step_returned")) = execution.steps
        /\ {r.step : r \in Run!Rows("scored_step")} = 1..execution.steps
    BY <1>0, <2>1, SameCount, Zenon DEF JournalInv
  <2>3. \A c \in Run!ToSet(checks) : Run!Identity(c)
    BY <1>0, Zenon DEF IdentityInv, Run!ToSet
  <2> QED
    BY <2>2, <2>3, Zenon DEF Run!CompleteLog
<1>6. Run!EndsDecided
  BY <1>0, <1>5 DEF StatusInv, Run!EndsDecided
<1>7. Run!PassIsHonest
  <2> SUFFICES ASSUME Run!ScorePasses
               PROVE  /\ Run!Cardinality(Run!Places("scored_step")) = physical
                      /\ execution.status = "complete" =>
                           \E t \in Run!Truth(physical) : t.success
    BY DEF Run!PassIsHonest
  <2>1. execution.status # "ERROR" /\ Run!FalseClaims = {}
    BY DEF Run!ScorePasses, Run!CompleteLog
  <2>2. Run!Cardinality(Run!Places("scored_step")) = physical
    BY <1>0, <2>1, SameCount, Zenon DEF JournalInv
  <2>3. ASSUME execution.status = "complete" PROVE \E t \in Run!Truth(physical) : t.success
    <3>1. /\ checks # <<>> /\ Run!Last(checks).decision = "complete"
          /\ Run!Last(checks).step = physical
      BY <1>0, <2>3 DEF VerdictInv
    <3>2. Len(checks) \in DOMAIN checks
      BY <1>0, <3>1 DEF JournalShape
    <3>3. Run!Last(checks) \in Run!ToSet(checks)
      BY <3>2, Zenon DEF Run!Last, Run!ToSet
    <3> QED
      BY <2>1, <3>1, <3>3, Zenon DEF Run!FalseClaims
  <2> QED
    BY <2>2, <2>3
<1> QED
  BY <1>1, <1>2, <1>3, <1>4, <1>6, <1>7 DEF ExecutionHolds

(* ... and of every control that is made. *)
LEMMA ControlSays ==
    ASSUME Run!BudgetAssumption, ExecutionInv, [Run!Next]_(Run!vars)
    PROVE  physical' > physical =>
             /\ Run!MadeSince(Head(execution.pending))
             /\ ~boundary
             /\ checks # <<>> => Run!Last(checks).decision = "incomplete"
<1> SUFFICES ASSUME physical' > physical
             PROVE  /\ Run!MadeSince(Head(execution.pending)) /\ ~boundary
                    /\ checks # <<>> => Run!Last(checks).decision = "incomplete"
  OBVIOUS
<1>1. place = "loop" /\ Run!Authorized
  <2>0. physical' # physical
    BY DEF ExecutionInv, ExecutionShape
  <2>1. CASE Fails
    BY <2>0, <2>1, Zenon DEF Fails, FailsAt, FailsMoving
  <2>2. ASSUME NEW success \in BOOLEAN, Moves(success) PROVE place = "loop" /\ Run!Authorized
    BY <2>2 DEF Moves
  <2>3. CASE Accepts \/ Plans \/ Turns \/ (\E decision \in Run!Verdicts : Rules(decision))
             \/ Leaves \/ UNCHANGED Run!vars
    BY <2>0, <2>3, Zenon DEF Accepts, Plans, Turns, Rules, Leaves, Run!vars
  <2> QED
    BY <2>1, <2>2, <2>3, ExecutionSteps, Zenon
<1>2. execution.status = "executing" /\ execution.pending # <<>>
  BY <1>1 DEF Run!Authorized
<1>3. Run!MadeSince(Head(execution.pending))
  <2>1. execution.pending \in Seq(Nat)
    BY DEF ExecutionInv, ExecutionShape, Executions
  <2>2. 1 \in DOMAIN execution.pending /\ Head(execution.pending) = execution.pending[1]
    BY <1>2, <2>1
  <2> QED
    BY <2>2 DEF ExecutionInv, PlanInv
<1>4. ~boundary /\ (checks # <<>> => Run!Last(checks).decision = "incomplete")
  BY <1>1, <1>2 DEF ExecutionInv, StatusInv, VerdictInv, Running
<1> QED
  BY <1>3, <1>4

(* An execution pays for every control the robot makes, asks for a verdict   *)
(* at least once a chunk, executes nothing that was planned before the last  *)
(* verdict or interruption or after the end, and what it claims in the end   *)
(* is what its two logs bear out: for every budget and every interval,       *)
(* whatever fails, ends early or is interrupted on the way.                  *)
THEOREM ExecutionIsHonest ==
    ASSUME Run!BudgetAssumption
    PROVE  Run!Spec => []ExecutionHolds /\ Run!PlannedSinceCheck /\ Run!NothingAfterTheEnd
<1>1. Run!Init => ExecutionInv
  BY ExecutionStarts
<1>2. ExecutionInv /\ [Run!Next]_(Run!vars) => ExecutionInv'
  BY ExecutionKept
<1>3. ExecutionInv => ExecutionHolds
  BY ExecutionSays
<1>4. ExecutionInv /\ [Run!Next]_(Run!vars) =>
        [physical' > physical => Run!MadeSince(Head(execution.pending))]_(Run!vars)
  BY ControlSays, Zenon
<1>5. ExecutionInv /\ [Run!Next]_(Run!vars) =>
        [physical' > physical =>
           /\ ~boundary
           /\ checks # <<>> => Run!Last(checks).decision = "incomplete"]_(Run!vars)
  BY ControlSays, Zenon
<1> QED
  BY <1>1, <1>2, <1>3, <1>4, <1>5, PTL
     DEF Run!Spec, Run!PlannedSinceCheck, Run!NothingAfterTheEnd
=============================================================================
