----------------------------- MODULE VisualData -----------------------------
(* From the rendered demonstrations to the held-out numbers of the frozen    *)
(* completion model: scripts/engineering/train_visual_completion.py (prepare *)
(* and load_split) and evaluate_visual_completion.py.                        *)
(*                                                                           *)
(* A preparation renders one shard per episode and writes the manifest, with *)
(* the split and the hash of every shard, last; it refuses a directory that  *)
(* already has a manifest, and may be killed at any time and started again   *)
(* with another seed.  Renderings of one episode may be equal or differ, and *)
(* the shards are plain files that may be copied from another directory.     *)
(* The team writes the hashes of one checkpoint and of one manifest into the *)
(* program; only those are evaluated.  One preparation is under way at a     *)
(* time, and no shard is replaced between its hash and its reading.  Which   *)
(* epoch is kept is the subject of ModelSelection.                           *)
EXTENDS Integers, Sequences, SequencesExt, FiniteSets

CONSTANTS
    Episodes,       \* demonstrations
    SplitOf,        \* seed -> episode -> "train", "validation" or "test"
    Directories,    \* data directories
    Renderings,     \* contents a shard may have, 1 and up
    MaxPreparations,\* bound: preparations started
    MaxCopies,      \* bound: shards replaced by hand
    MaxTrainings    \* bound: checkpoints trained

Seeds == DOMAIN SplitOf

VisualDataAssumption ==
    /\ 0 \notin Seeds
    /\ \A s \in Seeds : SplitOf[s] \in [Episodes -> {"train", "validation", "test"}]
    /\ Renderings \subseteq Nat \ {0}
    /\ {MaxPreparations, MaxCopies, MaxTrainings} \subseteq Nat

VARIABLES
    shard,         \* directory -> episode -> its rendering; 0: none or torn
    manifest,      \* directory -> the manifest, or NoManifest
    preparer,      \* the preparation under way
    preparations,
    copies,
    trainer,       \* the training under way
    checkpoints,   \* of each: the manifest it names, the episodes and shards it read
    frozen,        \* the frozen checkpoint (its number, 0: none yet) and manifest
    evaluation     \* the one held-out evaluation

vars == <<shard, manifest, preparer, preparations, copies, trainer, checkpoints,
          frozen, evaluation>>

NoManifest == [seed |-> 0, hash |-> [e \in Episodes |-> 0]]
NoJob == [directory |-> "none", seed |-> 0, done |-> {},
          hash |-> [e \in Episodes |-> 0]]
NoTraining == [directory |-> "none", manifest |-> NoManifest, named |-> NoManifest]
NotEvaluated == [stage |-> "none", directory |-> "none",
                 manifest |-> NoManifest, rows |-> <<>>]

InSplit(seed, split) == {e \in Episodes : SplitOf[seed][e] = split}

Init ==
    /\ shard = [d \in Directories |-> [e \in Episodes |-> 0]]
    /\ manifest = [d \in Directories |-> NoManifest]
    /\ preparer = NoJob
    /\ preparations = 0 /\ copies = 0 /\ trainer = NoTraining
    /\ checkpoints = <<>> /\ frozen = [checkpoint |-> 0, manifest |-> NoManifest]
    /\ evaluation = NotEvaluated

(* Preparing.                                                                *)
StartPreparing(d, seed) ==
    /\ preparer = NoJob /\ preparations < MaxPreparations
    /\ manifest[d] = NoManifest
    /\ preparations' = preparations + 1
    /\ preparer' = [NoJob EXCEPT !.directory = d, !.seed = seed]
    /\ UNCHANGED <<shard, manifest, copies, trainer, checkpoints, frozen, evaluation>>

(* The shard and its hash, taken from the file just written.                 *)
Render(e, rendering) ==
    /\ preparer # NoJob /\ e \notin preparer.done
    /\ shard' = [shard EXCEPT ![preparer.directory][e] = rendering]
    /\ preparer' = [preparer EXCEPT !.done = @ \cup {e}, !.hash[e] = rendering]
    /\ UNCHANGED <<manifest, preparations, copies, trainer, checkpoints, frozen, evaluation>>

WriteManifest ==
    /\ preparer # NoJob /\ preparer.done = Episodes
    /\ manifest' = [manifest EXCEPT ![preparer.directory] =
           [seed |-> preparer.seed, hash |-> preparer.hash]]
    /\ preparer' = NoJob
    /\ UNCHANGED <<shard, preparations, copies, trainer, checkpoints, frozen, evaluation>>

(* Killed between two files or inside one, or stopped by the check that both *)
(* labels occur in every split.                                              *)
KillPreparer ==
    /\ preparer # NoJob
    /\ preparer' = NoJob
    /\ \/ UNCHANGED shard
       \/ \E e \in Episodes \ preparer.done :
              shard' = [shard EXCEPT ![preparer.directory][e] = 0]
    /\ UNCHANGED <<manifest, preparations, copies, trainer, checkpoints, frozen, evaluation>>

(* A shard is copied over from another directory.                            *)
Copy(from, d, e) ==
    /\ copies < MaxCopies /\ shard[from][e] # shard[d][e]
    /\ shard' = [shard EXCEPT ![d][e] = shard[from][e]]
    /\ copies' = copies + 1
    /\ UNCHANGED <<manifest, preparer, preparations, trainer, checkpoints, frozen, evaluation>>

Loads(d, m, e) == shard[d][e] # 0 /\ shard[d][e] = m.hash[e]

(* Training reads the manifest, and then the file again for the hash that    *)
(* goes into its configuration; then the train and validation shards.        *)
BeginTraining(d) ==
    /\ trainer = NoTraining /\ Len(checkpoints) < MaxTrainings
    /\ manifest[d] # NoManifest
    /\ trainer' = [NoTraining EXCEPT !.directory = d, !.manifest = manifest[d]]
    /\ UNCHANGED <<shard, manifest, preparer, preparations, copies, checkpoints, frozen, evaluation>>

NameManifest ==
    /\ trainer # NoTraining /\ trainer.named = NoManifest
    /\ trainer' = [trainer EXCEPT !.named = manifest[trainer.directory]]
    /\ UNCHANGED <<shard, manifest, preparer, preparations, copies, checkpoints, frozen, evaluation>>

Train ==
    LET m == trainer.manifest
        used == InSplit(m.seed, "train") \cup InSplit(m.seed, "validation")
    IN /\ trainer.named # NoManifest
       /\ checkpoints' =
              IF \A e \in used : Loads(trainer.directory, m, e)
              THEN Append(checkpoints, [named |-> trainer.named, manifest |-> m,
                             read |-> [e \in used |-> shard[trainer.directory][e]]])
              ELSE checkpoints
       /\ trainer' = NoTraining
       /\ UNCHANGED <<shard, manifest, preparer, preparations, copies, frozen, evaluation>>

(* CHECKPOINT_SHA256 and MANIFEST_SHA256 are written into the program once.  *)
Freeze(n, d) ==
    /\ frozen.checkpoint = 0 /\ n \in DOMAIN checkpoints /\ manifest[d] # NoManifest
    /\ frozen' = [checkpoint |-> n, manifest |-> manifest[d]]
    /\ UNCHANGED <<shard, manifest, preparer, preparations, copies, trainer, checkpoints, evaluation>>

(* Slip: the manifest of the data is not compared with the frozen one.       *)
AnyManifest(d) == manifest[d] # NoManifest
FrozenManifest(d) == manifest[d] = frozen.manifest

Provenance == checkpoints[frozen.checkpoint].named = frozen.manifest

StartEvaluation(d) ==
    /\ evaluation.stage = "none" /\ frozen.checkpoint # 0
    /\ FrozenManifest(d) /\ Provenance
    /\ evaluation' = [NotEvaluated EXCEPT !.stage = "running", !.directory = d,
                                          !.manifest = manifest[d]]
    /\ UNCHANGED <<shard, manifest, preparer, preparations, copies, trainer, checkpoints, frozen>>

(* The evaluation works from the manifest it read when it started.           *)
Held == InSplit(evaluation.manifest.seed, "test")
Predicted == {evaluation.rows[n].episode : n \in DOMAIN evaluation.rows}

ShardUnchanged(e) == shard[evaluation.directory][e] = evaluation.manifest.hash[e]

(* A changed shard raises; what was predicted before it stays in a directory *)
(* that no later evaluation will open.                                       *)
PredictEpisode(e) ==
    /\ evaluation.stage = "running" /\ e \in Held \ Predicted
    /\ IF ShardUnchanged(e)
       THEN evaluation' = [evaluation EXCEPT !.rows =
                Append(@, [episode |-> e, shard |-> shard[evaluation.directory][e]])]
       ELSE evaluation' = [evaluation EXCEPT !.stage = "broken"]
    /\ UNCHANGED <<shard, manifest, preparer, preparations, copies, trainer, checkpoints, frozen>>

Summarise ==
    /\ evaluation.stage = "running" /\ Predicted = Held
    /\ evaluation' = [evaluation EXCEPT !.stage = "completed"]
    /\ UNCHANGED <<shard, manifest, preparer, preparations, copies, trainer, checkpoints, frozen>>

KillEvaluation ==
    /\ evaluation.stage = "running"
    /\ evaluation' = [evaluation EXCEPT !.stage = "broken"]
    /\ UNCHANGED <<shard, manifest, preparer, preparations, copies, trainer, checkpoints, frozen>>

Next ==
    \/ \E d \in Directories, s \in Seeds : StartPreparing(d, s)
    \/ \E e \in Episodes, r \in Renderings : Render(e, r)
    \/ WriteManifest \/ KillPreparer
    \/ \E from, d \in Directories, e \in Episodes : Copy(from, d, e)
    \/ \E d \in Directories : BeginTraining(d) \/ StartEvaluation(d)
    \/ NameManifest \/ Train
    \/ \E n \in 1 .. MaxTrainings, d \in Directories : Freeze(n, d)
    \/ \E e \in Episodes : PredictEpisode(e)
    \/ Summarise \/ KillEvaluation

Spec == Init /\ [][Next]_vars

-----------------------------------------------------------------------------
TypeOK ==
    /\ shard \in [Directories -> [Episodes -> Renderings \cup {0}]]
    /\ preparer.done \subseteq Episodes /\ copies \in 0 .. MaxCopies
    /\ frozen.checkpoint \in 0 .. Len(checkpoints)
    /\ evaluation.stage \in {"none", "running", "completed", "broken"}

(* A completed evaluation predicts every test episode once, and none the     *)
(* frozen checkpoint was trained or selected on, although a directory may be *)
(* prepared anew under another split after a kill, and others hold the same  *)
(* episodes split another way.                                               *)
HeldOutStaysHeldOut ==
    evaluation.stage = "completed" =>
        LET seen == DOMAIN checkpoints[frozen.checkpoint].read IN
        /\ Predicted \cap seen = {}
        /\ Predicted \cup seen = Episodes
        /\ Len(evaluation.rows) = Cardinality(Predicted)

(* Training and evaluation saw the renderings their manifests list: none was *)
(* replaced or torn since.                                                   *)
OneRendering ==
    /\ \A n \in DOMAIN checkpoints : \A e \in DOMAIN checkpoints[n].read :
           checkpoints[n].read[e] = checkpoints[n].manifest.hash[e]
    /\ \A n \in DOMAIN evaluation.rows :
           evaluation.rows[n].shard = evaluation.manifest.hash[evaluation.rows[n].episode]
=============================================================================
