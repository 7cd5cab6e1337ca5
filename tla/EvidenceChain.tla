---------------------------- MODULE EvidenceChain ----------------------------
(***************************************************************************)
(* The completion model's evidence, from its demonstrations to the         *)
(* acceptance verdict: the stages of completion_v2.py, completion_controls *)
(* .py, completion_adapt.py and completion_acceptance.py in                *)
(* scripts/engineering.  A stage is a process that makes its directory     *)
(* once, reads what earlier stages left, works, and writes its manifest    *)
(* last.  Stages are started by hand, in any order and beside each other;  *)
(* any of them may fail or be killed at any step; and the protocol and the *)
(* sources can be edited between their starts.                             *)
(*                                                                         *)
(* Nobody edits a file in the moment between a stage's reading it and its  *)
(* hashing it: reading the protocol and verify_lock are one step.          *)
(***************************************************************************)
EXTENDS Integers, Sequences, FiniteSets, Functions

CONSTANTS Layouts,   \* initial object layouts the simulator can produce
          Demos,     \* the layouts of the demonstrations
          Seeds,     \* fresh, collection, acceptance |-> number of episodes
          Versions,  \* versions of the protocol and sources
          Started,   \* the stages that are run here...
          Done,      \* ...and those whose manifests are there at the start
          MaxDead    \* stages that may fail here

VARIABLES dirs,     \* stage |-> how far its directory has come
          content,  \* stage |-> what its manifest says
          files,    \* the version of the protocol and sources now in place
          verdict   \* verdict.json
vars == <<dirs, content, files, verdict>>

Collecting == {"fresh", "collection", "acceptance"}
Locking == {"acceptance", "challenges", "paired", "live"}
Stages == Collecting \union Locking \union
            {"development", "training", "evaluation", "nuisance", "temporal",
             "adapt_data", "adaptation", "dev_live", "freeze"}

ChainAssumption ==
    /\ Demos \subseteq Layouts /\ 1 \in Versions /\ MaxDead \in Nat
    /\ Seeds \in [Collecting -> Nat]
    /\ Started \subseteq Stages
    /\ Done \subseteq Stages \ (Collecting \union Locking \union Started)

Nothing == [layouts |-> {}, passed |-> FALSE, version |-> 0]

TypeOK ==
    /\ dirs \in [Stages -> {"missing", "begun", "working", "complete", "dead",
                            "locked", "late"}]
    /\ content \in [Stages -> [layouts : SUBSET Layouts, passed : BOOLEAN,
                               version : Versions \union {0}]]
    /\ \A st \in Collecting : Cardinality(content[st].layouts) <= Seeds[st]
    /\ files \in Versions
    /\ verdict \in {"none", "GO", "NO-GO", "INCOMPLETE"}

Init ==
    /\ dirs = [st \in Stages |-> IF st \in Done THEN "complete" ELSE "missing"]
    /\ content = [st \in Stages |-> Nothing]
    /\ files = 1
    /\ verdict = "none"

Complete(st) == dirs[st] = "complete"
Goes(st, phase) == dirs' = [dirs EXCEPT ![st] = phase]

-----------------------------------------------------------------------------
(* verify_lock: the protocol and every source are those of freeze.json, which
   is on disk before the freeze's own smoke test. *)
FreezeWritten == dirs["freeze"] \in {"locked", "complete", "late"}
(* Slip: only that a freeze exists is looked at. *)
AnyLock == FreezeWritten
Locked == FreezeWritten /\ content["freeze"].version = files

(* What a stage looks at before it makes its directory... *)
Checked(st) ==
    CASE st = "fresh" -> Complete("training")
      [] st = "evaluation" -> Complete("training") /\ Complete("fresh")
      [] st \in Locking -> Locked
      [] OTHER -> TRUE
(* ...and what it reads afterwards: without it the directory is there and the
   stage is over. *)
Inputs(st) ==
    CASE st = "training" -> {"development"}
      [] st = "collection" -> {"fresh"}
      [] st \in {"nuisance", "temporal"} -> {"collection", "training"}
      [] st = "adapt_data" -> {"collection", "nuisance"}
      [] st = "adaptation" -> {"development", "adapt_data", "training", "collection"}
      [] st = "dev_live" -> {"adaptation", "collection"}
      [] st = "freeze" -> {"adaptation", "collection", "fresh"}
      [] st = "acceptance" -> {"collection", "fresh"}
      [] st = "challenges" -> {"acceptance"}
      [] st = "paired" -> {"acceptance", "challenges", "training"}
      [] st = "live" -> {"acceptance"}
      [] OTHER -> {}

Fresh(st) == dirs[st] = "missing"

Begin(st) ==
    /\ Fresh(st) /\ Checked(st)
    /\ Goes(st, "begun")
    /\ content' = [content EXCEPT ![st].version = files]
    /\ UNCHANGED <<files, verdict>>

ReadInputs(st) ==
    /\ dirs[st] = "begun"
    /\ Goes(st, IF \A i \in Inputs(st) : Complete(i) THEN "working" ELSE "dead")
    /\ UNCHANGED <<content, files, verdict>>

(* An exception, a kill: what is on disk stays, a manifest may be half written
   (save is a plain write_text), and the directory is never made again. *)
Die(st) ==
    /\ dirs[st] \in {"begun", "working"}
    /\ Cardinality({d \in Stages : dirs[d] = "dead"}) < MaxDead
    /\ Goes(st, "dead")
    /\ UNCHANGED <<content, files, verdict>>

-----------------------------------------------------------------------------
(* The three stages that roll the policy out.  Each keeps the layouts of its
   episodes and refuses one that has been used. *)

SeedsLeft(st) == Cardinality(content[st].layouts) < Seeds[st]

Episode(st, used) ==
    /\ dirs[st] = "working" /\ SeedsLeft(st)
    /\ \E layout \in Layouts :
         IF layout \in used \union content[st].layouts
         THEN Goes(st, "dead") /\ UNCHANGED content
         ELSE content' = [content EXCEPT ![st].layouts = @ \union {layout}] /\ UNCHANGED dirs
    /\ UNCHANGED <<files, verdict>>

(* The end of a stage: its manifest or summary, which keeps whether the gate
   that the stage computes was passed. *)
Finish(st, outcomes) ==
    /\ dirs[st] = "working"
    /\ st \in Collecting => Cardinality(content[st].layouts) = Seeds[st]
    /\ \E passed \in outcomes : content' = [content EXCEPT ![st].passed = passed]
    /\ Goes(st, "complete")
    /\ UNCHANGED <<files, verdict>>

NoGate == {FALSE}
Only(gate) == IF gate THEN BOOLEAN ELSE {FALSE}

(* completion_v2.py *)
Prepare == Finish("development", NoGate)
Train == Finish("training", NoGate)
FreshHoldout == Episode("fresh", Demos) \/ Finish("fresh", NoGate)
Evaluate == Finish("evaluation", BOOLEAN)

(* completion_controls.py *)
UsedLayouts == Demos \union content["fresh"].layouts
Collect == Episode("collection", UsedLayouts) \/ Finish("collection", NoGate)
Nuisance == Finish("nuisance", NoGate)
Temporal == Finish("temporal", NoGate)

(* completion_adapt.py: a candidate that failed its gate is not driven live,
   and its live summary says so. *)
AdaptData == Finish("adapt_data", NoGate)
Adapt == Finish("adaptation", BOOLEAN)
DevLive == Finish("dev_live", Only(content["adaptation"].passed))

(* completion_acceptance.py: the challenges pass here when they are as many as
   the protocol expects, without which the paired evaluation cannot. *)
PriorLayouts == Demos \union content["fresh"].layouts \union content["collection"].layouts
AcceptanceEpisodes == Episode("acceptance", PriorLayouts) \/ Finish("acceptance", NoGate)
Challenges == Finish("challenges", BOOLEAN)
Paired == Finish("paired", Only(content["challenges"].passed))
Live == Finish("live", BOOLEAN)

Stage ==
    \/ Prepare \/ Train \/ FreshHoldout \/ Evaluate
    \/ Collect \/ Nuisance \/ Temporal \/ AdaptData \/ Adapt \/ DevLive
    \/ AcceptanceEpisodes \/ Challenges \/ Paired \/ Live

(* freeze.json, with the hashes of what is there at that moment, and then a
   smoke test with the frozen checkpoint, whose failure leaves it in place. *)
Lock ==
    /\ dirs["freeze"] = "working"
    /\ Goes("freeze", "locked")
    /\ content' = [content EXCEPT !["freeze"].version = files]
    /\ UNCHANGED <<files, verdict>>
Smoke ==
    /\ dirs["freeze"] = "locked"
    /\ \E end \in {"complete", "late"} : Goes("freeze", end)
    /\ UNCHANGED <<content, files, verdict>>

Passed == content["paired"].passed /\ content["live"].passed
(* The verdict may be computed again, and overwrites the one before it. *)
Verdict ==
    /\ Locked /\ Complete("paired") /\ Complete("live")
    /\ verdict' = IF ~content["challenges"].passed THEN "INCOMPLETE"
                  ELSE IF Passed THEN "GO" ELSE "NO-GO"
    /\ UNCHANGED <<dirs, content, files>>

(* Whoever runs the stages edits the protocol or a source. *)
Edit ==
    /\ files' \in Versions
    /\ UNCHANGED <<dirs, content, verdict>>

-----------------------------------------------------------------------------
Next ==
    \/ \E st \in Started : Begin(st) \/ ReadInputs(st) \/ Die(st)
    \/ Stage \/ Lock \/ Smoke \/ Verdict \/ Edit
Spec == Init /\ [][Next]_vars

-----------------------------------------------------------------------------
(* No episode the acceptance is decided on started from a layout that was
   demonstrated, held out before or developed on, and no development episode
   from one that was held out: whatever the order the stages were started in
   and whichever of them failed on the way. *)
HeldOutIsNew ==
    \A st \in Collecting : \A other \in Collecting \ {st} :
        /\ content[st].layouts \intersect Demos = {}
        /\ content[st].layouts \intersect content[other].layouts = {}

(* Every stage of the acceptance ran under the protocol and the sources of the
   freeze, though they may have been edited, and restored, in between. *)
LockedThroughout ==
    \A st \in Locking :
        dirs[st] # "missing" => content[st].version = content["freeze"].version

(* A manifest stands on manifests: what a finished stage read is still there,
   finished.  The freeze's own manifest is what it leaves at its lock. *)
EvidenceStands ==
    \A st \in Stages :
        dirs[st] \in {"complete", "locked", "late"} /\ st \notin Done =>
            \A i \in Inputs(st) : Complete(i)

(* GO is said of a policy that was driven live and passed, was evaluated
   against the recorded episodes and passed, with all the challenges there. *)
GoIsOfEverything ==
    verdict = "GO" =>
        \A st \in {"challenges", "paired", "live"} : Complete(st) /\ content[st].passed
=============================================================================
