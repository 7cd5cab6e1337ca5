--------------------------- MODULE EvidenceProofs ---------------------------
(***************************************************************************)
(* Proofs about EvidenceChain for every set of layouts and versions, every *)
(* number of episodes and failures, and every half of the stages that is   *)
(* there at the start.                                                     *)
(***************************************************************************)
EXTENDS EvidenceChain, FiniteSetTheorems, TLAPS

(* A stage is done with its inputs when it works on them or has ended well;  *)
(* those that were there at the start are nobody's concern.                  *)
Past(st) == dirs[st] \in {"working", "complete", "locked", "late"}
InputsInv == \A st \in Stages \ Done : Past(st) => \A i \in Inputs(st) : Complete(i)

(* Layouts are only collected on finished inputs, and a stage of the         *)
(* acceptance that exists began when the freeze was written.                 *)
CollectedInv == \A st \in Collecting :
    /\ IsFiniteSet(content[st].layouts)
    /\ content[st].layouts # {} => dirs[st] # "missing" /\ \A i \in Inputs(st) : Complete(i)
FrozenInv == \A st \in Locking : dirs[st] # "missing" => FreezeWritten

ChainInv ==
    /\ TypeOK /\ InputsInv /\ CollectedInv /\ FrozenInv
    /\ HeldOutIsNew /\ LockedThroughout /\ GoIsOfEverything

-----------------------------------------------------------------------------
(* The steps by what they do to a stage. *)
Grows(st) ==
    \/ st = "fresh" /\ Episode(st, Demos)
    \/ st = "collection" /\ Episode(st, UsedLayouts)
    \/ st = "acceptance" /\ Episode(st, PriorLayouts)
Ends(st) == \E outcomes \in SUBSET BOOLEAN : Finish(st, outcomes)

LEMMA StepKinds ==
    ASSUME ChainAssumption, [Next]_vars
    PROVE  \/ \E st \in Stages : Begin(st) \/ ReadInputs(st) \/ Die(st) \/ Ends(st)
           \/ \E st \in Collecting : Grows(st)
           \/ Lock \/ Smoke \/ Verdict \/ Edit \/ UNCHANGED vars
<1>1. Stage => \/ \E st \in Stages : Ends(st)
               \/ \E st \in Collecting : Grows(st)
  <2>1. NoGate \in SUBSET BOOLEAN /\ BOOLEAN \in SUBSET BOOLEAN
        /\ \A gate : Only(gate) \in SUBSET BOOLEAN
    BY DEF NoGate, Only
  <2>2. {"development", "training", "fresh", "evaluation", "collection", "nuisance", "temporal",
         "adapt_data", "adaptation", "dev_live", "acceptance", "challenges", "paired", "live"}
        \subseteq Stages /\ {"fresh", "collection", "acceptance"} \subseteq Collecting
    BY DEF Stages, Collecting, Locking
  <2>3. \A st \in Stages, outcomes \in SUBSET BOOLEAN : Finish(st, outcomes) => Ends(st)
    BY Zenon DEF Ends
  <2>4. Prepare \/ Train \/ Evaluate \/ Nuisance \/ Temporal \/ AdaptData \/ Adapt \/ DevLive
        \/ Challenges \/ Paired \/ Live => \E st \in Stages : Ends(st)
    BY <2>1, <2>2, <2>3 DEF Prepare, Train, Evaluate, Nuisance, Temporal, AdaptData, Adapt,
       DevLive, Challenges, Paired, Live
  <2>5. FreshHoldout \/ Collect \/ AcceptanceEpisodes =>
          (\E st \in Stages : Ends(st)) \/ \E st \in Collecting : Grows(st)
    BY <2>1, <2>2, <2>3 DEF FreshHoldout, Collect, AcceptanceEpisodes, Grows
  <2> QED
    BY <2>4, <2>5, Zenon DEF Stage
<1> QED
  BY <1>1 DEF Next, ChainAssumption

(* What has ended well stays: no stage is begun twice. *)
Stays ==
    /\ \A i \in Stages : Complete(i) => dirs'[i] = "complete"
    /\ \A i \in Stages : dirs[i] # "missing" => dirs'[i] # "missing"
    /\ FreezeWritten => dirs'["freeze"] \in {"locked", "complete", "late"}

LEMMA GoesTo ==
    ASSUME TypeOK, NEW st \in Stages, NEW phase, Goes(st, phase)
    PROVE  dirs'[st] = phase /\ \A i \in Stages \ {st} : dirs'[i] = dirs[i]
BY DEF TypeOK, Goes

LEMMA StageStays ==
    ASSUME TypeOK, NEW st \in Stages,
           Begin(st) \/ ReadInputs(st) \/ Die(st) \/ Ends(st)
    PROVE  Stays
<1>1. "freeze" \in Stages
  BY DEF Stages
<1>2. \E phase : Goes(st, phase) /\ ~(phase = "missing")
                 /\ (dirs[st] \in {"missing", "begun"} \/ dirs[st] = "working")
                 /\ (dirs[st] = "working" => phase \in {"dead", "complete"})
  BY DEF Begin, ReadInputs, Die, Ends, Finish, Fresh
<1>3. PICK phase : Goes(st, phase) /\ ~(phase = "missing")
                 /\ (dirs[st] \in {"missing", "begun"} \/ dirs[st] = "working")
                 /\ (dirs[st] = "working" => phase \in {"dead", "complete"})
  BY <1>2
<1> QED
  BY <1>1, <1>3, GoesTo DEF Stays, Complete, FreezeWritten

-----------------------------------------------------------------------------
(* Types *)
StageRows == [layouts : SUBSET Layouts, passed : BOOLEAN, version : Versions \union {0}]
StagePhases == {"missing", "begun", "working", "complete", "dead", "locked", "late"}

LEMMA NothingAtFirst == ASSUME ChainAssumption PROVE Init => ChainInv
<1> SUFFICES ASSUME Init PROVE ChainInv
  OBVIOUS
<1>1. Nothing \in StageRows /\ Nothing.layouts = {} /\ IsFiniteSet({}) /\ Cardinality({}) = 0
  BY FS_EmptySet DEF Nothing, StageRows
<1>2. Collecting \subseteq Stages /\ Locking \subseteq Stages /\ "freeze" \in Stages
  BY DEF Stages
<1>3. \A st \in Stages : content[st] = Nothing
  BY DEF Init
<1>4. \A st \in Stages \ Done : dirs[st] = "missing"
  BY DEF Init
<1>5. TypeOK
  <2>1. \A st \in Collecting : Seeds[st] \in Nat
    BY DEF ChainAssumption
  <2>2. \A st \in Collecting : Cardinality(content[st].layouts) <= Seeds[st]
    BY <1>1, <1>2, <1>3, <2>1
  <2> QED
    BY <1>1, <2>2 DEF Init, TypeOK, ChainAssumption, StageRows
<1>6. InputsInv
  BY <1>4 DEF InputsInv, Past
<1>7. CollectedInv /\ HeldOutIsNew
  BY <1>1, <1>2, <1>3 DEF CollectedInv, HeldOutIsNew
<1>8. FrozenInv /\ LockedThroughout
  BY <1>2, <1>4 DEF FrozenInv, LockedThroughout, ChainAssumption
<1>9. GoIsOfEverything
  BY DEF Init, GoIsOfEverything
<1> QED
  BY <1>5, <1>6, <1>7, <1>8, <1>9 DEF ChainInv

(* What each kind of step changes. *)
LEMMA GoesKeepsType ==
    ASSUME TypeOK, NEW st \in Stages, NEW phase \in StagePhases, Goes(st, phase)
    PROVE  dirs' \in [Stages -> StagePhases]
BY DEF TypeOK, Goes, StagePhases

LEMMA BeginChanges ==
    ASSUME TypeOK, NEW st \in Stages, Begin(st)
    PROVE  /\ dirs[st] = "missing" /\ Goes(st, "begun") /\ UNCHANGED <<files, verdict>>
           /\ content' \in [Stages -> StageRows]
           /\ \A i \in Stages \ {st} : content'[i] = content[i]
           /\ content'[st].layouts = content[st].layouts
           /\ content'[st].passed = content[st].passed
           /\ content'[st].version = files
           /\ Checked(st)
BY DEF Begin, Fresh, TypeOK, StageRows

LEMMA EndChanges ==
    ASSUME TypeOK, NEW st \in Stages, Ends(st)
    PROVE  /\ dirs[st] = "working" /\ Goes(st, "complete") /\ UNCHANGED <<files, verdict>>
           /\ content' \in [Stages -> StageRows]
           /\ \A i \in Stages \ {st} : content'[i] = content[i]
           /\ content'[st].layouts = content[st].layouts
           /\ content'[st].version = content[st].version
BY DEF Ends, Finish, TypeOK, StageRows

LEMMA LockChanges ==
    ASSUME TypeOK, Lock
    PROVE  /\ dirs["freeze"] = "working" /\ Goes("freeze", "locked") /\ UNCHANGED <<files, verdict>>
           /\ content' \in [Stages -> StageRows]
           /\ \A i \in Stages \ {"freeze"} : content'[i] = content[i]
           /\ content'["freeze"].layouts = content["freeze"].layouts
           /\ content'["freeze"].passed = content["freeze"].passed
           /\ content'["freeze"].version = files
BY DEF Lock, TypeOK, StageRows, Stages

(* An episode either kills its stage or adds one layout that was in no use.  *)
Adds(st, used) ==
    /\ UNCHANGED dirs /\ SeedsLeft(st)
    /\ \E layout \in Layouts \ (used \union content[st].layouts) :
         content' = [content EXCEPT ![st].layouts = @ \union {layout}]
LEMMA EpisodeChanges ==
    ASSUME NEW st, NEW used, Episode(st, used)
    PROVE  /\ dirs[st] = "working" /\ UNCHANGED <<files, verdict>>
           /\ (Goes(st, "dead") /\ UNCHANGED content) \/ Adds(st, used)
BY DEF Episode, Adds

LEMMA AddChanges ==
    ASSUME TypeOK, NEW st \in Collecting, NEW used, Adds(st, used)
    PROVE  /\ content' \in [Stages -> StageRows]
           /\ \A i \in Stages \ {st} : content'[i] = content[i]
           /\ \E layout \in Layouts \ (used \union content[st].layouts) :
                content'[st].layouts = content[st].layouts \union {layout}
           /\ content'[st].passed = content[st].passed
           /\ content'[st].version = content[st].version
BY DEF Adds, TypeOK, StageRows, Stages

-----------------------------------------------------------------------------
(* Preservation.  A step is told by what it does to one stage; whoever is     *)
(* finished stays, so what was finished when a stage read it still is.        *)
LEMMA StepStays ==
    ASSUME ChainAssumption, TypeOK, [Next]_vars
    PROVE  Stays
<1>1. ASSUME UNCHANGED dirs PROVE Stays
  BY <1>1 DEF Stays, Complete, FreezeWritten
<1>2. ASSUME NEW st \in Stages, Goes(st, "dead"), dirs[st] = "working"
      PROVE  Stays
  BY <1>2, GoesTo DEF Stays, Complete, FreezeWritten, Stages
<1>3. ASSUME NEW st \in Collecting, Grows(st) PROVE Stays
  <2>1. PICK used : Episode(st, used)
    BY <1>3 DEF Grows
  <2>2. st \in Stages
    BY DEF Stages
  <2> QED
    BY <1>1, <1>2, <2>1, <2>2, EpisodeChanges DEF Adds
<1>4. ASSUME Lock \/ Smoke PROVE Stays
  <2>1. "freeze" \in Stages
    BY DEF Stages
  <2>2. PICK phase : /\ Goes("freeze", phase) /\ dirs["freeze"] \in {"working", "locked"}
                     /\ phase \in {"locked", "complete", "late"}
    BY <1>4 DEF Lock, Smoke
  <2>3. dirs'["freeze"] = phase /\ \A i \in Stages \ {"freeze"} : dirs'[i] = dirs[i]
    BY <2>1, <2>2, GoesTo, Zenon
  <2> QED
    BY <2>2, <2>3 DEF Stays, Complete
<1>5. ASSUME Verdict \/ Edit \/ UNCHANGED vars PROVE Stays
  BY <1>1, <1>5 DEF Verdict, Edit, vars
<1> QED
  BY <1>3, <1>4, <1>5, StageStays, StepKinds

LEMMA OneMore ==
    ASSUME NEW S, IsFiniteSet(S), NEW x, x \notin S, NEW T, T = S \union {x}
    PROVE  IsFiniteSet(T) /\ Cardinality(T) = Cardinality(S) + 1 /\ Cardinality(S) \in Nat
BY FS_AddElement, FS_CardinalityType

LEMMA AddedSize ==
    ASSUME TypeOK, NEW st \in Collecting, NEW used, Adds(st, used),
           IsFiniteSet(content[st].layouts)
    PROVE  /\ IsFiniteSet(content'[st].layouts)
           /\ Cardinality(content'[st].layouts) = Cardinality(content[st].layouts) + 1
           /\ Cardinality(content[st].layouts) \in Nat
<1>1. PICK layout \in Layouts \ (used \union content[st].layouts) :
        content'[st].layouts = content[st].layouts \union {layout}
  BY AddChanges, Zenon
<1>2. layout \notin content[st].layouts
  OBVIOUS
<1> QED
  BY <1>1, <1>2, OneMore, Zenon

LEMMA TypeKept ==
    ASSUME ChainAssumption, TypeOK, CollectedInv, [Next]_vars
    PROVE  TypeOK' /\ \A st \in Collecting : IsFiniteSet(content'[st].layouts)
<1> DEFINE Sizes == \A st \in Collecting : /\ IsFiniteSet(content'[st].layouts)
                                           /\ Cardinality(content'[st].layouts) <= Seeds[st]
<1>1. \A st \in Collecting : st \in Stages /\ IsFiniteSet(content[st].layouts)
                             /\ Cardinality(content[st].layouts) <= Seeds[st]
  BY DEF TypeOK, CollectedInv, Stages
<1>2. SUFFICES /\ dirs' \in [Stages -> StagePhases] /\ content' \in [Stages -> StageRows] /\ Sizes
               /\ files' \in Versions /\ verdict' \in {"none", "GO", "NO-GO", "INCOMPLETE"}
  BY Zenon DEF TypeOK, StagePhases, StageRows
<1>3. files \in Versions /\ verdict \in {"none", "GO", "NO-GO", "INCOMPLETE"}
      /\ dirs \in [Stages -> StagePhases] /\ content \in [Stages -> StageRows]
  BY Zenon DEF TypeOK, StagePhases, StageRows
<1>4. ASSUME content' = content PROVE Sizes
  BY <1>1, <1>4
<1>5. ASSUME \A i \in Stages : content'[i].layouts = content[i].layouts PROVE Sizes
  BY <1>1, <1>5
<1>6. ASSUME NEW st \in Stages, Begin(st) \/ Ends(st)
      PROVE  <1>2!1
  <2>1. \A i \in Stages : content'[i].layouts = content[i].layouts
    BY <1>6, BeginChanges, EndChanges, Zenon
  <2>2. \E phase \in StagePhases : Goes(st, phase)
    BY <1>6, BeginChanges, EndChanges DEF StagePhases
  <2> QED
    BY <1>3, <1>5, <1>6, <2>1, <2>2, BeginChanges, EndChanges, GoesKeepsType, Zenon
<1>7. ASSUME NEW st \in Stages, ReadInputs(st) \/ Die(st)
      PROVE  <1>2!1
  <2>1. UNCHANGED <<content, files, verdict>> /\ \E phase \in StagePhases : Goes(st, phase)
    BY <1>7 DEF ReadInputs, Die, StagePhases
  <2> QED
    BY <1>3, <1>4, <2>1, GoesKeepsType, Zenon
<1>8. ASSUME NEW st \in Collecting, Grows(st)
      PROVE  <1>2!1
  <2>1. PICK used : Episode(st, used)
    BY <1>8 DEF Grows
  <2>2. CASE Goes(st, "dead") /\ UNCHANGED content
    <3>1. "dead" \in StagePhases
      BY DEF StagePhases
    <3> QED
      BY <1>1, <1>3, <1>4, <2>1, <2>2, <3>1, EpisodeChanges, GoesKeepsType, Zenon
  <2>3. CASE Adds(st, used)
    <3>1. Cardinality(content[st].layouts) < Seeds[st]
      BY <2>3 DEF Adds, SeedsLeft
    <3>2. /\ IsFiniteSet(content'[st].layouts)
          /\ Cardinality(content'[st].layouts) = Cardinality(content[st].layouts) + 1
          /\ Cardinality(content[st].layouts) \in Nat
      BY <1>1, <2>3, AddedSize, Zenon
    <3>3. Cardinality(content'[st].layouts) <= Seeds[st]
      <4>1. Seeds[st] \in Nat
        BY DEF ChainAssumption
      <4> QED
        BY <3>1, <3>2, <4>1
    <3>4. Sizes
      <4>1. \A i \in Collecting \ {st} : content'[i] = content[i]
        BY <1>1, <2>3, AddChanges, Zenon
      <4>2. ASSUME NEW i \in Collecting, i # st
            PROVE  IsFiniteSet(content'[i].layouts) /\ Cardinality(content'[i].layouts) <= Seeds[i]
        <5>1. content'[i] = content[i]
          BY <4>1, <4>2
        <5> QED
          BY <1>1, <5>1, Zenon
      <4> QED
        BY <3>2, <3>3, <4>2, Zenon
    <3> QED
      BY <1>3, <2>1, <2>3, <3>4, EpisodeChanges, AddChanges, Zenon DEF Adds
  <2> QED
    BY <2>1, <2>2, <2>3, EpisodeChanges, Zenon
<1>9. ASSUME Lock PROVE <1>2!1
  <2>1. "freeze" \in Stages /\ "locked" \in StagePhases
    BY DEF Stages, StagePhases
  <2>2. \A i \in Stages : content'[i].layouts = content[i].layouts
    BY <1>9, <2>1, LockChanges, Zenon
  <2> QED
    BY <1>3, <1>5, <1>9, <2>1, <2>2, LockChanges, GoesKeepsType, Zenon
<1>10. ASSUME Smoke PROVE <1>2!1
  <2>1. "freeze" \in Stages
    BY DEF Stages
  <2>2. UNCHANGED <<content, files, verdict>> /\ \E phase \in StagePhases : Goes("freeze", phase)
    BY <1>10 DEF Smoke, StagePhases
  <2> QED
    BY <1>3, <1>4, <2>1, <2>2, GoesKeepsType, Zenon
<1>11. ASSUME Verdict \/ Edit \/ UNCHANGED vars PROVE <1>2!1
  <2>1. UNCHANGED <<dirs, content>> /\ files' \in Versions
        /\ verdict' \in {"none", "GO", "NO-GO", "INCOMPLETE"}
    BY <1>3, <1>11 DEF Verdict, Edit, vars
  <2> QED
    BY <1>3, <1>4, <2>1, Zenon
<1> QED
  BY <1>6, <1>7, <1>8, <1>9, <1>10, <1>11, StepKinds, Zenon

LEMMA InputsKept ==
    ASSUME ChainAssumption, TypeOK, InputsInv, CollectedInv, [Next]_vars
    PROVE  /\ InputsInv'
           /\ \A st \in Collecting : content'[st].layouts # {} =>
                dirs'[st] # "missing" /\ \A i \in Inputs(st) : dirs'[i] = "complete"
<1>1. Stays /\ TypeOK'
  BY StepStays, TypeKept
<1>2. \A st \in Stages : Inputs(st) \subseteq Stages
  BY DEF Inputs, Stages, Collecting, Locking
<1>3. ASSUME NEW st \in Stages, Past(st) => \A i \in Inputs(st) : Complete(i), Past(st)
      PROVE  \A i \in Inputs(st) : dirs'[i] = "complete"
  BY <1>1, <1>2, <1>3 DEF Stays
<1>4. ASSUME NEW st \in Stages, ~Past(st), Past(st)' PROVE ReadInputs(st)
  <2>1. dirs'[st] # dirs[st]
    BY <1>4 DEF Past
  <2>2. ASSUME NEW s \in Stages, Begin(s) \/ ReadInputs(s) \/ Die(s) \/ Ends(s) PROVE ReadInputs(st)
    <3>1. \E phase : Goes(s, phase) /\ (phase \in {"begun", "dead"} \/ dirs[s] = "working" \/ ReadInputs(s))
      BY <2>2 DEF Begin, Die, Ends, Finish, ReadInputs
    <3>2. s = st
      BY <2>1, <3>1, GoesTo, Zenon
    <3>3. ASSUME NEW phase \in {"begun", "dead"}, Goes(st, phase) PROVE FALSE
      BY <1>4, <3>3, GoesTo DEF Past
    <3> QED
      BY <1>4, <3>1, <3>2, <3>3 DEF Past
  <2>3. ASSUME NEW s \in Collecting, Grows(s) PROVE FALSE
    <3>1. s \in Stages
      BY DEF Stages
    <3>2. Goes(s, "dead") \/ UNCHANGED dirs
      BY <2>3, EpisodeChanges, Zenon DEF Grows, Adds
    <3> QED
      BY <1>4, <2>1, <3>1, <3>2, GoesTo DEF Past
  <2>4. ASSUME Lock \/ Smoke PROVE FALSE
    <3>1. "freeze" \in Stages /\ dirs["freeze"] \in {"working", "locked"}
          /\ \E phase : Goes("freeze", phase)
      BY <2>4 DEF Lock, Smoke, Stages
    <3> QED
      BY <1>4, <2>1, <3>1, GoesTo DEF Past
  <2>5. ASSUME Verdict \/ Edit \/ UNCHANGED vars PROVE FALSE
    BY <2>1, <2>5 DEF Verdict, Edit, vars
  <2> QED
    BY <2>2, <2>3, <2>4, <2>5, StepKinds
<1>5. ASSUME NEW st \in Stages, ReadInputs(st), Past(st)'
      PROVE  \A i \in Inputs(st) : Complete(i)
  BY <1>5, GoesTo DEF ReadInputs, Past
<1>6. InputsInv'
  <2> SUFFICES ASSUME NEW st \in Stages \ Done, Past(st)', NEW i \in Inputs(st)
               PROVE  dirs'[i] = "complete"
    BY Zenon DEF InputsInv, Complete
  <2>1. CASE Past(st)
    BY <1>3, <2>1 DEF InputsInv
  <2>2. CASE ~Past(st)
    BY <1>1, <1>2, <1>4, <1>5, <2>2 DEF Stays
  <2> QED
    BY <2>1, <2>2
<1>7. ASSUME NEW st \in Collecting, content'[st].layouts # {}
      PROVE  dirs'[st] # "missing" /\ \A i \in Inputs(st) : dirs'[i] = "complete"
  <2>1. st \in Stages \ Done /\ st \in Stages
    BY DEF Stages, ChainAssumption
  <2>2. CASE content[st].layouts # {}
    BY <1>1, <1>2, <2>1, <2>2 DEF CollectedInv, Stays
  <2>3. CASE content[st].layouts = {}
    <3>1. Grows(st)
      <4>1. ASSUME NEW s \in Stages, Begin(s) \/ ReadInputs(s) \/ Die(s) \/ Ends(s) PROVE FALSE
        <5>1. content'[st].layouts = content[st].layouts
          BY <2>1, <4>1, BeginChanges, EndChanges, Zenon DEF ReadInputs, Die
        <5> QED
          BY <1>7, <2>3, <5>1
      <4>2. ASSUME NEW s \in Collecting, Grows(s) PROVE s = st
        <5>1. s \in Stages
          BY DEF Stages
        <5>2. UNCHANGED content \/ \A i \in Stages \ {s} : content'[i] = content[i]
          BY <4>2, <5>1, EpisodeChanges, AddChanges, Zenon DEF Grows
        <5> QED
          BY <1>7, <2>1, <2>3, <5>2
      <4>3. ASSUME Lock PROVE FALSE
        <5>1. \A i \in Stages : content'[i].layouts = content[i].layouts
          BY <4>3, LockChanges, Zenon
        <5> QED
          BY <1>7, <2>1, <2>3, <5>1
      <4>4. ASSUME Smoke \/ Verdict \/ Edit \/ UNCHANGED vars PROVE FALSE
        BY <1>7, <2>3, <4>4 DEF Smoke, Verdict, Edit, vars
      <4> QED
        BY <4>1, <4>2, <4>3, <4>4, StepKinds, Zenon
    <3>2. dirs[st] = "working"
      BY <3>1, EpisodeChanges, Zenon DEF Grows
    <3>3. \A i \in Inputs(st) : Complete(i)
      BY <2>1, <3>2 DEF InputsInv, Past
    <3> QED
      BY <1>1, <1>2, <2>1, <3>2, <3>3 DEF Stays
  <2> QED
    BY <2>2, <2>3
<1> QED
  BY <1>6, <1>7

(* No two stages ever roll the policy out from one layout: a stage that adds  *)
(* a layout refuses what the stages before it used, and those after it have   *)
(* none, since they wait for it to be finished.                               *)
LEMMA NewLayouts ==
    ASSUME ChainAssumption, TypeOK, InputsInv, CollectedInv, HeldOutIsNew,
           NEW st \in Collecting, Grows(st), NEW layout,
           \E used : Episode(st, used) /\ layout \notin used \union content[st].layouts
                     /\ (st = "fresh" => used = Demos)
                     /\ (st = "collection" => used = UsedLayouts)
                     /\ (st = "acceptance" => used = PriorLayouts)
    PROVE  layout \notin Demos /\ \A other \in Collecting : layout \notin content[other].layouts
<1>1. dirs[st] = "working"
  BY EpisodeChanges, Zenon
<1>2. ~Complete(st)
  BY <1>1 DEF Complete
<1>3. ASSUME NEW other \in Collecting, st \in Inputs(other) PROVE content[other].layouts = {}
  BY <1>2, <1>3 DEF CollectedInv
<1>4. CASE st = "fresh"
  <2>1. content["collection"].layouts = {} /\ content["acceptance"].layouts = {}
    BY <1>3, <1>4 DEF Inputs, Collecting, Locking
  <2> QED
    BY <1>4, <2>1 DEF Collecting
<1>5. CASE st = "collection"
  <2>1. content["acceptance"].layouts = {}
    BY <1>3, <1>5 DEF Inputs, Collecting, Locking
  <2> QED
    BY <1>5, <2>1 DEF Collecting, UsedLayouts
<1>6. CASE st = "acceptance"
  BY <1>6 DEF Collecting, PriorLayouts
<1> QED
  BY <1>4, <1>5, <1>6 DEF Collecting

LEMMA LayoutsKept ==
    ASSUME ChainAssumption, TypeOK, InputsInv, CollectedInv, HeldOutIsNew, [Next]_vars
    PROVE  HeldOutIsNew'
<1>1. Collecting \subseteq Stages /\ "freeze" \in Stages
  BY DEF Stages
<1>2. ASSUME \A i \in Collecting : content'[i].layouts = content[i].layouts PROVE HeldOutIsNew'
  BY <1>2 DEF HeldOutIsNew
<1>3. ASSUME NEW st \in Stages, Begin(st) \/ ReadInputs(st) \/ Die(st) \/ Ends(st)
      PROVE  HeldOutIsNew'
  <2>1. \A i \in Stages : content'[i].layouts = content[i].layouts
    BY <1>3, BeginChanges, EndChanges, Zenon DEF ReadInputs, Die
  <2> QED
    BY <1>1, <1>2, <2>1
<1>4. ASSUME NEW st \in Collecting, Grows(st) PROVE HeldOutIsNew'
  <2>1. PICK used : /\ Episode(st, used)
                    /\ st = "fresh" => used = Demos
                    /\ st = "collection" => used = UsedLayouts
                    /\ st = "acceptance" => used = PriorLayouts
    BY <1>4 DEF Grows
  <2>2. CASE UNCHANGED content
    BY <1>2, <2>2
  <2>3. CASE Adds(st, used)
    <3>1. PICK layout \in Layouts \ (used \union content[st].layouts) :
            content'[st].layouts = content[st].layouts \union {layout}
      BY <2>3, AddChanges
    <3>2. layout \notin Demos /\ \A other \in Collecting : layout \notin content[other].layouts
      BY <1>4, <2>1, <3>1, NewLayouts
    <3>3. \A i \in Collecting \ {st} : content'[i].layouts = content[i].layouts
      BY <1>1, <2>3, AddChanges, Zenon
    <3> QED
      BY <3>1, <3>2, <3>3 DEF HeldOutIsNew
  <2> QED
    BY <2>1, <2>2, <2>3, EpisodeChanges, Zenon
<1>5. ASSUME Lock PROVE HeldOutIsNew'
  BY <1>1, <1>2, <1>5, LockChanges, Zenon
<1>6. ASSUME Smoke \/ Verdict \/ Edit \/ UNCHANGED vars PROVE HeldOutIsNew'
  BY <1>2, <1>6 DEF Smoke, Verdict, Edit, vars
<1> QED
  BY <1>3, <1>4, <1>5, <1>6, StepKinds, Zenon

(* A stage of the acceptance begins under the freeze that is written, which   *)
(* is not written again.                                                      *)
LEMMA LocksKept ==
    ASSUME ChainAssumption, TypeOK, FrozenInv, LockedThroughout, [Next]_vars
    PROVE  FrozenInv' /\ LockedThroughout'
<1> DEFINE Version(st) == content[st].version
<1>1. Stays /\ Locking \subseteq Stages /\ "freeze" \in Stages /\ "freeze" \notin Locking
  BY StepStays DEF Stages, Locking
<1>2. SUFFICES ASSUME NEW st \in Locking, dirs'[st] # "missing"
               PROVE  /\ dirs'["freeze"] \in {"locked", "complete", "late"}
                      /\ content'[st].version = content'["freeze"].version
  BY DEF FrozenInv, LockedThroughout, FreezeWritten
<1>3. CASE dirs[st] = "missing"
  <2>1. Begin(st)
    <3>1. ASSUME NEW s \in Stages, Begin(s) \/ ReadInputs(s) \/ Die(s) \/ Ends(s) PROVE Begin(st)
      <4>1. \E phase : Goes(s, phase) /\ (dirs[s] # "missing" \/ Begin(s))
        BY <3>1 DEF Begin, Die, Ends, Finish, ReadInputs
      <4> QED
        BY <1>1, <1>2, <1>3, <4>1, GoesTo
    <3>2. ASSUME NEW s \in Collecting, Grows(s) PROVE FALSE
      <4>1. s \in Stages /\ dirs[s] = "working" /\ (Goes(s, "dead") \/ UNCHANGED dirs)
        BY <3>2, EpisodeChanges DEF Grows, Adds, Stages
      <4> QED
        BY <1>1, <1>2, <1>3, <4>1, GoesTo
    <3>3. ASSUME Lock \/ Smoke PROVE FALSE
      <4>1. \E phase : Goes("freeze", phase)
        BY <3>3 DEF Lock, Smoke
      <4> QED
        BY <1>1, <1>2, <1>3, <4>1, GoesTo
    <3>4. ASSUME Verdict \/ Edit \/ UNCHANGED vars PROVE FALSE
      BY <1>2, <1>3, <3>4 DEF Verdict, Edit, vars
    <3> QED
      BY <3>1, <3>2, <3>3, <3>4, StepKinds, Zenon
  <2>2. Locked
    BY <1>1, <2>1, BeginChanges DEF Checked, Locking
  <2>3. content'[st].version = files /\ content'["freeze"].version = content["freeze"].version
    BY <1>1, <2>1, BeginChanges
  <2> QED
    BY <1>1, <2>2, <2>3 DEF Locked, Stays
<1>4. CASE dirs[st] # "missing"
  <2>1. FreezeWritten /\ content[st].version = content["freeze"].version
    BY <1>4 DEF FrozenInv, LockedThroughout
  <2>2. content'[st].version = content[st].version
        /\ content'["freeze"].version = content["freeze"].version
    <3>1. ASSUME NEW s \in Stages, Begin(s) \/ ReadInputs(s) \/ Die(s) \/ Ends(s) PROVE <2>2
      <4>1. CASE Begin(s)
        <5>1. s # st /\ s # "freeze"
          BY <1>4, <2>1, <4>1, BeginChanges DEF FreezeWritten
        <5>2. \A i \in Stages \ {s} : content'[i] = content[i]
          BY <4>1, BeginChanges, Zenon
        <5> QED
          BY <1>1, <5>1, <5>2
      <4>2. CASE Ends(s)
        BY <1>1, <4>2, EndChanges, Zenon
      <4>3. CASE ReadInputs(s) \/ Die(s)
        BY <4>3 DEF ReadInputs, Die
      <4> QED
        BY <3>1, <4>1, <4>2, <4>3
    <3>2. ASSUME NEW s \in Collecting, Grows(s) PROVE <2>2
      <4>1. s \in Stages
        BY DEF Stages
      <4>2. UNCHANGED content \/ \E used : Adds(s, used)
        BY <3>2, EpisodeChanges, Zenon DEF Grows
      <4>3. \A i \in Stages : content'[i].version = content[i].version
        BY <4>1, <4>2, AddChanges, Zenon
      <4> QED
        BY <1>1, <4>3
    <3>3. ASSUME Lock PROVE FALSE
      BY <2>1, <3>3 DEF Lock, FreezeWritten
    <3>4. ASSUME Smoke \/ Verdict \/ Edit \/ UNCHANGED vars PROVE <2>2
      BY <3>4 DEF Smoke, Verdict, Edit, vars
    <3> QED
      BY <3>1, <3>2, <3>3, <3>4, StepKinds, Zenon
  <2> QED
    BY <1>1, <2>1, <2>2 DEF Stays
<1> QED
  BY <1>3, <1>4

(* GO stands on three finished stages, whose manifests nobody writes again.   *)
LEMMA VerdictKept ==
    ASSUME ChainAssumption, TypeOK, InputsInv, GoIsOfEverything, [Next]_vars
    PROVE  GoIsOfEverything'
<1> DEFINE Last == {"challenges", "paired", "live"}
           Good(st) == Complete(st) /\ content[st].passed
<1>1. Last \subseteq Stages /\ Last \cap Done = {} /\ Stays /\ "freeze" \in Stages
  BY StepStays DEF Stages, Locking, ChainAssumption
<1>2. ASSUME NEW st \in Last, Good(st)
      PROVE  dirs'[st] = "complete" /\ content'[st].passed
  <2>1. dirs[st] = "complete" /\ st \in Stages /\ st # "freeze"
    BY <1>1, <1>2 DEF Complete
  <2>2. dirs'[st] = "complete"
    BY <1>1, <1>2, <2>1 DEF Stays
  <2>3. content'[st].passed = content[st].passed
    <3>1. ASSUME NEW s \in Stages, Begin(s) \/ ReadInputs(s) \/ Die(s) \/ Ends(s) PROVE <2>3
      <4>1. UNCHANGED content \/ \A i \in Stages \ {s} : content'[i] = content[i]
        BY <3>1, BeginChanges, EndChanges, Zenon DEF ReadInputs, Die
      <4>2. Begin(s) \/ Ends(s) => s # st
        BY <2>1, BeginChanges, EndChanges
      <4>3. CASE Begin(s) \/ Ends(s)
        <5>1. \A i \in Stages \ {s} : content'[i] = content[i]
          BY <4>3, BeginChanges, EndChanges, Zenon
        <5> QED
          BY <2>1, <4>2, <4>3, <5>1
      <4>4. CASE ReadInputs(s) \/ Die(s)
        BY <4>4 DEF ReadInputs, Die
      <4> QED
        BY <3>1, <4>3, <4>4
    <3>2. ASSUME NEW s \in Collecting, Grows(s) PROVE <2>3
      <4>1. UNCHANGED content \/ \E used : Adds(s, used)
        BY <3>2, EpisodeChanges, Zenon DEF Grows
      <4>2. \A i \in Stages : content'[i].passed = content[i].passed
        <5>1. s \in Stages
          BY DEF Stages
        <5> QED
          BY <4>1, <5>1, AddChanges, Zenon
      <4> QED
        BY <2>1, <4>2
    <3>3. ASSUME Lock PROVE <2>3
      <4>1. \A i \in Stages \ {"freeze"} : content'[i] = content[i]
        BY <3>3, LockChanges, Zenon
      <4> QED
        BY <2>1, <4>1
    <3>4. ASSUME Smoke \/ Verdict \/ Edit \/ UNCHANGED vars PROVE <2>3
      BY <3>4 DEF Smoke, Verdict, Edit, vars
    <3> QED
      BY <3>1, <3>2, <3>3, <3>4, StepKinds, Zenon
  <2> QED
    BY <1>2, <2>2, <2>3
<1>3. CASE verdict' = verdict
  BY <1>2, <1>3 DEF GoIsOfEverything, Complete
<1>4. CASE Verdict /\ verdict' = "GO"
  <2>1. Complete("paired") /\ Complete("live") /\ content["challenges"].passed
        /\ content["paired"].passed /\ content["live"].passed
    BY <1>4 DEF Verdict, Passed
  <2>2. Complete("challenges")
    <3>1. "paired" \in Stages \ Done /\ "challenges" \in Inputs("paired")
      BY <1>1 DEF Inputs, Locking
    <3> QED
      BY <2>1, <3>1 DEF InputsInv, Past, Complete
  <2>3. UNCHANGED <<dirs, content>>
    BY <1>4 DEF Verdict
  <2> QED
    BY <2>1, <2>2, <2>3 DEF GoIsOfEverything, Complete
<1>5. verdict' = verdict \/ Verdict
  <2>1. \A s : Begin(s) \/ ReadInputs(s) \/ Die(s) \/ Ends(s) => verdict' = verdict
    BY DEF Begin, ReadInputs, Die, Ends, Finish
  <2>2. \A s : Grows(s) => verdict' = verdict
    BY EpisodeChanges, Zenon DEF Grows
  <2> QED
    BY <2>1, <2>2, StepKinds DEF Lock, Smoke, Edit, vars
<1> QED
  BY <1>3, <1>4, <1>5 DEF GoIsOfEverything

-----------------------------------------------------------------------------
LEMMA ChainKept == ASSUME ChainAssumption, ChainInv, [Next]_vars PROVE ChainInv'
<1>1. TypeOK /\ InputsInv /\ CollectedInv /\ FrozenInv
      /\ HeldOutIsNew /\ LockedThroughout /\ GoIsOfEverything
  BY DEF ChainInv
<1>2. TypeOK' /\ InputsInv' /\ HeldOutIsNew' /\ FrozenInv' /\ LockedThroughout' /\ GoIsOfEverything'
  BY <1>1, TypeKept, InputsKept, LayoutsKept, LocksKept, VerdictKept
<1>3. CollectedInv'
  BY <1>1, TypeKept, InputsKept DEF CollectedInv, Complete
<1> QED
  BY <1>2, <1>3 DEF ChainInv

LEMMA ChainSays ==
    ChainInv => /\ TypeOK /\ HeldOutIsNew /\ LockedThroughout /\ EvidenceStands
                /\ GoIsOfEverything
BY DEF ChainInv, InputsInv, EvidenceStands, Past

(* Whatever the order the stages are started in, whichever fail and whatever  *)
(* is edited between them: what is held out is new, the acceptance ran under  *)
(* what was frozen, finished stages stand on finished stages, and GO is said  *)
(* of a policy that passed everything.                                        *)
THEOREM EvidenceIsOfTheFreeze ==
    ASSUME ChainAssumption
    PROVE  Spec => [](TypeOK /\ HeldOutIsNew /\ LockedThroughout /\ EvidenceStands
                      /\ GoIsOfEverything)
<1>1. Init => ChainInv
  BY NothingAtFirst
<1>2. ChainInv /\ [Next]_vars => ChainInv'
  BY ChainKept
<1> QED
  BY <1>1, <1>2, ChainSays, PTL DEF Spec
=============================================================================
