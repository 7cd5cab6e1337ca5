------------------------------ MODULE M4Evidence ------------------------------
(***************************************************************************)
(* The queue-pressure study (m4_calibration.py, m4_report.py): a plan      *)
(* derived from earlier timings, calibration runs, the selection of one    *)
(* delay by a rule fixed in the plan, pressure runs at that delay, and the *)
(* report that accepts or refuses the five artifacts together.             *)
(*                                                                         *)
(* The artifacts are files that an operator makes one after another, some  *)
(* of them again, while the repository may move to another commit.  Times  *)
(* are in milliseconds, ages in control steps.  What a calibration run     *)
(* measures is drawn from a set; hashes are the plan they are of.          *)
(***************************************************************************)
EXTENDS Integers, Sequences, FiniteSets, FiniteSetsExt

CONSTANTS
    Steps, Bases,    \* medians the plan may find: control step, 0 ms delivery
    Headroom,        \* queue_headroom_steps
    Outcomes,        \* what the runs of a delay measure: by mode, [age, holds, stale]
    MaxPlans         \* bound: plans made

Modes == {"async_naive", "async_aligned"}

M4Assumption ==
    /\ Steps \subseteq Nat \ {0} /\ Bases \subseteq Nat
    /\ Headroom \in Nat \ {0} /\ MaxPlans \in Nat
    /\ \A seen \in Outcomes :
         /\ DOMAIN seen \subseteq Modes
         /\ \A mode \in DOMAIN seen : seen[mode] \in [age : Nat, holds : Nat, stale : Nat]

VARIABLES
    commit,      \* of the repository
    plans,       \* plans made; the last one is the plan on disk
    runs,        \* delay -> calibration runs at it
    selection, pressure

vars == <<commit, plans, runs, selection, pressure>>

NoSelection == [plan |-> 0, commit |-> 0, tested |-> {}, status |-> "none",
                delay |-> -1, decisions |-> {}]
NoPressure == [delay |-> -1, commit |-> 0]

Init ==
    /\ commit = 1 /\ plans = <<>> /\ runs = <<>>
    /\ selection = NoSelection /\ pressure = NoPressure

-----------------------------------------------------------------------------
(* The plan *)

RoundingMs == 50
TargetRatios == {50, 75, 100, 120}     \* percent of the headroom
ExtensionRatio == 150

(* _rounded_delay_ms: to the nearest, a tie to the even one, never negative. *)
Rounded(ms) ==
    LET down == ms \div RoundingMs
        rest == ms % RoundingMs
        up   == 2 * rest > RoundingMs \/ (2 * rest = RoundingMs /\ down % 2 = 1)
    IN IF ms <= 0 THEN 0 ELSE (IF up THEN down + 1 ELSE down) * RoundingMs

TargetMs(step, ratio) == (Headroom * ratio * step) \div 100

DelayFor(p, ratio) == Rounded(TargetMs(p.step, ratio) - p.base)

Initial(p) == {DelayFor(p, ratio) : ratio \in TargetRatios}
Extension(p) == DelayFor(p, ExtensionRatio)

(* 300 ms is of interest when it is within half a step of a target. *)
Includes300(p) ==
    \E ratio \in TargetRatios :
       LET off == p.base + 300 - TargetMs(p.step, ratio)
       IN 2 * off <= p.step /\ -2 * off <= p.step

Plan == plans[Len(plans)]

MakePlan ==
    /\ Len(plans) < MaxPlans
    /\ \E step \in Steps, base \in Bases :
         plans' = Append(plans, [step |-> step, base |-> base, commit |-> commit])
    /\ UNCHANGED <<commit, runs, selection, pressure>>

Recommit ==
    /\ commit = 1 /\ commit' = 2
    /\ UNCHANGED <<plans, runs, selection, pressure>>

-----------------------------------------------------------------------------
(* Calibration and selection *)

(* One of the delays the plan speaks of. *)
Calibrate ==
    /\ plans # <<>>
    /\ \E d \in Initial(Plan) \cup {Extension(Plan)}
                \cup (IF Includes300(Plan) THEN {300} ELSE {}) :
         /\ d \notin DOMAIN runs
         /\ \E seen \in Outcomes :
              runs' = [x \in DOMAIN runs \cup {d} |->
                         IF x = d THEN [commit |-> commit, seen |-> seen] ELSE runs[x]]
    /\ UNCHANGED <<commit, plans, selection, pressure>>

(* Over the two modes, when both are there.                                   *)
Total(seen, field) == seen.async_naive[field] + seen.async_aligned[field]

(* The pooled median of the two modes' ages reaches the headroom, or a hold   *)
(* or a fully stale chunk occurred.                                           *)
Pressure(seen) ==
    \/ Total(seen, "age") >= 2 * Headroom
    \/ Total(seen, "holds") > 0
    \/ Total(seen, "stale") > 0

(* choose_pressure_delay over the runs of some delays; it raises when one of  *)
(* them misses a mode.                                                        *)
Choosable(tested) == \A d \in tested : DOMAIN runs[d].seen = Modes
Qualifying(tested) == {d \in tested : Pressure(runs[d].seen)}
Chosen(tested) == IF Qualifying(tested) = {} THEN -1 ELSE Min(Qualifying(tested))
Decisions(tested) == {[delay |-> d, seen |-> runs[d].seen] : d \in tested}

Select ==
    /\ plans # <<>>
    /\ \E tested \in (SUBSET DOMAIN runs) \ {{}} :
         /\ Choosable(tested)
         /\ selection' =
              [plan |-> Len(plans), commit |-> commit, tested |-> tested,
               status |-> IF Chosen(tested) # -1 THEN "selected"
                          ELSE IF Extension(Plan) \in tested
                               THEN "no_pressure_after_extension"
                               ELSE "needs_extension",
               delay |-> Chosen(tested), decisions |-> Decisions(tested)]
    /\ UNCHANGED <<commit, plans, runs, pressure>>

RunPressure ==
    /\ selection.status = "selected"
    /\ pressure' = [delay |-> selection.delay, commit |-> commit]
    /\ UNCHANGED <<commit, plans, runs, selection>>

Next == MakePlan \/ Recommit \/ Calibrate \/ Select \/ RunPressure

Spec == Init /\ [][Next]_vars

-----------------------------------------------------------------------------
(* The report *)

(* Slip: the hash of the plan is not compared. *)
ProvenAnyPlan(tested) ==
    /\ selection.status = "selected"
    /\ Initial(Plan) \subseteq selection.tested
    /\ selection.tested \subseteq Initial(Plan) \cup {Extension(Plan)}
    /\ tested = selection.tested /\ Choosable(tested)
    /\ Chosen(tested) = selection.delay
    /\ selection.decisions = Decisions(tested)

(* validate_calibration_provenance *)
Proven(tested) ==
    /\ selection.plan = Len(plans)
    /\ selection.status = "selected"
    /\ Initial(Plan) \subseteq selection.tested
    /\ selection.tested \subseteq Initial(Plan) \cup {Extension(Plan)}
    /\ tested = selection.tested /\ Choosable(tested)
    /\ Chosen(tested) = selection.delay
    /\ selection.decisions = Decisions(tested)

(* build_m4_report, given the calibration runs of some delays. *)
Accepted(tested) ==
    /\ plans # <<>> /\ selection # NoSelection /\ pressure # NoPressure
    /\ Proven(tested)
    /\ pressure.delay = selection.delay
    /\ Cardinality({runs[d].commit : d \in tested}
                     \cup {Plan.commit, selection.commit, pressure.commit}) = 1

-----------------------------------------------------------------------------
(* Types. *)
TypeOK ==
    /\ commit \in 1..2 /\ Len(plans) <= MaxPlans
    /\ \A d \in DOMAIN runs : d % RoundingMs = 0 /\ runs[d].commit \in 1..commit
    /\ selection.tested \subseteq DOMAIN runs
    /\ pressure.delay \in DOMAIN runs \cup {-1}

(* The plan's delays hit their targets to within the rounding, unless the     *)
(* delivery alone takes longer, and the extension is beyond all of them.      *)
DelaysHitTargets ==
    \A i \in DOMAIN plans :
      LET p == plans[i]
      IN /\ \A ratio \in TargetRatios \cup {ExtensionRatio} :
              LET off == p.base + DelayFor(p, ratio) - TargetMs(p.step, ratio)
              IN /\ -2 * off <= RoundingMs
                 /\ 2 * off <= RoundingMs \/ DelayFor(p, ratio) = 0
         /\ \A d \in Initial(p) : d <= Extension(p)

(* What the report accepts was decided by the plan it shows: every delay of   *)
(* the plan was tested and none of another, the chosen one showed pressure    *)
(* and no smaller one did, and it is the one the pressure runs used.          *)
AcceptedIsDecided ==
    \A tested \in SUBSET DOMAIN runs : Accepted(tested) =>
      /\ selection.plan = Len(plans)
      /\ \A ratio \in TargetRatios : DelayFor(Plan, ratio) \in tested
      /\ \A d \in tested : d \in Initial(Plan) \/ d = Extension(Plan)
      /\ LET seen == runs[pressure.delay].seen
         IN \E mode \in Modes :
              seen[mode].age >= Headroom \/ seen[mode].holds > 0 \/ seen[mode].stale > 0
      /\ \A d \in tested : d < pressure.delay =>
           \A mode \in Modes : runs[d].seen[mode].holds = 0 /\ runs[d].seen[mode].stale = 0

(* Whoever tests the plan's delays, and the extension when told to, all at    *)
(* one commit, gets the report accepted; nothing of it depends on the order   *)
(* of the runs or on selections made in between.                              *)
FollowingThePlanIsAccepted ==
    /\ Len(plans) = 1 /\ commit = 1
    /\ selection.status = "selected" /\ pressure.delay = selection.delay
    /\ Initial(Plan) \subseteq selection.tested
    /\ selection.tested \subseteq Initial(Plan) \cup {Extension(Plan)}
    => Accepted(selection.tested)
=============================================================================
