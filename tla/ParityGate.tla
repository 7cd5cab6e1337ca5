----------------------------- MODULE ParityGate -----------------------------
(* The two gates before the matrix (src/src/actionstream/results.py): the    *)
(* manifest of the official evaluation, built from its eval_info.json and an *)
(* audit of its log, and the parity of the synchronous runner with it, built *)
(* from that manifest and one file of episode rows.  A gate that raises      *)
(* writes nothing, so a manifest of an earlier evaluation stays where the    *)
(* next step reads it.                                                       *)
EXTENDS EpisodeFiles

CONSTANTS
    GateTotal,     \* successes the official baseline needs in all
    GateTasks,     \* tasks that need GatePerTask successes
    GatePerTask,
    Allowed,       \* max_allowed_difference of the parity
    MaxEvaluations \* bound: official evaluations

GateAssumption ==
    /\ {GateTotal, GateTasks, GatePerTask, Allowed, MaxEvaluations} \subseteq Nat

VARIABLES
    evaluation,   \* what the official evaluation left; its log is clean or not
    official,     \* the official manifest
    parity,       \* the parity manifest
    evaluations

gateVars == <<evaluation, official, parity, evaluations>>
vars == <<filesVars, gateVars>>

NoEvaluation == [successes |-> {}, reported |-> 0, clean |-> FALSE, done |-> FALSE]
NoManifest == [built |-> FALSE, passed |-> FALSE, count |-> 0]
NoParity == [built |-> FALSE, passed |-> FALSE, rows |-> <<>>, official |-> 0]

GateInit ==
    /\ evaluation = NoEvaluation
    /\ official = NoManifest
    /\ parity = NoParity
    /\ evaluations = 0
Init == FilesInit /\ GateInit

(* The evaluator of the upstream project; the overall percentage it reports  *)
(* need not be the one of its episodes, and its log may hold an error.       *)
Evaluate(successes, reported, clean) ==
    /\ evaluations < MaxEvaluations
    /\ evaluations' = evaluations + 1
    /\ evaluation' = [successes |-> successes, reported |-> reported,
                      clean |-> clean, done |-> TRUE]
    /\ UNCHANGED <<filesVars, official, parity>>

(* A failed episode does not tell how often its environment was reset, so    *)
(* the initial states that followed cannot be reconstructed.                 *)
Reconstructible(successes) == successes = Keys

OfTask(successes, t) == {k \in successes : k[1] = t}

GatePasses(e) ==
    /\ Cardinality(e.successes) >= GateTotal
    /\ Cardinality({t \in Tasks : Cardinality(OfTask(e.successes, t)) >= GatePerTask})
           >= GateTasks
    /\ e.clean

BuildOfficial ==
    /\ evaluation.done
    /\ Reconstructible(evaluation.successes)
    /\ evaluation.reported = Cardinality(evaluation.successes)
    /\ official' = [built |-> TRUE, passed |-> GatePasses(evaluation),
                    count |-> Cardinality(evaluation.successes)]
    /\ UNCHANGED <<filesVars, evaluation, parity, evaluations>>

Succeeded(rows) == Cardinality({n \in 1 .. Len(rows) : rows[n].success})

Difference(custom, baseline) ==
    IF custom < baseline THEN baseline - custom ELSE custom - baseline

BuildParity(c) ==
    /\ official.passed
    /\ EachKeyOnce(file[c]) /\ OneRun(file[c]) /\ OneCommit(Range(file[c]))
    /\ \A r \in Range(file[c]) : r.proper
    /\ parity' = [built |-> TRUE, rows |-> file[c], official |-> official.count,
                  passed |-> Difference(Succeeded(file[c]), official.count) <= Allowed]
    /\ UNCHANGED <<filesVars, evaluation, official, evaluations>>

Next ==
    \/ FilesNext /\ UNCHANGED gateVars
    \/ \E successes \in SUBSET Keys, reported \in 0 .. Cardinality(Keys),
          clean \in BOOLEAN : Evaluate(successes, reported, clean)
    \/ BuildOfficial
    \/ \E c \in Conditions : BuildParity(c)

Spec == Init /\ [][Next]_vars

-----------------------------------------------------------------------------
TypeOK ==
    /\ FilesTypeOK
    /\ evaluation.successes \subseteq Keys
    /\ official.count \in 0 .. Cardinality(Keys)
    /\ parity.built \in BOOLEAN /\ parity.passed \in BOOLEAN

(* A baseline that passed its gate had no failed episode and a clean log:    *)
(* the thresholds of 20 in all and 6 in two tasks never decide, because an   *)
(* evaluation with a failure has no manifest (results.py:70).                *)
PassedBaselineIsPerfect == official.passed => official.count = Cardinality(Keys)

(* A runner that passed parity ran each episode once, in one run, and lost   *)
(* no more of them than the allowed difference, however often the baseline   *)
(* was evaluated again or the rows were added to.                            *)
PassedParityIsClose ==
    parity.passed =>
        /\ Len(parity.rows) = Cardinality(Keys)
        /\ {parity.rows[n].key : n \in 1 .. Len(parity.rows)} = Keys
        /\ Cardinality({n \in 1 .. Len(parity.rows) : ~parity.rows[n].success}) <= Allowed
=============================================================================
