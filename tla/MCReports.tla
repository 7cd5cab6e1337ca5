----------------------------- MODULE MCReports -----------------------------
(* The evidence a benchmark leaves, side by side: the episode files of a     *)
(* matrix with the report and the analysis that read them; the gates of the  *)
(* baseline and its parity; and a live episode that is stopped, held against *)
(* its recording.  The parts share no state but the files, so a behaviour in *)
(* which one part moves shows all there is to see of it; the others stay     *)
(* where they start.                                                         *)
EXTENDS Integers, Sequences

CONSTANTS naive, aligned    \* the conditions of the matrix

VARIABLES part
VARIABLES head, created, file, trace, job, attempts
VARIABLES reader, published, readings
VARIABLES evaluation, official, parity, evaluations
VARIABLES world, says, model, pc, control, rows, facts, strict, started, claim, delta, chunk, sent

files == <<head, created, file, trace, job, attempts>>
reports == <<reader, published, readings>>
gate == <<evaluation, official, parity, evaluations>>
episode == <<world, says, model, pc, control, rows, facts, strict, started, claim, delta, chunk,
             sent>>
allVars == <<part, files, reports, gate, episode>>

(* A matrix of two conditions and two episodes each.  One spare attempt      *)
(* continues, repeats or spoils what the first ones left, under its own run  *)
(* id or another, before or after git can name a commit; or every condition  *)
(* gets one attempt, perhaps from a commit of its own, whose episodes also   *)
(* fail and whose traces name the places of the replacements.                *)
Success == [success |-> TRUE, steps |-> 1]
Mixed == INSTANCE MatrixReport WITH
    Conditions <- {naive, aligned}, Tasks <- {0, 1}, Indexes <- {0},
    Outcomes <- {Success}, Orders <- {<<0, 1>>, <<1>>}, Flags <- {TRUE},
    OwnIds <- {TRUE, FALSE}, MaxAttempts <- 3, MaxCommits <- 1, MaxReadings <- 1,
    Indexing <- {}
Matrix == INSTANCE MatrixReport WITH
    Conditions <- {naive, aligned}, Tasks <- {0, 1}, Indexes <- {0},
    Outcomes <- {Success, [success |-> FALSE, steps |-> 2]}, Orders <- {<<0, 1>>, <<1>>},
    Flags <- {TRUE}, OwnIds <- {TRUE}, MaxAttempts <- 2, MaxCommits <- 2,
    MaxReadings <- 1, Indexing <- {2}

(* One directory of three episodes and one evaluation of the baseline.       *)
Parity == INSTANCE ParityGate WITH
    Conditions <- {aligned}, Tasks <- {0, 1, 2}, Indexes <- {0},
    Outcomes <- {Success, [success |-> FALSE, steps |-> 1]}, Orders <- {<<0, 1, 2>>, <<2>>},
    Flags <- {TRUE}, OwnIds <- {TRUE}, MaxAttempts <- 2, MaxCommits <- 1,
    GateTotal <- 2, GateTasks <- 2, GatePerTask <- 1, Allowed <- 1, MaxEvaluations <- 1

(* Episodes of seven controls.                                               *)
Stop == INSTANCE StopEpisode WITH
    Last <- 6, Policy <- 4, ChunkLen <- 2, First <- 2, Window <- 2, Prime <- 2,
    Confirm <- 1, Post <- 4, MaxDelay <- 2

ASSUME ReportParameters ==
    /\ Mixed!FilesAssumption /\ Matrix!FilesAssumption
    /\ Parity!FilesAssumption /\ Parity!GateAssumption /\ Stop!EpisodeAssumption

-----------------------------------------------------------------------------
Init ==
    /\ part \in {"mixed", "matrix", "parity", "stop"}
    /\ IF part = "parity" THEN Parity!FilesInit ELSE Mixed!FilesInit
    /\ Mixed!ReadersInit /\ Parity!GateInit
    /\ Stop!Init
    /\ part # "stop" => ~model /\ \A c \in 0..6 : ~world[c] /\ (c > 1 => says[c] = "unknown")

Collecting ==
    /\ \/ part = "mixed" /\ Mixed!Next
       \/ part = "matrix" /\ Matrix!Next
    /\ UNCHANGED <<part, gate, episode>>
Gating ==
    /\ part = "parity" /\ Parity!Next
    /\ UNCHANGED <<part, reports, episode>>
Stopping ==
    /\ part = "stop" /\ Stop!Next
    /\ UNCHANGED <<part, files, reports, gate>>
Next == Collecting \/ Gating \/ Stopping
Spec == Init /\ [][Next]_allVars

(* Once the last reader has published or refused, what runners still write   *)
(* is no longer read.                                                        *)
SomeoneMayRead ==
    part = "mixed" => readings < 1 \/ reader.kind # "none"

-----------------------------------------------------------------------------
(* What is published rests on one sample, every episode of it once, in one   *)
(* run of each condition and at one commit, its tables are of the very rows  *)
(* that were validated and no trace is older than its row; a baseline passes *)
(* only when perfect, and the parity with one run of every episode and few   *)
(* enough losses: though attempts are stopped, continued and repeated, and a *)
(* runner may append while its files are read.                               *)
PublishedIsOneSample ==
    /\ [](part = "mixed" => /\ Mixed!TypeOK /\ Mixed!PublishedIsOneSample
                           /\ Mixed!TablesAreOfTheValidated
                           /\ Mixed!FreshFilesKeepTheirTraces)
    /\ [](part = "matrix" => /\ Matrix!TypeOK /\ Matrix!PublishedIsOneSample
                            /\ Matrix!TablesAreOfTheValidated
                            /\ Matrix!FreshFilesKeepTheirTraces)
    /\ Mixed!NoTraceIsOlder
    /\ [](part = "parity" => /\ Parity!TypeOK /\ Parity!PassedBaselineIsPerfect
                            /\ Parity!PassedParityIsClose)

(* The live episode stops where the recording of the same episode would be   *)
(* claimed first, the truth it is held against is that of the whole history, *)
(* the stopped arm stays, oracles primed from the recording say the same,    *)
(* and an episode that passes was stopped while the object rested.           *)
LiveAgreesWithRecording ==
    part = "stop" =>
        /\ Stop!TypeOK /\ Stop!LiveAgreesWithRecording /\ Stop!TruthIsOfTheHistory
        /\ Stop!HoldIsRelative /\ Stop!PrimedAgrees /\ Stop!PassedIsSafe
        /\ Stop!IntervalsAreMaximal
=============================================================================
