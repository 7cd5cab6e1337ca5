----------------------------- MODULE MCLanguage -----------------------------
(* The programs around a language-conditioned policy, side by side: what a   *)
(* request authorises, the ledger of the GPU they share and the research on  *)
(* visual evidence.  They share no state, so a behaviour in which one part   *)
(* moves shows all there is to see of it; the others stay where they start.  *)
EXTENDS Integers, Sequences

VARIABLES part
VARIABLES text, contract, raw, permit, outcome, edits
VARIABLES ledger, lock, sup, children, passed
VARIABLES time, rpc, status, cases, previous, verified

request == <<text, contract, raw, permit, outcome, edits>>
gpu == <<ledger, lock, sup, children, passed>>
research == <<time, rpc, status, cases, previous, verified>>
allVars == <<part, request, gpu, research>>

(* Three of the thirteen productions, and what up to two words more, less or *)
(* other make of a sentence of theirs; "sauce jar" is an alias of "sauce".   *)
Art(s) == {<<s>>, <<"the", s>>}
Sentences ==
    UNION {{<<"put">> \o t \o <<"in">> \o b, <<"in">> \o b \o <<"put">> \o t,
            <<"please", "put">> \o t \o <<"in">> \o b} : t \in Art("T"), b \in Art("B")}
Versions ==
    [wide |-> [target |-> {<<"sauce">>, <<"sauce", "jar">>},
               destination |-> {<<"basket">>}, guards |-> {}],
     strict |-> [target |-> {<<"sauce">>}, destination |-> {<<"basket">>},
                 guards |-> {"without"}]]
Quotes ==
    [target : {<<"sauce">>, <<"the", "sauce">>, <<"sauce", "jar">>, <<"jar">>},
     destination : {<<"basket">>}]
Request == INSTANCE Authorization WITH
    Words <- {"please", "put", "in", "the", "sauce", "jar", "basket", "without", "#"},
    Grammar <- Sentences, Prepositions <- {"in"}, Negations <- {"without"},
    Articles <- {"the"}, Contracts <- Versions, Proposals <- Quotes, MaxEdits <- 2,
    Starts <- {<<"put", "the", "sauce", "in", "the", "basket">>}

(* The supervisors with the phases of the repair protocol, two invocations   *)
(* at a time; and one with native smoke runs, which may be repeated, and a   *)
(* development run.                                                          *)
Phases == {"comparison", "shadow", "native"}
Repair == INSTANCE GpuLedger WITH
    Supervisors <- {"s1", "s2"}, Phases <- Phases, Repeatable <- {},
    Requires <- [p \in Phases |-> IF p = "native" THEN {"comparison", "shadow"} ELSE {}],
    Cap <- [p \in Phases |-> 4],
    Limit <- 4, Least <- 3, Reserve <- 2, Grace <- 1, KillWait <- 1, MaxRuns <- 4
Native == INSTANCE GpuLedger WITH
    Supervisors <- {"s1"}, Phases <- {"smoke", "development"}, Repeatable <- {"smoke"},
    Requires <- [smoke |-> {}, development |-> {}], Cap <- [smoke |-> 3, development |-> 6],
    Limit <- 6, Least <- 3, Reserve <- 2, Grace <- 1, KillWait <- 1, MaxRuns <- 2

(* Two observations of one stream, in the order of their times or not, the   *)
(* first an anchor; and the text phase with three requests.                  *)
View(rel, box) == [rel |-> rel, box |-> box, sure |-> TRUE]
In == View("inside", "inside")
Out == View("outside", "outside")
Lost(seen) == [rel |-> "unknown", seen |-> seen]
Answers ==
    [original |-> {<<In, In>>, <<Out, Out>>, <<In, View("inside", "outside")>>},
     flipped |-> {<<In, In>>, <<Out, Out>>},
     masked |-> {<<Lost(FALSE), Lost(FALSE)>>, <<Lost(FALSE), Lost(TRUE)>>}]
Orders == {[a |-> 1, b |-> 2, c |-> 3], [a |-> 2, b |-> 1, c |-> 3]}
Vision == INSTANCE VisualResearch WITH
    Phase <- "evidence", Observations <- <<"a", "b">>, Streams <- [a |-> "s", b |-> "s"],
    Times <- Orders, Anchors <- <<[current |-> "a", earlier |-> "b"]>>,
    Interventions <- <<"real", "blank">>, Replies <- Answers,
    Truth <- [a |-> TRUE, b |-> FALSE],
    MinPositives <- 1, MinNegatives <- 1, MinCoverage <- 60, pc <- rpc
Text == INSTANCE VisualResearch WITH
    Phase <- "coverage", Observations <- <<"a", "b", "c">>,
    Streams <- [a |-> "s", b |-> "s", c |-> "s"],
    Times <- Orders, Anchors <- <<[current |-> "a", earlier |-> "b"]>>,
    Interventions <- <<"real", "blank">>, Replies <- Answers,
    Truth <- [a |-> TRUE, b |-> FALSE, c |-> TRUE],
    MinPositives <- 1, MinNegatives <- 1, MinCoverage <- 60, pc <- rpc
(* Three observations of one stream, whose images and mirrors agree: a       *)
(* contradiction can be followed by another observation, in order or not.    *)
History == INSTANCE VisualResearch WITH
    Phase <- "evidence", Observations <- <<"a", "b", "c">>,
    Streams <- [a |-> "s", b |-> "s", c |-> "s"],
    Times <- {[a |-> 1, b |-> 2, c |-> 3], [a |-> 1, b |-> 3, c |-> 2]},
    Anchors <- <<>>, Interventions <- <<"real">>,
    Replies <- [original |-> {<<In, In>>, <<Out, Out>>},
                flipped |-> {<<In, In>>, <<Out, Out>>},
                masked |-> {<<Lost(FALSE), Lost(FALSE)>>}],
    Truth <- [a |-> TRUE, b |-> FALSE, c |-> TRUE],
    MinPositives <- 1, MinNegatives <- 1, MinCoverage <- 60, pc <- rpc

ASSUME LanguageParameters ==
    /\ Request!AuthorizationAssumption
    /\ Repair!GpuAssumption /\ Native!GpuAssumption
    /\ Vision!ResearchAssumption /\ Text!ResearchAssumption /\ History!ResearchAssumption

-----------------------------------------------------------------------------
Init ==
    /\ part \in {"request", "repair", "native", "vision", "text", "history"}
    /\ Request!Init /\ (part # "request" => contract = "wide")
    /\ IF part = "native" THEN Native!Init ELSE Repair!Init
    /\ IF part = "history" THEN History!Init
       ELSE Vision!Init /\ (part # "vision" => time.a = 1)

Requesting ==
    /\ part = "request" /\ Request!Next
    /\ UNCHANGED <<part, gpu, research>>
Supervising ==
    /\ \/ part = "repair" /\ Repair!Next
       \/ part = "native" /\ Native!Next
    /\ UNCHANGED <<part, request, research>>
Researching ==
    /\ \/ part = "vision" /\ Vision!Next
       \/ part = "text" /\ Text!Next
       \/ part = "history" /\ History!Next
    /\ UNCHANGED <<part, request, gpu>>

Next == Requesting \/ Supervising \/ Researching
Spec == Init /\ [][Next]_allVars

-----------------------------------------------------------------------------
(* What reaches a backend names one object and one place without a word to   *)
(* spare, under the contract in force at that moment, whatever was permitted *)
(* before and however the text or the contract has changed since.            *)
ExecutedIsAuthorized ==
    part = "request" =>
        Request!TypeOK /\ Request!ExecutedIsUnambiguous /\ Request!ExecutedIsInForce

(* Every child a supervisor knows of stands on the ledger until it has ended *)
(* and was charged for; there is one at a time, one per phase that may not   *)
(* be repeated, and together they stay within the budget.                    *)
LedgerHolds ==
    /\ part = "repair" =>
        /\ Repair!TypeOK /\ Repair!LiveChildIsOnTheLedger /\ Repair!OneOwnedChild
        /\ Repair!OneChildPerPhase /\ Repair!WithinBudget /\ Repair!ChargedWhatWasUsed
    /\ part = "native" =>
        /\ Native!TypeOK /\ Native!LiveChildIsOnTheLedger /\ Native!OneChildPerPhase
        /\ Native!WithinBudget /\ Native!ChargedWhatWasUsed

(* run_llm_vla.py:1,114: "No overlapping, unfinished or repeated phase is    *)
(* allowed": at most one child is alive.                                     *)
OneChildAtATime == part = "repair" => Repair!OneChildAtATime

(* A research phase that passes was asked to its end, what it calls complete *)
(* survived its counterfactuals, its stream never runs backwards, and its    *)
(* honest record is replayed to the very same decisions.                     *)
ResearchHolds ==
    /\ part = "vision" =>
        /\ Vision!TypeOK /\ Vision!PassIsWhole /\ Vision!NothingAfterTimeout
        /\ Vision!CompleteIsCounterfactual /\ Vision!HonestRunsReplay /\ Vision!NeverBackwards
    /\ part = "text" => Text!PassIsWhole /\ Text!NothingAfterTimeout
    /\ part = "history" => History!HonestRunsReplay /\ History!NeverBackwards
=============================================================================
