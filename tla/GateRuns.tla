------------------------------ MODULE GateRuns -------------------------------
(***************************************************************************)
(* The gated evidence of the language VLA, in the files its phases leave:  *)
(* the one-pass runners (llm_vla/gate_runner.py, repair_runner.py), their  *)
(* scorers (scoring.py, repair_scoring.py) and the native run that needs   *)
(* both scores (native_runner.py, grounded_native.py).  Every phase is a   *)
(* process of its own that anyone may start at any time and that may die   *)
(* at any step; what the processes share is the evidence directory.        *)
(*                                                                         *)
(* A digest of a receipt is modelled by the receipt's content.  A call that *)
(* fails or answers outside its schema is an explicit failure, which the    *)
(* gates count as they count a rejection or an "unknown".                   *)
(***************************************************************************)
EXTENDS Integers, Sequences, FiniteSets, FiniteSetsExt

CONSTANTS Workers,   \* processes that can exist at the same time
          Cases,     \* text phase, "shadow" |-> the truth of each call's case
          TextGate,  \* the calls of the text phase whose answers are gated
          Decisions, \* text phase, "shadow" |-> what a call can decide
          MinCorrect, MaxFalse, MinDecided, \* the thresholds of the gates
          Episodes   \* length of the native protocol

GateAssumption ==
    /\ Episodes \in Nat /\ {MinCorrect, MaxFalse, MinDecided} \subseteq Nat
    /\ "native" \notin DOMAIN Cases
    /\ \A p \in DOMAIN Cases : Cases[p] \in Seq({"yes", "no", "none"})

VARIABLES receipts,  \* phase |-> run_receipt.json, Missing or the directory alone
          scores,    \* phase |-> its score file
          proc,      \* worker |-> the process it is running
          calls      \* phase |-> how often the model was asked each case
vars == <<receipts, scores, proc, calls>>

Gates == DOMAIN Cases
Phases == Gates \union {"native"}
Missing == [status |-> "missing", rows |-> <<>>, episodes |-> <<>>,
            sealed |-> FALSE]
Directory == [Missing EXCEPT !.status = "directory"]
NoScore == [status |-> "missing", receipt |-> Missing]
Idle == [pc |-> "idle", phase |-> "none", receipt |-> Missing, score |-> NoScore]
NotRun == [status |-> "NOT_RUN", score |-> "none"]

Init ==
    /\ receipts = [p \in Phases |-> Missing]
    /\ scores = [p \in Gates |-> NoScore]
    /\ proc = [w \in Workers |-> Idle]
    /\ calls = [p \in Gates |-> [i \in 1 .. Len(Cases[p]) |-> 0]]

At(w, pc) == proc[w].pc = pc
Receipt(w) == proc[w].receipt
Go(w, pc, receipt) == proc' = [proc EXCEPT ![w].pc = pc, ![w].receipt = receipt]
(* save(): a temporary file, then replace. *)
Save(w, receipt) == receipts' = [receipts EXCEPT ![proc[w].phase] = receipt]

-----------------------------------------------------------------------------
(* The gates' arithmetic, over the rows of a receipt. *)

Decided(p, rows, truth, decision) ==
    {i \in DOMAIN rows : /\ Cases[p][i] = truth /\ rows[i] = decision
                         /\ p = "shadow" \/ i \in TextGate}
Complete(p, receipt) ==
    receipt.status = "COMPLETED" /\ Len(receipt.rows) = Len(Cases[p])

TextPasses(p, rows) ==
    /\ Cardinality(Decided(p, rows, "yes", "accept")) >= MinCorrect
    /\ Cardinality(Decided(p, rows, "no", "accept")) <= MaxFalse

(* Only labelled frames count: explicit failures and unknown cost coverage. *)
ShadowPasses(p, rows) ==
    /\ Decided(p, rows, "no", "complete") = {}
    /\ Cardinality(Decided(p, rows, "yes", "complete")) >= MinCorrect
    /\ Cardinality({i \in DOMAIN rows : Cases[p][i] # "none"
                                      /\ rows[i] \in {"complete", "incomplete"}}) >= MinDecided

Passes(p, receipt) ==
    /\ Complete(p, receipt)
    /\ IF p = "shadow" THEN ShadowPasses(p, receipt.rows) ELSE TextPasses(p, receipt.rows)

-----------------------------------------------------------------------------
(* The one-pass runners. *)

(* Slip: an output that is there is used. *)
NewOutputOrOld(p) == p \in Phases
NewOutput(p) == receipts[p].status = "missing"

(* mkdir(exist_ok=False) decides between two runs of one phase. *)
Start(w, p) ==
    /\ At(w, "idle") /\ NewOutput(p)
    /\ receipts' = [receipts EXCEPT ![p] = Directory]
    /\ proc' = [proc EXCEPT ![w] = [Idle EXCEPT !.pc = "opening", !.phase = p]]
    /\ UNCHANGED <<scores, calls>>

Open(w) ==
    /\ At(w, "opening") /\ proc[w].phase \in Gates
    /\ LET new == [Missing EXCEPT !.status = "RUNNING"]
       IN Save(w, new) /\ Go(w, "calling", new)
    /\ UNCHANGED <<scores, calls>>

Ended(receipt, status) == [receipt EXCEPT !.status = status]

(* The model cannot be loaded, or a case is not the frozen one: no call. *)
Fail(w) ==
    /\ At(w, "calling")
    /\ Go(w, "closing", Ended(Receipt(w), "ERROR"))
    /\ UNCHANGED <<receipts, scores, calls>>

Stops(p, rows, decision) == decision = "timeout"

(* One call: its row is on disk before the next one; a timeout ends the phase. *)
Call(w) == LET p == proc[w].phase IN
    /\ At(w, "calling") /\ Len(Receipt(w).rows) < Len(Cases[p])
    /\ \E d \in Decisions[p] :
         LET rows == Append(Receipt(w).rows, d)
             receipt == [Receipt(w) EXCEPT !.rows = rows]
         IN /\ Save(w, receipt)
            /\ IF Stops(p, rows, d)
               THEN Go(w, "closing", Ended(receipt, "ERROR"))
               ELSE Go(w, "calling", receipt)
    /\ calls' = [calls EXCEPT ![p][Len(Receipt(w).rows) + 1] = @ + 1]
    /\ UNCHANGED scores

Finish(w) ==
    /\ At(w, "calling") /\ Len(Receipt(w).rows) = Len(Cases[proc[w].phase])
    /\ Go(w, "closing", Ended(Receipt(w), "COMPLETED"))
    /\ UNCHANGED <<receipts, scores, calls>>

(* finally: the status reaches the disk with the last save, which is skipped
   when closing the model raises. *)
Close(w) ==
    /\ At(w, "closing")
    /\ Save(w, [Receipt(w) EXCEPT !.sealed = TRUE]) \/ UNCHANGED receipts
    /\ proc' = [proc EXCEPT ![w] = Idle]
    /\ UNCHANGED <<scores, calls>>

Die(w) ==
    /\ ~At(w, "idle")
    /\ proc' = [proc EXCEPT ![w] = Idle]
    /\ UNCHANGED <<receipts, scores, calls>>

-----------------------------------------------------------------------------
(* The scorers: the receipt is read, and hashed by a second read; a score that
   exists when the scorer starts is not overwritten. *)
ScoreReads(w, p) ==
    /\ At(w, "idle") /\ p \in Gates
    /\ scores[p] = NoScore /\ receipts[p].status \notin {"missing", "directory"}
    /\ proc' = [proc EXCEPT ![w] = [Idle EXCEPT !.pc = "scoring", !.phase = p,
                    !.receipt = receipts[p],
                    !.score.status = IF Passes(p, receipts[p]) THEN "PASS" ELSE "FAIL"]]
    /\ UNCHANGED <<receipts, scores, calls>>

ScoreHashes(w) ==
    /\ At(w, "scoring")
    /\ proc' = [proc EXCEPT ![w].pc = "hashed", ![w].score.receipt = receipts[proc[w].phase]]
    /\ UNCHANGED <<receipts, scores, calls>>

ScoreSaves(w) ==
    /\ At(w, "hashed")
    /\ scores' = [scores EXCEPT ![proc[w].phase] = proc[w].score]
    /\ proc' = [proc EXCEPT ![w] = Idle]
    /\ UNCHANGED <<receipts, calls>>

-----------------------------------------------------------------------------
(* The native run. *)

GatePassed(p) == scores[p].status = "PASS" /\ scores[p].receipt = receipts[p]

(* The gates are read one by one, before the directory is made.  Here they  *)
(* are read in one step, the last of these: a score is written once, and one *)
(* that is PASS is of a final receipt (ScoresInv), so a gate that was found  *)
(* passed stays passed.  All phases have one frozen config; its digest,      *)
(* which the code compares as well, is left out.                             *)
RequireGates(w) == \A p \in Gates : GatePassed(p)
CheckGates(w) ==
    /\ At(w, "idle") /\ RequireGates(w)
    /\ proc' = [proc EXCEPT ![w] = [Idle EXCEPT !.pc = "native", !.phase = "native"]]
    /\ UNCHANGED <<receipts, scores, calls>>

StartNative(w) ==
    /\ At(w, "native")
    /\ IF NewOutput("native")
       THEN LET new == [Missing EXCEPT !.status = "RUNNING",
                                       !.episodes = [i \in 1 .. Episodes |-> NotRun]]
            IN Save(w, new) /\ Go(w, "episodes", new)
       ELSE proc' = [proc EXCEPT ![w] = Idle] /\ UNCHANGED receipts
    /\ UNCHANGED <<scores, calls>>

Rows(w) == Receipt(w).episodes
RunningEpisode(w) == {i \in DOMAIN Rows(w) : Rows(w)[i].status = "RUNNING"}
Untouched(w) == {i \in DOMAIN Rows(w) : Rows(w)[i].status = "NOT_RUN"}
HeldBack(w, i) == i = 3 /\ \E j \in 1 .. 2 : Rows(w)[j].score # "PASS"

(* The next episode; the third, the interrupted one, needs two complete logs. *)
Episode(w) ==
    /\ At(w, "episodes") /\ RunningEpisode(w) = {} /\ Untouched(w) # {}
    /\ LET i == Min(Untouched(w))
           running == [Receipt(w) EXCEPT !.episodes[i].status = "RUNNING"]
       IN IF HeldBack(w, i)
          THEN Go(w, "ending", Ended(Receipt(w), "STOPPED_BY_GATE")) /\ UNCHANGED receipts
          ELSE Save(w, running) /\ Go(w, "episodes", running)
    /\ UNCHANGED <<scores, calls>>

(* The instruction is not accepted: the row is saved with a later one. *)
Reject(w) ==
    /\ At(w, "episodes")
    /\ \E i \in RunningEpisode(w) :
         Go(w, "episodes", [Receipt(w) EXCEPT !.episodes[i].status = "REJECTED"])
    /\ UNCHANGED <<receipts, scores, calls>>

(* An executed episode is scored and saved; a score that fails ends the run. *)
Execute(w) ==
    /\ At(w, "episodes")
    /\ \E i \in RunningEpisode(w), score \in {"PASS", "FAIL"} :
         LET done == [Receipt(w) EXCEPT !.episodes[i] = [status |-> "DONE", score |-> score]]
         IN /\ Save(w, done)
            /\ IF score = "PASS" THEN Go(w, "episodes", done)
               ELSE Go(w, "ending", Ended(done, "STOPPED_BY_GATE"))
    /\ UNCHANGED <<scores, calls>>

(* Any exception: the running episode's row is an error too. *)
NativeFails(w) ==
    /\ At(w, "episodes")
    /\ Go(w, "ending", Ended([Receipt(w) EXCEPT !.episodes = [i \in DOMAIN Rows(w) |->
            IF i \in RunningEpisode(w) THEN [Rows(w)[i] EXCEPT !.status = "ERROR"]
            ELSE Rows(w)[i]]], "ERROR"))
    /\ UNCHANGED <<receipts, scores, calls>>

NativeDone(w) ==
    /\ At(w, "episodes") /\ RunningEpisode(w) = {} /\ Untouched(w) = {}
    /\ Go(w, "ending", Ended(Receipt(w), "COMPLETED"))
    /\ UNCHANGED <<receipts, scores, calls>>

(* finally: a close that raises turns the status into an error, and the receipt
   is saved in every case. *)
EndNative(w) ==
    /\ At(w, "ending")
    /\ \E status \in {Receipt(w).status, "ERROR"} :
         Save(w, [Receipt(w) EXCEPT !.status = status, !.sealed = TRUE])
    /\ proc' = [proc EXCEPT ![w] = Idle]
    /\ UNCHANGED <<scores, calls>>

-----------------------------------------------------------------------------
Runner(w) == Open(w) \/ Fail(w) \/ Call(w) \/ Finish(w) \/ Close(w)
Scorer(w) == ScoreHashes(w) \/ ScoreSaves(w)
Native(w) ==
    \/ CheckGates(w) \/ StartNative(w) \/ Episode(w) \/ Reject(w) \/ Execute(w)
    \/ NativeFails(w) \/ NativeDone(w) \/ EndNative(w)
Next == \E w \in Workers :
    \/ \E p \in Gates : Start(w, p) \/ ScoreReads(w, p)
    \/ Runner(w) \/ Scorer(w) \/ Native(w) \/ Die(w)
Spec == Init /\ [][Next]_vars

-----------------------------------------------------------------------------
Statuses == {"missing", "directory", "RUNNING", "COMPLETED", "ERROR", "STOPPED_BY_GATE"}
(* The shape of the files and processes. *)
TypeOK ==
    /\ \A p \in Phases : receipts[p].status \in Statuses /\ receipts[p].sealed \in BOOLEAN
    /\ \A p \in Gates : Len(receipts[p].rows) <= Len(Cases[p])
    /\ \A p \in Gates : scores[p].status \in {"missing", "PASS", "FAIL"}

(* gate_runner.py:1,39,125, "one-pass inference", "no retries": over every run
   of a phase, crashed ones included, the model is asked each case once. *)
AskedOnce == \A p \in Gates : \A i \in DOMAIN calls[p] : calls[p][i] <= 1

(* gate_runner.py:124-125: a call that timed out was the phase's last. *)
NoCallAfterTimeout == \A p \in Gates : \A i \in DOMAIN receipts[p].rows :
    receipts[p].rows[i] = "timeout" => i = Len(receipts[p].rows) /\
        (i < Len(Cases[p]) => calls[p][i + 1] = 0)

(* scoring.py:39,131, gate_runner.py:126-146: a PASS names the very receipt it
   was computed from although the receipt is read twice, possibly beside a run
   that is still going, and no one can change that receipt any more. *)
PassIsOfTheReceipt == \A p \in Gates : scores[p].status = "PASS" =>
    /\ scores[p].receipt = receipts[p]
    /\ Passes(p, receipts[p])

(* native_runner.py:1,29-36: once a native directory exists, both gates' runs
   are complete and meet their thresholds, whatever crashed or raced before. *)
NativeHasEvidence == receipts["native"].status # "missing" =>
    \A p \in Gates : Passes(p, receipts[p]) /\ receipts[p].sealed

(* native_runner.py:53-60: the interrupted episode was started only after two
   executed episodes with passing logs, and they are on disk. *)
InterruptionAfterTwoLogs ==
    LET rows == receipts["native"].episodes IN
    Len(rows) >= 3 /\ rows[3].status # "NOT_RUN" => \A j \in 1 .. 2 : rows[j].score = "PASS"

(* native_runner.py:193-199, gate_runner.py:126-146: a receipt that is final
   does not change. *)
FinalReceiptStays == [][\A p \in Phases :
    receipts[p].sealed => receipts'[p] = receipts[p]]_vars
=============================================================================
