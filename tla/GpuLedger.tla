------------------------------ MODULE GpuLedger ------------------------------
(***************************************************************************)
(* The supervisors of the GPU phases: main in                              *)
(* scripts/engineering/run_llm_vla.py, and the same protocol in            *)
(* scripts/engineering/run_native_baseline.py.  An invocation makes its    *)
(* checks, takes the ledger's lock without waiting, reads the ledger,      *)
(* reserves all that is left of the budget in a RUNNING row, starts a      *)
(* child in a session of its own, waits for it within the allowance and    *)
(* charges what it took.  The lock dies with the process that holds it; a  *)
(* child does not die with the supervisor that started it.                 *)
(* Of a finished row's status only that it is not RUNNING is ever read, so *)
(* COMPLETED, ERROR, BUDGET_TIMEOUT and the rest are one status here.      *)
(*                                                                         *)
(* Time passes only while some supervisor waits: the other steps take less *)
(* than a unit.  A supervisor whose wait is over acts before the next unit.*)
(***************************************************************************)
EXTENDS Integers, Sequences, FiniteSets, FiniteSetsExt, SequencesExt

CONSTANTS Supervisors,  \* invocations that can exist at the same time
          Phases,
          Repeatable,   \* the phases that may be run again (native smoke)
          Requires,     \* phase |-> the phases whose score must be PASS
          Cap,          \* phase |-> the most one child of it may be given
          Limit,        \* the budget of all the children
          Least,        \* the smallest allowance worth a launch
          Reserve,      \* kept back from the allowance for the shutdown
          Grace,        \* from SIGTERM to SIGKILL
          KillWait,     \* how long a killed child is waited for
          MaxRuns       \* bound: rows in the ledger

GpuAssumption ==
    /\ {Limit, Least, Reserve, Grace, KillWait, MaxRuns} \subseteq Nat
    /\ Reserve >= Grace + KillWait /\ Least > Reserve
    /\ Cap \in [Phases -> Nat] /\ Requires \in [Phases -> SUBSET Phases]

VARIABLES ledger,    \* the rows on disk
          lock,      \* the supervisor that holds the lock, or None
          sup,       \* the supervisors
          children,  \* every child ever started
          passed     \* the phases with an intact PASS score
vars == <<ledger, lock, sup, children, passed>>

None == "none"
Idle == [pc |-> "idle", phase |-> None, child |-> 0, row |-> 0,
         elapsed |-> 0, until |-> 0]

Init ==
    /\ ledger = <<>>
    /\ lock = None
    /\ sup = [s \in Supervisors |-> Idle]
    /\ children = <<>>
    /\ passed = {}

Go(s, pc) == sup' = [sup EXCEPT ![s].pc = pc]
Alive(c) == c # 0 /\ children[c].alive
Charged == MapThenSumSet(LAMBDA i : ledger[i].charged, DOMAIN ledger)
Smaller(a, b) == IF a < b THEN a ELSE b

(* The runner makes its output directory before it loads anything. *)
HasOutput(p) == \E c \in DOMAIN children : children[c].phase = p /\ children[c].loaded

(* The checks made before the lock: no output, and the earlier gates pass. *)
Invoke(s) == \E p \in Phases :
    /\ sup[s].pc = "idle"
    /\ p \in Repeatable \/ ~HasOutput(p)
    /\ Requires[p] \subseteq passed
    /\ sup' = [sup EXCEPT ![s].pc = "checked", ![s].phase = p]
    /\ UNCHANGED <<ledger, lock, children, passed>>

(* LOCK_EX | LOCK_NB: an invocation that finds the lock taken fails. *)
Acquire(s) ==
    /\ sup[s].pc = "checked"
    /\ IF lock = None
       THEN lock' = s /\ Go(s, "locked")
       ELSE sup' = [sup EXCEPT ![s] = Idle] /\ UNCHANGED lock
    /\ UNCHANGED <<ledger, children, passed>>

Refused(p) == \E i \in DOMAIN ledger :
    ledger[i].status = "RUNNING" \/ (ledger[i].phase = p /\ p \notin Repeatable)
Allowance(p) == Smaller(Cap[p], Limit - Charged)
(* nvidia-smi lists no compute process. *)
GpuFree == ~\E c \in DOMAIN children : Alive(c) /\ children[c].loaded

(* The ledger is read under the lock; a launch that is allowed reserves its
   whole allowance on disk before the child exists. *)
Claim(s) ==
    LET p == sup[s].phase
        claim == /\ ~Refused(p) /\ Allowance(p) >= Least /\ GpuFree
                 /\ Len(ledger) < MaxRuns
    IN /\ sup[s].pc = "locked"
       /\ IF claim
          THEN /\ ledger' = Append(ledger, [phase |-> p, status |-> "RUNNING",
                                            charged |-> Allowance(p), child |-> 0])
               /\ sup' = [sup EXCEPT ![s].pc = "claimed", ![s].row = Len(ledger) + 1,
                                     ![s].until = Allowance(p) - Reserve]
               /\ UNCHANGED lock
          ELSE sup' = [sup EXCEPT ![s] = Idle] /\ lock' = None /\ UNCHANGED ledger
       /\ UNCHANGED <<children, passed>>

NewChild(s, lost) == Append(children,
    [phase |-> sup[s].phase, alive |-> TRUE, loaded |-> FALSE, used |-> 0,
     row |-> sup[s].row, lost |-> lost, abandoned |-> FALSE])

(* Popen returns, and the pid is saved in the row. *)
Spawn(s) ==
    /\ sup[s].pc = "claimed"
    /\ children' = NewChild(s, FALSE)
    /\ sup' = [sup EXCEPT ![s].pc = "waiting", ![s].child = Len(children) + 1]
    /\ ledger' = [ledger EXCEPT ![sup[s].row].child = Len(children) + 1]
    /\ UNCHANGED <<lock, passed>>

(* The log cannot be opened or Popen fails; or a signal is handled while Popen
   has made the child and not yet returned it: "child" is still None. *)
SpawnFails(s) ==
    /\ sup[s].pc = "claimed"
    /\ children' \in {children, NewChild(s, TRUE)}
    /\ Go(s, "cleanup")
    /\ UNCHANGED <<ledger, lock, passed>>

WaitOver(s) == sup[s].elapsed = sup[s].until

(* wait() returns: the child has ended by itself. *)
Ended(s) ==
    /\ sup[s].pc \in {"waiting", "terminating", "killing"}
    /\ ~Alive(sup[s].child)
    /\ Go(s, "cleanup")
    /\ UNCHANGED <<ledger, lock, children, passed>>

Terminate(s) ==
    /\ sup[s].pc = "waiting" /\ WaitOver(s) /\ Alive(sup[s].child)
    /\ sup' = [sup EXCEPT ![s].pc = "terminating", ![s].until = @ + Grace]
    /\ UNCHANGED <<ledger, lock, children, passed>>

(* Slip: after SIGTERM the child is waited for without end. *)
KillIfGone(s) ==
    /\ sup[s].pc = "terminating" /\ WaitOver(s) /\ ~Alive(sup[s].child)
    /\ sup' = [sup EXCEPT ![s].pc = "killing", ![s].until = @ + KillWait]
    /\ UNCHANGED <<ledger, lock, children, passed>>
Kill(s) ==
    /\ sup[s].pc = "terminating" /\ WaitOver(s) /\ Alive(sup[s].child)
    /\ sup' = [sup EXCEPT ![s].pc = "killing", ![s].until = @ + KillWait]
    /\ UNCHANGED <<ledger, lock, children, passed>>

(* TimeoutExpired out of the last wait, or a signal handled in any wait. *)
Interrupt(s) ==
    /\ sup[s].pc \in {"waiting", "terminating", "killing"}
    /\ Go(s, "cleanup")
    /\ UNCHANGED <<ledger, lock, children, passed>>
KillExpires(s) == sup[s].pc = "killing" /\ WaitOver(s) /\ Interrupt(s)

(* finally: a child still alive is killed and waited for once more. *)
KillAgain(s) ==
    /\ sup[s].pc = "cleanup" /\ Alive(sup[s].child)
    /\ sup' = [sup EXCEPT ![s].pc = "reaping", ![s].until = sup[s].elapsed + KillWait]
    /\ UNCHANGED <<ledger, lock, children, passed>>

(* Slip: finally does not look whether the child is alive. *)
NothingLeftUnchecked(s) == sup[s].pc \in {"cleanup", "reaping"}
NothingLeft(s) ==
    /\ sup[s].pc \in {"cleanup", "reaping"}
    /\ ~Alive(sup[s].child)
Charge(s) == sup[s].elapsed
Settle(s) ==
    /\ NothingLeft(s)
    /\ ledger' = [ledger EXCEPT ![sup[s].row].status = "FINISHED",
                                ![sup[s].row].charged = Charge(s)]
    /\ sup' = [sup EXCEPT ![s] = Idle]
    /\ lock' = None
    /\ UNCHANGED <<children, passed>>

(* The supervisor dies: killed, or a second exception out of finally (the
   killed child is not gone within KillWait), or a signal before try: whatever
   is on disk stays, and the child lives on by itself. *)
Die(s) ==
    /\ sup[s].pc # "idle"
    /\ lock' = IF lock = s THEN None ELSE lock
    /\ children' = IF sup[s].child = 0 THEN children
                   ELSE [children EXCEPT ![sup[s].child].abandoned = TRUE]
    /\ sup' = [sup EXCEPT ![s] = Idle]
    /\ UNCHANGED <<ledger, passed>>
ReapExpires(s) == sup[s].pc = "reaping" /\ WaitOver(s) /\ Die(s)

(* The child makes its output and takes the GPU, or ends by itself or by a signal. *)
ChildLoads(c) ==
    /\ Alive(c) /\ ~children[c].loaded
    /\ children' = [children EXCEPT ![c].loaded = TRUE]
    /\ UNCHANGED <<ledger, lock, sup, passed>>
ChildEnds(c) ==
    /\ Alive(c)
    /\ children' = [children EXCEPT ![c].alive = FALSE]
    /\ UNCHANGED <<ledger, lock, sup, passed>>

(* A scorer passes the receipt of a phase whose child is over. *)
Score(p) ==
    /\ p \notin passed
    /\ \E c \in DOMAIN children : children[c].phase = p /\ children[c].loaded /\ ~Alive(c)
    /\ passed' = passed \union {p}
    /\ UNCHANGED <<ledger, lock, sup, children>>

Waiting == {s \in Supervisors : sup[s].pc \in {"waiting", "terminating", "killing", "reaping"}}
Tick ==
    /\ \A s \in Supervisors : sup[s].pc \notin {"claimed", "cleanup"}
    /\ Waiting # {} /\ \A s \in Waiting : ~WaitOver(s)
    /\ sup' = [s \in Supervisors |->
                 IF s \in Waiting THEN [sup[s] EXCEPT !.elapsed = @ + 1] ELSE sup[s]]
    /\ children' = [c \in DOMAIN children |->
         IF Alive(c) THEN [children[c] EXCEPT !.used = Smaller(@ + 1, Limit + 1)] ELSE children[c]]
    /\ UNCHANGED <<ledger, lock, passed>>

Step(s) ==
    \/ Acquire(s) \/ Claim(s) \/ Spawn(s) \/ SpawnFails(s) \/ Ended(s) \/ Terminate(s)
    \/ Kill(s) \/ KillExpires(s) \/ KillAgain(s) \/ Settle(s) \/ ReapExpires(s)
Next ==
    \/ \E s \in Supervisors : Invoke(s) \/ Step(s) \/ Interrupt(s) \/ Die(s)
    \/ \E c \in DOMAIN children : ChildLoads(c) \/ ChildEnds(c)
    \/ \E p \in Phases : Score(p)
    \/ Tick

Spec == Init /\ [][Next]_vars
(* Time passes and a supervisor that can act does; children owe nothing. *)
FairSpec == Spec /\ WF_vars(Tick) /\ \A s \in Supervisors : WF_vars(Step(s))

-----------------------------------------------------------------------------
(* The shape of the ledger and of the supervisors. *)
TypeOK ==
    /\ \A i \in DOMAIN ledger :
         ledger[i].phase \in Phases /\ ledger[i].charged \in 0 .. Limit + KillWait
    /\ lock \in Supervisors \union {None}
    /\ \A s \in Supervisors : sup[s].elapsed \in 0 .. Limit + KillWait

Owned == {c \in DOMAIN children : ~children[c].lost}

(* run_llm_vla.py:112: a child the supervisors know of and that may be alive has
   a RUNNING row on disk, whichever of its supervisor's steps was the last: that
   row is what keeps every later invocation from starting a second one. *)
LiveChildIsOnTheLedger == \A c \in Owned :
    Alive(c) => ledger[children[c].row].status = "RUNNING"

(* run_llm_vla.py:97-114: of the children that were not lost inside Popen at
   most one is alive, even after supervisors have crashed. *)
OneOwnedChild == Cardinality({c \in Owned : Alive(c)}) <= 1

(* run_llm_vla.py:53,112: a phase is never started twice, whatever happened to
   the first child, unless it may be repeated. *)
OneChildPerPhase == \A c, d \in DOMAIN children :
    children[c].phase = children[d].phase /\ children[c].phase \notin Repeatable => c = d

(* run_llm_vla.py:115,158,208: the wall time of the children whose supervisor
   survived stays within the shared budget, but for the one wait of a child
   that outlives its SIGKILL. *)
WithinBudget ==
    MapThenSumSet(LAMBDA c : children[c].used, {c \in Owned : ~children[c].abandoned})
        <= Limit + KillWait

(* run_llm_vla.py:1,114: "No overlapping, unfinished or repeated phase is
   allowed": at most one child is alive. *)
OneChildAtATime == Cardinality({c \in DOMAIN children : Alive(c)}) <= 1

(* run_llm_vla.py:158,208: settling a row never gives back less than was used:
   the charge on disk is at least the wall time of the row's child. *)
ChargedWhatWasUsed == \A c \in Owned : LET row == ledger[children[c].row] IN
    ~children[c].abandoned /\ row.status # "RUNNING" => children[c].used <= row.charged

(* run_llm_vla.py:188-211: every invocation ends, with the lock released,
   whatever its child does. *)
InvocationEnds == \A s \in Supervisors : sup[s].pc # "idle" ~> sup[s].pc = "idle"
=============================================================================
