------------------------------- MODULE NativeRun -------------------------------
(***************************************************************************)
(* native_baseline.py: a child process that plays the one smoke episode or *)
(* the development episodes and leaves a receipt.  Its supervisor may send *)
(* SIGTERM, which raises an exception wherever the child happens to be,    *)
(* and later SIGKILL, which ends it there; reading assets, loading the     *)
(* model, inferring, stepping and validating may also fail on their own.   *)
(*                                                                         *)
(* Receipts are replaced whole (write_json renames a temporary file).  A   *)
(* receipt keeps its phase, its stages and its episodes; shapes, frames    *)
(* and timing are left out, and hashes: all runs have one config.          *)
(***************************************************************************)
EXTENDS Integers, Sequences, FiniteSets

CONSTANTS
    MaxRuns,      \* bound: runs of the program, each with its own output directory
    Development,  \* development resets of the config
    Cap,          \* max_control_steps
    Chunk         \* execute_steps_per_chunk

NativeRunAssumption ==
    /\ MaxRuns \in Nat /\ Development \in 1..3
    /\ Cap \in Nat \ {0} /\ Chunk \in Nat \ {0}

VARIABLES
    run, phase, pc,
    struck,                \* where SIGTERM hit the run, "killed", or "nowhere"
    stage, receipt,        \* active_stage and the receipt, in memory
    record, actions,       \* run_episode: its record and the rest of the chunk
    raising,               \* run_episode is left by an exception
    journal,               \* step_returned events of the episode
    disk, file,            \* run_receipt.json, and episode_receipt.json of each episode
    world                  \* what each episode did: steps executed, success, over

main == <<run, phase, stage, receipt>>
episode == <<record, actions, raising, journal>>
vars == <<main, episode, pc, struck, disk, file, world>>

Runs == 1..MaxRuns

Batch(p) == IF p = "smoke" THEN 1 ELSE Development
Episodes == 1..Development

NoReceipt == [phase |-> "absent", readiness |-> "absent", model |-> "absent",
              rollout |-> "absent", render |-> FALSE, episodes |-> <<>>, successes |-> -1]
NewReceipt(p) == [NoReceipt EXCEPT !.phase = p, !.readiness = "RUNNING",
                                   !.model = "NOT_RUN", !.rollout = "NOT_RUN"]
NoRecord == [id |-> 0, status |-> "absent", success |-> "None", steps |-> 0,
             render |-> FALSE]
NewRecord(e) == [NoRecord EXCEPT !.id = e, !.status = "NOT_RUN"]
Untouched == [steps |-> 0, success |-> FALSE, over |-> FALSE]

Init ==
    /\ run = 0 /\ phase = "smoke" /\ pc = "ended" /\ struck = "nowhere"
    /\ stage = "readiness" /\ receipt = NoReceipt
    /\ record = NoRecord /\ actions = 0 /\ raising = FALSE /\ journal = 0
    /\ disk = [r \in Runs |-> NoReceipt]
    /\ file = [r \in Runs |-> [e \in Episodes |-> NoRecord]]
    /\ world = [r \in Runs |-> [e \in Episodes |-> Untouched]]

(* validate_smoke_receipt *)
SmokePasses(r) ==
    /\ r.phase = "smoke" /\ r.model = "PASS" /\ r.render /\ r.rollout = "COMPLETED"
    /\ Len(r.episodes) = 1
    /\ r.episodes[1].status = "COMPLETED" /\ r.episodes[1].steps > 0
    /\ r.episodes[1].success # "None"

-----------------------------------------------------------------------------
(* main *)

(* A run of phase p; the first smoke run has no receipt to show. *)
Launch ==
    /\ pc = "ended" /\ run < MaxRuns
    /\ \E p \in {"smoke", "development"} :
         /\ p = "development" => \E s \in 1..run : SmokePasses(disk[s])
         /\ phase' = p
    /\ run' = run + 1 /\ pc' = "assets" /\ struck' = "nowhere"
    /\ stage' = "readiness" /\ receipt' = NewReceipt(phase')
    /\ disk' = [disk EXCEPT ![run + 1] = receipt']
    /\ UNCHANGED <<episode, file, world>>

Written(r) == disk' = [disk EXCEPT ![run] = r]

(* verify_assets, then verify_egl; either may raise. *)
VerifyAssets ==
    /\ pc = "assets" /\ pc' = "egl"
    /\ receipt' = [receipt EXCEPT !.readiness = "VERIFIED"] /\ Written(receipt')
    /\ UNCHANGED <<run, phase, stage, episode, struck, file, world>>

VerifyEgl ==
    /\ pc = "egl" /\ pc' = "loading"
    /\ stage' = "model" /\ receipt' = [receipt EXCEPT !.model = "RUNNING"]
    /\ Written(receipt')
    /\ UNCHANGED <<run, phase, episode, struck, file, world>>

(* The rollout is marked as running before it is the active stage. *)
Load ==
    /\ pc = "loading" /\ pc' = "loaded"
    /\ receipt' = [receipt EXCEPT !.model = "PASS", !.rollout = "RUNNING"]
    /\ UNCHANGED <<run, phase, stage, episode, struck, disk, file, world>>

Roll ==
    /\ pc = "loaded" /\ pc' = "next"
    /\ stage' = "rollout" /\ Written(receipt)
    /\ UNCHANGED <<run, phase, receipt, episode, struck, file, world>>

NextEpisode ==
    /\ pc = "next" /\ Len(receipt.episodes) < Batch(phase)
    /\ pc' = "resetting"
    /\ record' = NewRecord(Len(receipt.episodes) + 1)
    /\ actions' = 0 /\ raising' = FALSE /\ journal' = 0
    /\ UNCHANGED <<main, struck, disk, file, world>>

AppendEpisode ==
    /\ pc = "returned" /\ pc' = "next"
    /\ receipt' = [receipt EXCEPT !.render = TRUE, !.episodes = Append(@, record)]
    /\ Written(receipt')
    /\ UNCHANGED <<run, phase, stage, episode, struck, file, world>>

Successes(list) == Cardinality({i \in DOMAIN list : list[i].success = "True"})

Complete ==
    /\ pc = "next" /\ Len(receipt.episodes) = Batch(phase)
    /\ pc' = "completed"
    /\ receipt' = [receipt EXCEPT !.rollout = "COMPLETED",
                                  !.successes = Successes(receipt.episodes)]
    /\ UNCHANGED <<run, phase, stage, episode, struck, disk, file, world>>

Leave ==
    /\ pc = "completed" /\ pc' = "closing"
    /\ UNCHANGED <<main, episode, struck, disk, file, world>>

(* Episodes with a receipt of their own that the run has not listed. *)
Rescued ==
    {e \in 1..Batch(phase) :
       /\ file[run][e] # NoRecord
       /\ \A i \in DOMAIN receipt.episodes : receipt.episodes[i].id # e}

(* Slip: the error is noted and the episode under way forgotten. *)
OnlyNoteError ==
    /\ pc = "failing" /\ pc' = "closing"
    /\ receipt' = [receipt EXCEPT ![stage] = "ERROR"]
    /\ UNCHANGED <<run, phase, stage, episode, struck, disk, file, world>>

(* The "except" of main.  At most one episode is rescued: the one under way.  *)
HandleError ==
    /\ pc = "failing" /\ pc' = "closing"
    /\ LET failed == [receipt EXCEPT ![stage] = "ERROR"]
       IN receipt' =
            IF stage = "rollout" /\ Rescued # {}
            THEN LET e == CHOOSE e \in Rescued : TRUE
                 IN [failed EXCEPT !.episodes = Append(@, file[run][e]),
                                   !.render = @ \/ file[run][e].render]
            ELSE failed
    /\ UNCHANGED <<run, phase, stage, episode, struck, disk, file, world>>

(* backend.close(): what it raises is only noted. *)
CloseBackend ==
    /\ pc = "closing" /\ pc' = "finishing"
    /\ UNCHANGED <<main, episode, struck, disk, file, world>>

WriteFinal ==
    /\ pc = "finishing" /\ pc' = "ended"
    /\ Written(receipt)
    /\ UNCHANGED <<main, episode, struck, file, world>>

-----------------------------------------------------------------------------
(* run_episode *)

Reset ==
    /\ pc = "resetting" /\ pc' = "control"
    /\ record' = [record EXCEPT !.render = TRUE]
    /\ UNCHANGED <<main, actions, raising, journal, struck, disk, file, world>>

Infer ==
    /\ pc = "control" /\ actions = 0
    /\ actions' = Chunk
    /\ UNCHANGED <<main, record, raising, journal, pc, struck, disk, file, world>>

(* backend.step: the world moves, and is perhaps over. *)
Step ==
    /\ pc = "control" /\ actions > 0
    /\ actions' = actions - 1 /\ pc' = "stepped"
    /\ \E over, success \in BOOLEAN :
         world' = [world EXCEPT ![run][record.id] =
                     [steps |-> @.steps + 1, success |-> success, over |-> over]]
    /\ UNCHANGED <<main, record, raising, journal, struck, disk, file>>

Count ==
    /\ pc = "stepped" /\ pc' = "counted"
    /\ record' = [record EXCEPT !.steps = @ + 1]
    /\ UNCHANGED <<main, actions, raising, journal, struck, disk, file, world>>

TellReturned ==
    /\ pc = "counted" /\ pc' = "told"
    /\ journal' = journal + 1
    /\ UNCHANGED <<main, record, actions, raising, struck, disk, file, world>>

Now == world[run][record.id]

(* The observation and the flag are valid: go on, or leave the loop. *)
GoOn ==
    /\ pc = "told" /\ ~Now.success /\ ~Now.over /\ record.steps < Cap
    /\ pc' = "control"
    /\ UNCHANGED <<main, episode, struck, disk, file, world>>

(* episode_outcome *)
Outcome ==
    IF record.steps <= 0 THEN [status |-> "NOT_RUN", success |-> "None"]
    ELSE IF Now.success THEN [status |-> "COMPLETED", success |-> "True"]
    ELSE IF Now.over \/ record.steps = Cap
         THEN [status |-> "COMPLETED", success |-> "False"]
    ELSE [status |-> "INCOMPLETE", success |-> "None"]

Conclude ==
    /\ pc = "told"
    /\ Now.success \/ Now.over \/ record.steps = Cap
    /\ pc' = "concluded"
    /\ record' = [record EXCEPT !.status = Outcome.status, !.success = Outcome.success]
    /\ UNCHANGED <<main, actions, raising, journal, struck, disk, file, world>>

ToFinally ==
    /\ pc = "concluded" /\ pc' = "writing"
    /\ UNCHANGED <<main, episode, struck, disk, file, world>>

(* Its "except". *)
CondemnEpisode ==
    /\ pc = "erring" /\ pc' = "writing" /\ raising' = TRUE
    /\ record' = [record EXCEPT !.status = "ERROR", !.success = "None"]
    /\ UNCHANGED <<main, actions, journal, struck, disk, file, world>>

(* Its "finally"; then it returns or raises. *)
WriteEpisode ==
    /\ pc = "writing" /\ pc' = IF raising THEN "failing" ELSE "returned"
    /\ file' = [file EXCEPT ![run][record.id] = record]
    /\ UNCHANGED <<main, episode, struck, disk, world>>

-----------------------------------------------------------------------------
(* Errors and signals *)

InEpisode == {"resetting", "control", "stepped", "counted", "told", "concluded"}
InMain == {"assets", "egl", "loading", "loaded", "next", "returned", "completed"}

(* Reading, loading, inferring, stepping or validating raises. *)
Raise ==
    /\ pc \in {"assets", "egl", "loading", "resetting", "control", "told"}
    /\ pc' = IF pc \in InEpisode THEN "erring" ELSE "failing"
    /\ UNCHANGED <<main, episode, struck, disk, file, world>>

(* SIGTERM, once: an exception at any point.  In a handler or a "finally" it  *)
(* cuts short what was left to do there; in backend.close() it is swallowed.  *)
Interrupt ==
    /\ pc # "ended" /\ struck = "nowhere" /\ struck' = pc
    /\ pc' = CASE pc \in InEpisode -> "erring"
               [] pc = "erring" -> "writing"
               [] pc \in InMain \cup {"writing"} -> "failing"
               [] pc = "failing" -> "closing"
               [] pc = "closing" -> "finishing"
               [] pc = "finishing" -> "ended"
    /\ raising' = (raising \/ pc = "erring")
    /\ UNCHANGED <<main, record, actions, journal, disk, file, world>>

(* SIGKILL, sent after the other or when the supervisor itself goes. *)
Kill ==
    /\ pc # "ended" /\ pc' = "ended" /\ struck' = "killed"
    /\ UNCHANGED <<main, episode, disk, file, world>>

Next ==
    \/ Launch \/ VerifyAssets \/ VerifyEgl \/ Load \/ Roll \/ NextEpisode \/ AppendEpisode
    \/ Complete \/ Leave \/ HandleError \/ CloseBackend \/ WriteFinal
    \/ Reset \/ Infer \/ Step \/ Count \/ TellReturned \/ GoOn \/ Conclude \/ ToFinally
    \/ CondemnEpisode \/ WriteEpisode
    \/ Raise \/ Interrupt \/ Kill

Spec == Init /\ [][Next]_vars

-----------------------------------------------------------------------------
Statuses == {"absent", "NOT_RUN", "RUNNING", "VERIFIED", "PASS", "COMPLETED", "ERROR",
             "INCOMPLETE"}

(* Types; no episode is ever INCOMPLETE and none concludes without a step. *)
TypeOK ==
    /\ run \in 0..MaxRuns /\ stage \in {"readiness", "model", "rollout"}
    /\ \A f \in {"readiness", "model", "rollout"} : receipt[f] \in Statuses
    /\ record.status \in Statuses \ {"INCOMPLETE"} /\ record.steps \in 0..Cap
    /\ actions \in 0..Chunk /\ journal \in 0..Cap

(* A receipt that says COMPLETED lists every episode of the phase once, each  *)
(* with its verdict, and its count of successes is that of the world.         *)
CompletedIsComplete ==
    run > 0 /\ disk[run].rollout = "COMPLETED" =>
      LET list == disk[run].episodes
      IN /\ disk[run].model = "PASS"
         /\ Len(list) = IF phase = "smoke" THEN 1 ELSE Development
         /\ \A i \in DOMAIN list : list[i].id = i /\ list[i].status = "COMPLETED"
         /\ disk[run].successes = Cardinality({e \in Episodes : world[run][e].success})

(* A verdict is the world's: a success was one, a failure is an episode that  *)
(* is over without success, and the steps are those executed.                 *)
VerdictIsTrue ==
    \A r \in Runs, e \in Episodes :
      LET told == file[r][e]
          truth == world[r][e]
      IN told.status = "COMPLETED" =>
           /\ told.steps = truth.steps
           /\ told.success = IF truth.success THEN "True" ELSE "False"
           /\ truth.success \/ truth.over \/ truth.steps = Cap

(* An episode cut short has no verdict; its receipt, and the journal that     *)
(* survives even a kill, are at most the step under way behind the world.     *)
CutShortIsUndecided ==
    /\ \A r \in Runs, e \in Episodes :
         LET told == file[r][e]
         IN told.status \in {"ERROR", "NOT_RUN"} =>
              /\ told.success = "None"
              /\ world[r][e].steps - told.steps \in {0, 1}
    /\ pc \in InEpisode \cup {"erring", "writing"} =>
         Now.steps - journal \in {0, 1} /\ record.steps - journal \in {0, 1}

(* A receipt lists no episode twice and none with another verdict than the    *)
(* episode's own receipt.                                                     *)
ListedOnce ==
    \A r \in Runs :
      LET list == disk[r].episodes
      IN \A i \in DOMAIN list :
           /\ list[i] = file[r][list[i].id]
           /\ \A j \in DOMAIN list : list[i].id = list[j].id => i = j

(* An episode that stepped its world, or left a receipt. *)
Played(e) == world[run][e] # Untouched \/ file[run][e] # NoRecord

(* Where a signal keeps an episode from the receipt: the "finally" that writes *)
(* the episode's own (540-544), the "except" that lists it (650-665), the      *)
(* final write; and a kill anywhere.                                           *)
Losing == {"writing", "failing", "finishing", "killed"}

(* The receipt of a run that has ended lists every episode that was played:    *)
(* one that failed, and one interrupted anywhere but there.  And there only    *)
(* the episode under way is lost, never one before it.                         *)
NothingIsLost ==
    pc = "ended" /\ run > 0 =>
      \A e \in Episodes :
        Played(e) /\ (\A i \in DOMAIN disk[run].episodes : disk[run].episodes[i].id # e) =>
          struck \in Losing /\ e = Len(disk[run].episodes) + 1

(* A development run follows a smoke run that stepped its world to the end. *)
SmokeCameFirst ==
    run > 0 /\ phase = "development" =>
      \E s \in 1..(run - 1) :
        /\ world[s][1].steps > 0 /\ file[s][1].status = "COMPLETED"
        /\ world[s][1].success \/ world[s][1].over \/ world[s][1].steps = Cap
=============================================================================
