---------------------------- MODULE EpisodeFiles ----------------------------
(* The benchmark runner (src/src/actionstream/benchmark.py) as its readers   *)
(* see it: one directory per condition, holding the JSONL file of episode    *)
(* rows and the traces of the episodes.  `run` refuses an existing file      *)
(* unless it is told to append, runs the tasks it was given in order, and    *)
(* for every episode writes the trace (whose name carries the condition, the *)
(* task and the episode, but no run) and then the row.  It can be stopped    *)
(* between any two writes and inside one; the operator then starts another   *)
(* attempt, over the same directory or not, perhaps with the same run id,    *)
(* perhaps from another commit.                                              *)
(*                                                                           *)
(* One benchmark owns the GPU at a time.  What an episode does inside is the *)
(* subject of AsyncBenchmark, SyncEpisode and RemoteEpisode; here it is an   *)
(* outcome: a success and a number of steps.                                 *)
EXTENDS Integers, Sequences, SequencesExt, FiniteSets

CONSTANTS
    Conditions,    \* the directories: runtime mode and injected delay
    Tasks,         \* task ids, run in the order the operator lists them
    Indexes,       \* episodes of a task, 0 .. episodes_per_task - 1
    Outcomes,      \* [success, steps] an episode may end with
    Orders,        \* the task lists an operator may pass (--task-ids)
    Flags,         \* whether an operator passes the protocol's flags
    OwnIds,        \* whether the operator passes a run id of their own
    MaxAttempts,   \* bound: invocations of the runner
    MaxCommits     \* bound: commits made while the matrix is collected

FilesAssumption ==
    /\ Tasks \subseteq Nat /\ Indexes \subseteq Nat
    /\ \A o \in Outcomes : o.success \in BOOLEAN /\ o.steps \in Nat \ {0}
    /\ \A o \in Orders : o \in Seq(Tasks) \ {<<>>}
    /\ Flags \subseteq BOOLEAN /\ OwnIds \subseteq BOOLEAN
    /\ MaxAttempts \in Nat \ {0} /\ MaxCommits \in Nat

VARIABLES
    head,       \* the commit checked out; 0: git could not name it
    created,    \* the conditions whose JSONL file exists
    file,       \* its rows
    trace,      \* the trace file of a task and episode, or NoTrace
    job,        \* the runner at work, or Idle
    attempts    \* invocations so far

filesVars == <<head, created, file, trace, job, attempts>>

Keys == Tasks \X Indexes
Idle == [condition |-> "none", attempt |-> 0, commit |-> 0, run |-> 0, proper |-> FALSE,
         todo |-> <<>>, stage |-> "none", outcome |-> <<>>]
NoTrace == [attempt |-> 0, commit |-> 0, steps |-> 0, whole |-> FALSE]

(* The episodes of an invocation, in the order of its loops.                 *)
Schedule(order) ==
    FlattenSeq([n \in 1 .. Len(order) |->
        [k \in 1 .. Cardinality(Indexes) |->
            <<order[n], SetToSortSeq(Indexes, <)[k]>>]])

FilesInit ==
    /\ head \in {0, 1}
    /\ created = {}
    /\ file = [c \in Conditions |-> <<>>]
    /\ trace = [c \in Conditions |-> [k \in Keys |-> NoTrace]]
    /\ job = Idle
    /\ attempts = 0

(* The operator commits between, or during, invocations; a runner that is    *)
(* already at work keeps the commit it read when it started.                 *)
Commit ==
    /\ head < MaxCommits
    /\ head' = head + 1
    /\ UNCHANGED <<created, file, trace, job, attempts>>

MayOpen(c, append) == c \notin created \/ append

(* `proper` stands for the flags every row repeats: the seed, the initial    *)
(* states, --realtime, the replan interval and the model revision.  The run  *)
(* id is a fresh one, or the one the operator passes (0).                    *)
Start(c, order, append, proper, ownId) ==
    /\ job = Idle /\ attempts < MaxAttempts
    /\ MayOpen(c, append)
    /\ attempts' = attempts + 1
    /\ created' = created \cup {c}
    /\ job' = [condition |-> c, attempt |-> attempts + 1, commit |-> head,
               run |-> IF ownId THEN 0 ELSE attempts + 1, proper |-> proper,
               todo |-> Schedule(order), stage |-> "episode", outcome |-> <<>>]
    /\ UNCHANGED <<head, file, trace>>

Key == Head(job.todo)
TraceOf(o) == [attempt |-> job.attempt, commit |-> job.commit, steps |-> o.steps,
               whole |-> TRUE]
Row == [key |-> Key, run |-> job.run, commit |-> job.commit, proper |-> job.proper,
        success |-> job.outcome[1].success, steps |-> job.outcome[1].steps,
        attempt |-> job.attempt]

(* Slip: the trace of an earlier attempt is left in place.                   *)
RunEpisodeOnce(o) ==
    /\ job.stage = "episode"
    /\ trace' = IF trace[job.condition][Key].whole THEN trace
                ELSE [trace EXCEPT ![job.condition][Key] = TraceOf(o)]
    /\ job' = [job EXCEPT !.stage = "row", !.outcome = <<o>>]
    /\ UNCHANGED <<head, created, file, attempts>>

(* An episode runs to its end and saves its trace: np.savez_compressed       *)
(* replaces what an earlier attempt left under the same name.                *)
RunEpisode(o) ==
    /\ job.stage = "episode"
    /\ trace' = [trace EXCEPT ![job.condition][Key] = TraceOf(o)]
    /\ job' = [job EXCEPT !.stage = "row", !.outcome = <<o>>]
    /\ UNCHANGED <<head, created, file, attempts>>

WriteRow ==
    /\ job.stage = "row"
    /\ file' = [file EXCEPT ![job.condition] = Append(@, Row)]
    /\ job' = IF Len(job.todo) = 1 THEN Idle
              ELSE [job EXCEPT !.todo = Tail(@), !.stage = "episode", !.outcome = <<>>]
    /\ UNCHANGED <<head, created, trace, attempts>>

(* The process is killed, or an episode raises and `finally` closes the      *)
(* worker and the backend: the rows written so far stay.  Inside the save it *)
(* leaves a file that cannot be read.                                        *)
Stop ==
    /\ job # Idle
    /\ job' = Idle
    /\ \/ UNCHANGED trace
       \/ /\ job.stage = "episode"
          /\ trace' = [trace EXCEPT ![job.condition][Key] =
                           [NoTrace EXCEPT !.attempt = job.attempt]]
    /\ UNCHANGED <<head, created, file, attempts>>

FilesNext ==
    \/ Commit
    \/ \E c \in Conditions, order \in Orders, append \in BOOLEAN,
          proper \in Flags, ownId \in OwnIds :
           Start(c, order, append, proper, ownId)
    \/ \E o \in Outcomes : RunEpisode(o)
    \/ WriteRow
    \/ Stop

(* What every reader checks of a directory's rows (results.py).              *)
KeysOf(rows) == {rows[n].key : n \in 1 .. Len(rows)}
EachKeyOnce(rows) == KeysOf(rows) = Keys /\ Len(rows) = Cardinality(Keys)

OneRun(rows) == Cardinality({rows[n].run : n \in 1 .. Len(rows)}) = 1

OneCommit(rows) ==
    /\ Cardinality({r.commit : r \in rows}) = 1
    /\ \A r \in rows : r.commit # 0

RowOK(r) ==
    /\ r.key \in Keys /\ r.run \in 0 .. MaxAttempts /\ r.commit \in 0 .. MaxCommits
    /\ r.proper \in BOOLEAN /\ r.success \in BOOLEAN /\ r.steps \in Nat
    /\ r.attempt \in 1 .. attempts

FilesTypeOK ==
    /\ created \subseteq Conditions
    /\ head \in 0 .. MaxCommits /\ attempts \in 0 .. MaxAttempts
    /\ \A c \in Conditions : \A n \in 1 .. Len(file[c]) : RowOK(file[c][n])
    /\ \A c \in Conditions, k \in Keys : trace[c][k].attempt \in 0 .. attempts
    /\ job # Idle => /\ job.condition \in Conditions
                     /\ job.stage \in {"episode", "row"}
                     /\ Range(job.todo) \subseteq Keys
=============================================================================
