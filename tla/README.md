# Verification of the ActionStream runtime

This directory holds TLA+ specifications of ActionStream (`src/actionstream`), the
TLC configurations that check them and TLAPS proofs of the properties that matter
most.  ActionStream sits between a robot control loop, which needs an action at
every control step, and a slow chunk-predicting policy, which runs in another
thread, process or machine.  What goes wrong there is about time: chunks that
arrive after the episode they were computed for, requests that fail or time out
and are retried, resets that overtake them.  Around the runtime stand the programs
that benchmark it, gate its policies and publish what was measured; what goes wrong
there is about evidence: attempts that are killed, repeated and mixed, files that
are read twice, verdicts about things nobody has seen to the end.

## 1. Inventory

| Part (files) | State it keeps | What makes it hard | What must hold | Modules |
|---|---|---|---|---|
| Inference engine (`inference_engine.py`), queue policy (`action_queue.py`), delivery scheduler (`delivery_scheduler.py`) | lifecycle flags, epoch, mailbox, counters, queue, response heap, two threads | calls and threads interleave at every lock; external calls run outside the locks; joins time out; responses are due out of order | an epoch owns its data; one policy owner; failures stay in their episode; commits move forward | `ActionStreamEngine`, `EpisodeActions`, `EngineProofs` |
| TCP client (`rpc_client.py`), RPC server (`rpc_executor.py`, `rpc_server_runtime.py`) | sockets, generation, reset gate; job queue, executor, handlers | deadlines abandon requests the server still computes; resets overtake each other; queued jobs outlive their connection | no inference without a confirmed reset; no exchanged answers | `RpcWire`, `TcpClient`, `RpcServer`, `RpcSystem`, `RemotePolicy`, `RpcProofs` |
| Framing and codec (`rpc_protocol.py`) | bytes on the way | streams cut anywhere, deadlines, ends | frames whole and in order; values come back | `Framing`, `FrameChannel`, `WireCodec` |
| Process and direct transports (`inference_transport.py`) | child, pipe, cancel event, generation, samples | late entry after a reset; deadline, startup and kill race; sends and receipts block | no child outlives its epoch; answers are paired | `ProcessTransport`, `IsolatedProvider`, `DirectTransport`, `TransportProofs` |
| Legacy runtime and loops (`runtime.py`, `benchmark.py`) | one-slot mailbox, result deque, generation, trace | late results and errors of earlier episodes; the drain at the end | results belong to the episode; rows are true | `LatestRequestWorker`, `AsyncBenchmark`, `TraceAudit`, `SyncEpisode`, `LegacyProofs` |
| Remote client (`libero_rpc_client.py`), robot writer (`demo_lifecycle_revision.py`) | step, receipt; packet | polls between publications; check before write | nothing stale is executed or written | `RemoteEpisode`, `Dispatcher`, `EngineProofs` |
| Language execution (`llm_vla/contracts.py`, `integration.py`, `native_adapter.py`) | status, revision, budgets, chunk, two logs | several stop conditions meet in one control | budgets are paid; only a fresh verdict completes | `Execution`, `CompletionProofs` |
| Text authorization (`llm_vla/grounding.py`, `coverage.py`) | permit | request and contract change afterwards | only an unambiguous text in force is executed | `Authorization` |
| Gates and native runs (`llm_vla/gate_runner.py`, `repair_runner.py`, `scoring.py`, `native_runner.py`) | receipts and scores in a directory | processes race and die | nothing asked twice; runs stand on passed gates | `GateRuns`, `CompletionProofs` |
| GPU supervisors (`run_llm_vla.py`, `run_native_baseline.py`) | ledger, lock, child | signals and kills between any two steps | one child per phase, within the budget | `GpuLedger` |
| Visual research (`llm_vla/research_runner.py`, `visual_evidence.py`, `visual_replay.py`, `research_scoring.py`) | cases, history of a stream | timeouts, counterfactuals, a replay with its own code | what is called complete survives; replay agrees | `VisualResearch` |
| Completion evidence (`completion_v2.py`, `completion_controls.py`, `completion_adapt.py`, `completion_acceptance.py`) | directories, locks, manifests | stages in any order, killed and edited between | held-out layouts are new; locks hold | `EvidenceChain`, `EvidenceProofs` |
| Confirmation and stopping (`llm_vla/confirmation.py`, `completion_labels.py`, `completion_acceptance.py`) | window, claim | gaps, delays, live against recorded | claims are continuous; live and recorded stops agree | `Confirmation`, `CompletionProofs`, `StopEpisode` |
| Training and its data (`completion_v2.py`, `completion_adapt.py`, `train_visual_completion.py`, `evaluate_visual_completion.py`) | best epoch, files, shards, manifest | ties, kills between files, two splits | the frozen one is the best; held out stays held out | `ModelSelection`, `VisualData`, `CompletionProofs` |
| Native baseline (`native_baseline.py`) | receipt, stages, episodes | SIGTERM as an exception anywhere | receipts are true and miss only what was cut off while it was being listed | `NativeRun`, `CompletionProofs` |
| Matrix, parity and reports (`benchmark.py`, `results.py`, `m4_analysis.py`) | episode files, traces, manifests | several attempts; files read twice | what is published is one sample | `EpisodeFiles`, `MatrixReport`, `ParityGate` |
| Queue pressure (`m4_calibration.py`, `m4_report.py`) | plan, runs, selection | artifacts made again one by one; roundings | the accepted delay was decided by its plan | `M4Evidence`, `LegacyProofs` |
| Backends, processors, telemetry, plugin, RPC matrix | - | I/O and numerics | - | not modelled, section 10 |

The control loop calls the engine (`notify_observation`, `get_action`), the engine's
worker calls a transport (direct, process or TCP), the TCP client talks to the RPC
server, whose executor is the only thread that touches the remote policy.  The
engine's components share `_condition` (then `_queue_lock`, then the task lock);
`_lifecycle_lock` serializes start, stop and reset, and no worker ever takes it.  The
programs of the lower half share nothing but files and the GPU.

`PROJECT.json` maps each definition to the lines it models and lists the hazards, each
at its line, with the properties that watch it.  Definitions whose comment starts with
*Slip* are deliberate mistakes: they are no part of the specification, each is a
plausible bug of a definition after it, used to show that a property would catch it.

## 2. The engine: `ActionStreamEngine`

One module models `inference_engine.py` together with the two helper modules that
run under its lock.  An action is one critical section of `_condition`, or one call
made outside every lock; between two actions anything may happen.

* **Lifecycle calls** hold `_lifecycle_lock`, so at most one is in progress; `life`
  says where it is.  `stop` is StopBegin, StopCancel, StopJoin, StopClose,
  StopRelease and OpenGate (its `finally`), `reset` is ResetBegin, ResetTransport,
  OpenGate; a transport call may raise at each point.
* **The worker** (`wpc`) is admitted with an observation (Admit), may reset the
  provider (ResetProvider, CommitProviderReset), enters the transport, gets an
  answer, an error or a `BaseException` (TransportReturns), and then completes and
  commits or schedules its chunk, or records the failure and retries.
* **The delivery thread** (`dpc`) pops, merges and reports responses in separate
  steps.  Ready times are real numbers drawn by a provider, so any response on the
  heap may be the next one.
* **Short calls** (Pause, Resume, SetTask, NotifyObservation, GetAction) are one
  critical section each and may come from any thread.

Observations and actions are reduced to identities: epoch, source step, request
ordinal, task revision and the index in the chunk.  `fatal`, `shutdown` and
`resetting` are the code's flags; `provider` is a history variable that remembers the
epoch in which the policy was last reset completely (`NeverReset` after a failed
reset, which may have reset only some of its three parts).

`EpisodeActions` is the abstract contract (`docs/lifecycle_contract.md`): an episode, a
gate, a plan that may be replaced by newer actions of the same episode, taken from,
or its last action repeated a bounded number of times.  `ImplementsContract` maps
epoch, queue, last action and hold counter to it.

What is checked of it:

* `InductiveInv` contains what is proved: whatever finishes late, nothing of an earlier
  episode is in the mailbox, the queue, the held action or the heap (`EpochOwnership`);
  nothing can be handed out from the first moment of a reset or a stop
  (`TeardownHoldsNoActions`); no inference on a policy that was reset half-way or for an
  earlier episode (`InferOnlyAfterReset`); never two policy owners, not even after a stop
  whose join timed out (`SingleOwner`).
* `Accounting`: started = completed + failed + in hand, every completed inference is
  scheduled, delivered, refused or on its way, failures are the running episode's own, and
  a retry never duplicates an answer.
* `CommitsAreNewer`, `StaleOnlyAsFallback`, `FatalIsOwn`: every commit is newer (observation,
  ordinal, task revision) than all that was queued or dispatched; an expired action is
  only executed when the robot has nothing else to do; an obsolete request never makes the
  running episode fatal.
* `EngineEnds`: the only observation before the first action is not lost with its failed
  request; shutdown and fatal end both threads.

## 3. The remote policy: `RpcSystem`

`TcpClient` (rpc_client.py) and `RpcServer` (rpc_executor.py, rpc_server_runtime.py) extend
`RpcWire`, which holds what they share: the two ends of each connection and the frames under
way.  `RpcSystem` composes them by interleaving; each side leaves the other's variables alone.

* **Client threads** (`pc`, `call`) go through one state machine for `infer` and `reset`:
  begin, wait for `_request_lock`, ensure or open a connection, publish it, send, receive, validate,
  and then commit (infer) or release the lock and confirm (reset).  Every step outside
  `_state_lock` is an action, so a cancel, a close, a deadline or another reset may come
  between any two.  `Raise` records which exception is on its way; `FailInfer` and `FailReset`
  are the handlers, with what each closes and invalidates.  `wanted` counts the resets asked for
  and numbers the episodes.
* **Server threads**: the acceptor (`accepting`), a handler per connection (`hpc`), the
  executor and `close()`.  `Obsolete` is the test that the executor makes before and after a job.
  `policy` is the state of the worker: the episode of its last reset, and whether that reset ended.
* **Episodes in frames** (`ep`) are history: no code reads them, they say what a call relies on.

`RemotePolicy` is the abstract promise: resets run in the order they were asked for, inference is only
opened on a policy completely reset for the episode wanted, and an inference runs on the policy of
its own episode.  `ImplementsRemotePolicy` maps `reset_required`, the worker state and the
executor's job to it.  `PolicyOfEpisode` and `ConfirmedReset` say whose state an inference runs
on, `AnswersAreCurrent` and `RepliesPaired` whose answer a call gets, `ConnectionsAreCutOff` which
connection may still be used after an invalidation, `QuietAfterClose` and `ServerEnds` how the
server ends.

`RpcWire` hands over whole frames.  `Framing` shows that it may: byte by byte, with partial sends and
reads, deadlines on the client's side and ends of the stream, it implements `FrameChannel`, a FIFO
of messages that may break and then delivers nothing more (`FramesArrive`).  `WireCodec` is the
recursive encoding of payloads, checked on every nesting of up to two levels (`RoundTrips`).

**A disagreement** (`rpc_delayed`).  `docs/rpc-runtime-hardening.md:58` promises "old inference
completion, worker reset, ACK, new episode inference".  The executor decides whether a job is old by
looking at the job's connection.  `rpc_reset` shows that this is enough when the end of an
abandoned connection arrives before anything sent later (`ClosePrompt`), as on loopback.
`rpc_delayed` drops that assumption, because TCP orders one connection, not two: the old
frame is read, queued and found current after the new episode's reset was acknowledged, and
the old inference changes the fresh state.  A frame that carried the client's generation would
let the executor refuse it.

## 4. Side by side: the composite modules

The remaining parts share no state with each other.  Four modules put them side by side, each with a
constant choice `part` in its initial state: the variables of the part named move by that part's own
`Next`, the others stay where they start.  The reachable states of a part in the composite are
those of the part alone, since no part reads another's variables; a property speaks of its part under
`part = ...`, and the fairness of `MCProgress` is that of each module, likewise guarded.  A part that
occurs with two instances of constants occurs under two names.

### `MCRuntime`

* `ProcessTransport` (`Isolated`, `Plain`): admission and start of a child, the exchange over the
  pipe, the poll with its deadline, cancel event and end of the pipe, and the child's own steps; `reset`,
  `cancel` and `close` come from other threads.  Under the engine (`Engine = TRUE`) no call is admitted
  until a teardown has returned, and the transport implements `IsolatedProvider`: at most one provider, of
  one epoch from start to end, none when a teardown has ended.  Plain callers come at any time.
  A send may block on a full pipe, before the deadline of the request is set, and the receipt of an answer may
  block once the answer has begun to arrive.  `docs/lifecycle_contract.md:89-90` says that no deadline covers these;
  a teardown by another thread ends both, because it kills the child.  `RequestsEnd` therefore says two things: a
  request ends unless it stays in such a block for ever, and a reset, cancel or close always ends the block.
* `DirectTransport`: calls that a reset overtakes do not leave their latency behind.
* `LatestRequestWorker`, `AsyncBenchmark` and `TraceAudit` (`Legacy`; `Abandoned` without the trace):
  one-slot mailbox, inference thread, result deque, the control loop in its four modes, missed ticks aside,
  and the trace with the checks that `m4_report.py` makes of it.  Every check of the report is a claim about
  the loop, and the loop meets all but one (`HoldsPass`, see below).  `Abandons` lets the caller go on after an exception, as the API allows.  `DueCount` is how many
  results a poll drains, and `QueueAfter` the queue after merging them one by one: the last one accepted
  replaces whatever was queued before it.
* `SyncEpisode` (`Legacy!Baseline`): the blocking loop with its clock, and the ticks it skips.
* `M4Evidence` (`Legacy!Study`, of delays and of plans): plan, calibration, selection, pressure and the report.
* `RemoteEpisode` (`Remote`) is `run_episode` over the whole engine; `Dispatcher` (`Robot`) a writer that checks
  `is_action_current` under a lock it shares with the operator, over the whole engine.

**A disagreement** (`hold_requests`).  In `sync_hold` the report wants every hold to begin with a request, and knows
requests by their inference events (`m4_report.py:558-571`, `HoldsPass`).  The loop asks at the moment the hold
begins, but if the worker thread does not take the request out of the mailbox before the episode ends,
`cancel_pending` (`benchmark.py:522`) drops it, no event tells of it, and the report refuses the matrix for "a hold
without an exhaustion request".  It takes a worker that is not scheduled for the rest of the last control step.
`RowsAreTrue` says what is true in spite of it (`HoldsAskedFor`): every hold began with a request, and the one
without an event is the last of its episode, cancelled by its end.

### `MCLanguage`

* `Authorization` (`Request`): proposal, quotes, coverage by the grammar, permit, execution, with edits of
  text and contract in between.
* `GpuLedger` (`Repair`, `Native`): supervisors with signals, kills, timeouts and charges.
* `VisualResearch` (`Vision`, `Text`, `History`): the runner, its replay and the score.

**A disagreement** (`gpu_overlap`).  `run_llm_vla.py:1` and `:114` promise one owned child and no overlapping
phases.  The supervisor learns of its child when `Popen` has returned; a signal handled between the fork and
the assignment (line 178) leaves it running and unknown, the row is settled, and the next phase starts
beside it.  `LedgerHolds` is what is true in spite of this: every child a supervisor *knows of* stands on the
ledger until it has ended.

### `MCCompletion`

* `EvidenceChain` (`Develop`, `Accept`): the once-only stages with their locks, seeds and manifests.
* `Confirmation` (`Claims`): the incremental window against its meaning over the whole history.
* `ModelSelection` (`Trained`, three trainers): epochs, ties, files written one after another.
* `VisualData` (`Data`): preparations, shards, manifests, training and held-out evaluation.
* `GateRuns` (`Gate`): runners, scorers and native runs of the language VLA as processes over one directory.
* `NativeRun` (`Baseline`): a run of the native baseline that an exception or a signal may end anywhere, its
  handlers and `finally` clauses included.  `struck` remembers where the signal hit.  `NothingIsLost` bounds what a
  final receipt may miss: only the episode under way, and only if the run was killed or the signal hit
  the `finally` of `run_episode` that writes the episode's receipt (`native_baseline.py:540-544`), the `except` of
  `main` that lists it (650-665) or the final write (`Losing`).  At each of these places it is really lost.
* `Execution` (`Run`): the status machine of `contracts.py`, the controller of `integration.py`, the journal
  of the native port and the independent score of the two logs; every external call may raise.

### `MCReports`

* `EpisodeFiles` with `MatrixReport` (`Mixed`, `Matrix`) and `ParityGate` (`Parity`): attempts that are killed,
  continued or repeated, and readers that read the files twice.
* `StopEpisode` (`Stop`): the live episode, the stop recomputed from the recording, the stopped arm, primed
  oracles and labels.

### `MCProgress`

The liveness of `RpcSystem`, `ProcessTransport`, `Framing`, `AsyncBenchmark`, `RemoteEpisode` and `GpuLedger`;
and, beside `Framing`, the payloads of its frames (`WireCodec`).

## 5. Runs

| Run | Instance | Question |
|---|---|---|
| `engine_direct` | no scheduler, chunks of 1 or 2 actions, hold 1, 2 failures allowed, epochs 0..2, steps 0..2, 2 task revisions | safety and the contract without the delivery thread |
| `engine_scheduled` | scheduler, chunks of 2, request interval 2, epochs 0..1, steps 0..3, fair threads | the same with a response heap, where two responses may be pending at once; liveness of the engine |
| `rpc_reset` | 1 inferring and 2 resetting threads, 3 connections, 2 resets, 3 generations, prompt closes | whose policy state and whose answer; the abstract promise |
| `rpc_server` | 1 and 1 threads, 3 connections, faults of the profile, failing worker, foreign replies, close of the server | no acknowledgement of a failed reset, no exchanged answers, nothing survives close() |
| `runtime` | process: 1 caller under the engine with 3 epochs and 3 children, 2 plain callers; legacy: 2 episodes of 6 steps, 4 modes, or 3 of 3 abandoned; remote: 2 epochs of 3 steps, chunks of 1 or 3; 2 plans of one control step, and the plans of 40..60 ms with deliveries up to 0.5 s | section 4 |
| `language` | one permit with 2 edits; 2 supervisors and 4 invocations over 3 phases; 2 observations with every reply, 3 with plain ones | section 4 |
| `completion` | 3 to 5 layouts, 2 versions, 2 dead stages; 5 controls with gaps; 3 epochs; 3 demonstrations, 2 seeds; 2 processes over 2 gates; 2 native runs of up to 2 episodes; 5 controls in chunks of 2 | section 4 |
| `reports` | 2 conditions of 2 episodes, 3 attempts or 2 with 2 commits; a baseline and its parity over 3 episodes; live episodes of 7 controls | section 4 |
| `progress` | the smallest instances in which every wait, kill and timeout of a part occurs | liveness of six parts; values come back |
| `rpc_delayed` | as rpc_reset with 1 and 1 threads and late ends of streams | the documented order, violated |
| `hold_requests` | as runtime | the report's check that a hold follows a request, violated |
| `gpu_overlap` | as language | the documented single child, violated |

Bounds.  In the engine, `MaxEpoch` resets or stops, `MaxStep` control steps per episode and
`MaxRevision` task changes are guards of the actions that would exceed them; nothing else
is bounded (ordinals and counters are bounded by the steps and the failure budget).  Two
epochs are enough for work of an episode to meet its successor and three for it to meet
the one after that; three observations give chunks that are fresh, partly and wholly
stale, and two responses to be reordered; a budget of two failures separates the first
from the last.  In the RPC system `MaxConns`, `MaxResets`, `MaxGeneration` and `MaxRequests` stop new
calls and cancels.  Two resets and three connections let an abandoned inference or reset meet the
next one and its successor.  The two resetting threads are interchangeable and `rpc_reset` checks only
safety, so its symmetry is sound.  The other modules name their bounds beside their constants; the common
measure is two of everything that can be mixed up (episodes, children, commits, seeds, processes), and three
where the first may meet the one after next.  `reports` uses the state constraint `SomeoneMayRead`: once the
last reader is done, what the runner of that part still writes is read by nobody.

Deadlock checking is off where a system really stops: calls, invocations, episodes and attempts are bounded,
a server may be closed for good.  The engine may always be started again, so its runs check for deadlock.

## 6. Fairness

* Engine (`FairSpec`): weak fairness of the lifecycle thread, the worker and the delivery thread.  Joins and
  transport calls carry timeouts, a notified thread is scheduled, callbacks are taken to return.  Direct
  inference has an advisory deadline only, so for that transport the policy is assumed to return.  Callers
  are not assumed to do anything.
* RPC: the server's threads run, worker callbacks return and ends of streams arrive; nothing is asked of the
  client, nor of whoever closes the server.
* Process transport: callers and controllers run (weak); a deadline that a poll loop looks at again and again
  passes some time, and a caller that waits for the request lock gets it some time (strong).  Nothing is asked
  of the child: it may hang for ever, also without reading what it is sent or in the middle of an answer, so
  a send that blocks and a receipt that has begun are owed no end: `Receive` is not fair, and `SendReturns` waits
  for the child, which is not.
* Framing: bytes on their way arrive, a receiver reads, and a closed or broken connection ends.  Nobody has
  to send.
* Legacy loop: only the control thread is fair; the inference thread may hang, since every wait of the loop
  has a timeout.
* Remote episode: the client and the policy owner run (weak), the wait for an action times out if it is
  starved again and again (strong).
* GPU supervisor: time passes and the supervisor acts; nothing is asked of its child.

## 7. Proofs

The theorems hold for every value of the constants that the assumption of the module accepts: any
number of threads, connections, children, steps, epochs, layouts or shards.  `PROJECT.json` lists them
with the properties of the runs they state.  An invariant is seldom inductive as it stands; each
inductive invariant below was first checked by TLC on the instance of a run.

### The engine (`EngineProofs`)

`TypeOK`, `InductiveInv`, and with it `EpochOwnership`, `TeardownHoldsNoActions`, `InferOnlyAfterReset`,
`SingleOwner`, `Accounting`, `FatalIsOwn`, `StaleOnlyAsFallback`, `CommitsAreNewer`, and that the engine
implements `EpisodeActions`.  `InductiveInv` adds to the stated invariants what a step needs:

* `GateInv`: a lifecycle call keeps `resetting` set throughout, and an engine that is not
  started holds no action (otherwise start would reopen the gate on an old plan);
* `ThreadInv`: no thread holds a request of a future epoch; the transport is only closed when both
  threads are dead; the route of a response follows from the configuration;
* `ProviderInv`: the pending flag is cleared only by a reset of the running epoch;
* `OrderInv`: everything committed, the answers on their way, the attempt being made and the
  observation waiting are ordered by source step, ordinal and revision.  `CommitsAreNewer` is
  not provable without it: a commit is newer because its attempt was admitted from a mailbox
  newer than every answer still on its way;
* `AccountInv`: the counters of the episode add up with the one request or response that each thread may
  have in hand and with the heap, whose responses answer different observations (`AnswersDiffer`).  While a
  lifecycle call runs, and after a stop, all the threads hold is of an earlier epoch (`ThreadsOutrun`), which
  is why a late thread cannot count into the next episode, nor make it fatal;
* `StarvedInv`: the robot is starved only with nothing queued and nothing to hold, so the fallback that
  wakes it up replaces nothing.

### The clients of the engine (`EngineProofs`, last part)

Both run the whole engine, so their proofs use `InductiveInv`.

* `WrittenIsCurrent` (`Dispatcher`): `DispatchInv` ties the two program counters to the shared lock; a packet
  found current stays current until it is written, because the operator, who alone resets or stops, waits for
  the same lock.  The engine's threads never invalidate a packet.
* `LagAtMostOne` and `OwnInstruction` (`RemoteEpisode`): `LoopInv` says which epoch and revision a place in
  the loop implies; `InstructedInv` that all there is in a control step was computed for the instruction, which
  follows from `OrderInv` at the moment of publication (nothing was observed, so nothing is held); `OneChunk` that
  the queue is one chunk in order; `LagInv` that its head is never planned for a later step and at most one behind.
* `ReceiptIsFinal`: the receipt is written after the shutdown, and shutdown is final.

### The remote policy (`RpcProofs`)

`RpcInv`, and with it `ConnectionsAreCutOff`, `AnswersAreCurrent`, `RepliesPaired`, `QuietAfterClose`,
`ConfirmedReset`, `PolicyOfEpisode` and the refinement of `RemotePolicy`:

* `LockInv`, `GenerationInv`: one owner of the request lock; one reset of the current generation, and of the
  episode asked for last;
* `ConnectionInv`, `NoStrayConnection`: a thread that talks does so on the published connection of its generation,
  or on a closed one;
* `AcceptInv`, `JobInv`, `CloseInv`: a handler's request is one job until its answer is there; once `close()` has
  begun no handler starts, and the sentinel is the last job;
* `FrameInv`: request, job, answer and reply of an open connection are those of the call that owns it; the
  only other thing that may arrive is a foreign frame, which no call accepts;
* `EofInv`, `PolicyInv`: an acknowledgement on its way, or confirmed, is that of the wanted episode, and the
  policy is in that state; a reset that has not run finds it in an older one.

`ConfirmedReset`, `PolicyOfEpisode` and the refinement have the hypothesis `ClosePrompt`: the end of an abandoned
connection reaches the server before anything sent later.  It is not for convenience; without it they are false
(section 3, `rpc_delayed`).  The other theorems need nothing.  Proving `LockInv` corrected the model: a reset that
times out waiting for the request lock, or loses its generation after the exchange, does not touch the lock it
does not hold.

### The process transport (`TransportProofs`)

`TransportInv` by its parts: `LockInv`; `ChildInv` (a child runs only as `_process`, with its end of the pipe open);
`PipeInv` (the traffic of a pipe is bounded by the requests made); `PhaseInv` (a teardown is one at a time and a call
of the running epoch is never signalled); `ExchangeInv` (a call that may send finds its child idle and the pipe
drained, and what it finds when it leaves again).  `OneChild` and `SamplesAfterReset` hold
whoever calls; `NoObsoleteChild`, `ChildOfEpoch`, the pairing of answers and the refinement of `IsolatedProvider`
are about the transport under the engine, whose discipline is a guard of the model (`Engine`) and not an assumption
on its behaviour: it is what section 2 shows of `reset` and `stop`.

### The legacy loop (`LegacyProofs`)

* *The loop* (`LegacyEpisodes`).  `LegacyInv`: what the loop has left behind follows from where it is (`Phased`); no
  inference outlives its episode unless the caller goes on after an exception (`NothingOutlives`); results, queue and
  held action are the episode's own (`Own`); requests pass from the mailbox through the inference to the list in
  their order (`InOrder`, `PlansMoveForward`, `NotAhead`) and every one is counted somewhere (`Accounted`); an aligned
  queue holds, without a gap, the actions of the steps ahead (`Aligned`), so that there is one safe to execute
  whenever the loop goes on (`Safe`, `Held`).
* *Its record* (`RowsAreTrue`).  `AuditInv` relates the lists that different places of the code write: an event to
  the request it answers (`AskedFor`), to its merge and to the step of it (`Matched`), the lists to the place in the
  loop (`Reached`), the counters to the lists (`Counted`), each row to the row before it (`Traced`), and for
  `sync_hold` that it asks with an empty queue (`StopAndWait`) and that a hold begins with a request
  (`HoldsBegin`) which is in the mailbox, under way, or told by an event (`Somewhere`, `NoneLost`).  All
  checks of the report but `HoldsPass` follow; in its place stands `HoldsAskedFor`.  The theorem assumes that an episode has a step and
  that the caller ends with an exception: after an abandoned episode an answer of it may be discarded in the
  next, and the report refuses the discarded.  `run()` lets every exception out.
* *The baseline* (`PacingInv`): what is left of a chunk is meant for the next steps and was observed when a whole number
  of chunks was used up (`Left`); the next tick is a period after the last one given (`NextTick`); an action is
  dispatched less than a period and the jitter after its tick (`Started`).
* *The study of its delays* (`DelayIsDecided`).  `StudyInv`: plans are only added, the runs of a delay are made
  once and stay, a selection is what the runs it names decide, and there is pressure only at a delay that was measured.
  A plan's delays are multiples of 50 ms within 25 ms of their targets, because the rounding is monotone.
  `M4Assumption` takes control steps and the headroom to be positive, as the code's own checks require.

### Completion and the language VLA (`CompletionProofs`, `EvidenceProofs`)

* `Confirmation`: a claim is exactly the first end of an unbroken window.  The window must be remembered as
  *maximal* (`IntervalIsMaximal`), or the next claim after a doubt cannot be dated.
* `EvidenceChain`: `ChainInv` adds to the stated invariants that a stage past its inputs stands on finished
  inputs (`InputsInv`; finished stays finished), that layouts are only collected on finished inputs (`CollectedInv`),
  hence cannot be taken by a stage that read its inputs earlier, and that no stage of the acceptance exists before the
  freeze (`FrozenInv`).
* `VisualData`: a manifest is written once, because a preparation runs only where there is none (`PreparerInv`).  So the
  two readings of one training are one manifest (`TrainerInv`), a checkpoint names what it was trained by
  (`CheckpointInv`), and the evaluation, which compares the two frozen hashes, works from that manifest (`EvaluationInv`);
  what it holds out the training did not see, since a seed's splits share no episode.
* `ModelSelection`: the comparison of keys is a strict, transitive and total order.  The epoch in memory is the
  first of the best compared so far (`BestInv`), its scores are those of its own network (`NetworkInv`), and the files
  are those of the memory except while they are written (`FilesInv`).  `SelectionAssumption` asks for keys of one length
  and finitely many episodes: a trainer builds each key as one tuple of numbers.
* `GateRuns`: a phase has one process that writes its receipt (`OneWriter`), since `mkdir` fails for a second one; the receipt
  it holds in memory agrees with the file, place by place (`ProcessesInv`, `DiskInv`); each case was asked once for its row
  (`CallsInv`).  A sealed receipt has no writer and is final; a PASS names a completed one, so it names a final one
  (`ScoresInv`); and native runs, which read two of them, keep having read them (`GateLogsInv`).
  `GateAssumption` says that `native` is no gate and that cases and thresholds are what the protocol freezes.
* `NativeRun`: the runs and episodes to come have left nothing (`FutureInv`).  What an episode has counted, what it has
  told and what its world did differ by at most the step it is in (`EpisodeInv`); its receipt is written once
  (`EpisodeFilesInv`) and the lists are the receipts from 1 on (`ListsInv`).  A completed run has them all
  (`CompletionInv`).  At most one episode that was played is beyond the list on disk (`NoneBeyond`); unless a signal hit
  the handling itself, that one has its receipt when the error comes to be handled, and none is beyond the list
  once it is handled (`RescueInv`).
* `Execution`: the place in the loop implies the status (`StatusInv`), there is one recovery (`RecoveryInv`), and what was
  made was paid for, exactly unless the run ended in an error (`PaidInv`).  No multiple of the interval was passed without
  a verdict (`IntervalInv`: the code tests divisibility, the property speaks of distance).  The journal counts the
  controls (`JournalInv`) and every verdict is of a state in it (`IdentityInv`: an interruption gives the state another
  identity, of which there is exactly one refresh, because identities only grow).  What remains of a chunk was made
  after the last verdict and the last refresh (`PlanInv`), and the loop goes on only after "incomplete"
  (`VerdictInv`).

### The composite modules

`MCRuntime` and `MCCompletion` carry the theorems over to the properties of their runs (`TransportsAreCurrent`,
`ImplementsProvider`, `ClientsAreCurrent`, `LegacyEpisodes`, `RowsAreTrue`, `DelayIsDecided`; `EvidenceIsSound`,
`ClaimsAreContinuous`, `HeldOutStaysHeldOut`, `FrozenIsTheBest`, `GatesHold`, `ReceiptsAreTrue`, `RunsAreHonest`): the
assumptions follow from the module's own `ASSUME`, a step of the composite is a step of the part named or leaves the part
alone, and the lemmas of the part do the rest.

### Only model-checked

* Liveness and everything under fairness (`EngineEnds`, `ServerEnds`, `RequestsEnd`, `FramesArrive`, `LoopsEnd`,
  `InvocationEnds`), which the prover does not reach.
* `RoundTrips`: a recursion over the nesting of a value.
* `ExecutedIsAuthorized` and `ResearchHolds`: what a text means and what a history shows are recursions over them.
* `LedgerHolds`: the budget is a sum over the rows of the ledger, whose behaviour under a step is an induction over
  data.
* `LiveAgreesWithRecording`: the stop recomputed from the recording is a recursive scan, compared with an incremental one.
* `PublishedIsOneSample`: the order of a matrix and the tables made of its files are folds over sets.  A later proof
  about the files alone would not need them.

## 8. Findings and observations

The three runs that end in a violation are described in sections 3 and 4.  While the modules were written, the
following was noticed in the code; no run depends on it.

Runtime
* `ProcessTransport`: a cancel that a plain `infer()` sees before it takes the state lock leaves the child
  with an unread answer until the next reset; each later call fails on the id.  The engine's teardown does not.
  A reset during a poll may reach the caller as a transport or value error.  A child that cannot read or rebuild its
  request says `("fatal", None)`; its caller reports a mismatched id rather than the child's error.
* `LatestRequestWorker`: a late failure of an abandoned episode sets the error that the next one raises.
  `run()` never abandons an episode.
* `RemoteEpisode`: a minimum request interval longer than chunk and hold together starves the loop into its
  timeout.
* `WireCodec`: a 0-d array comes back with one dimension, a bytearray as bytes, a numpy scalar plain; an empty
  tensor cannot be decoded; a mapping that has a tag as its key is mistaken for what the tag means.

Language and research
* `visual_replay.py` parses evidence without a `try`: on a malformed proposal the replay fails where the
  runner goes on.
* `visual_evidence.py`: an unknown between complete and incomplete hides the contradiction, and after a
  contradiction a second incomplete is accepted.
* A score of a receipt that is still being written is a FAIL for good.

Completion
* The stop probe and the challenges prime ten controls, while the window is a value of the protocol.
* Two preparers with different seeds in one directory, beside a training that reads the manifest for its data and
  hashes it once more, could record a manifest that was not trained on; the model has one preparer at a time.

Reports
* `results.py:747` writes "All six conditions reached 30/30 success" into every report, while
  `validate_m3_matrix` never counts successes.
* `m4_calibration.py:228` decides "include 300 ms" by a distance and the candidates by a rounding: with control
  steps above 50 ms the plan can say that it includes 300 ms while none of its candidates is, and with steps of
  40 ms 300 can be a candidate though it says it does not.  Pressure rows do not hash the selection.
* The official gate's thresholds (20 of 30, 6 of 10) are never reached: an earlier check asks for all.
* A trace carries no run id: an accepted row may have the trace of a later, stopped attempt of equal length.
  `git rev-parse` names a commit even when the tree is dirty.
* `m4_analysis.py:491` refuses traces that name the place of a replacement, and `benchmark.py:433` writes that name into
  every merge: what the present benchmark records can no longer be analysed, only what an earlier commit recorded.
* `native_baseline.py`: a SIGTERM inside `backend.close()` is swallowed and the receipt says COMPLETED.

## 9. Reading order

`EpisodeActions`, `ActionStreamEngine` with its two configurations, `RemoteEpisode`, `Dispatcher`,
`EngineProofs`; then `RemotePolicy`, `RpcWire`, `TcpClient`, `RpcServer`, `RpcSystem`, `MCRpcSystem`, `RpcProofs`;
then `ProcessTransport`, `TransportProofs`, `LatestRequestWorker`, `AsyncBenchmark`, `TraceAudit`, `SyncEpisode`,
`M4Evidence`, `LegacyProofs` and `MCRuntime`; then `Confirmation`, `VisualData`, `GateRuns`, `ModelSelection`,
`NativeRun`, `Execution`, `CompletionProofs`, `EvidenceChain`, `EvidenceProofs` and `MCCompletion`; the others each
stand alone, with `MCLanguage`, `MCReports` and `MCProgress` for their instances.  Next to be proved: that a sample
once published stays one (`EpisodeFiles`), the phases of the ledger apart from their sum, and the status of
a request in `Authorization` apart from what its text means.

## 10. Not modelled

Numerics (tensors, alignment of poses, classifiers, bootstrap intervals), telemetry and report formats, simulator
adapters and GPU work; `PROJECT.json` gives the reason for each.
* Engine: delivery timestamps, latencies, telemetry write errors, the text of failures, the shared global shutdown
  event (only ever set here), and internal failures that the last `except` clause of each thread catches.
* RPC: deadline budgets and request counters, the in-flight flag (only reported), the shared name
  resolution, request ordinals, the close request (which this client never sends) and a restarted server.
* Legacy and baseline: replacement-jump profiles, CUDA counters; missed ticks are counted in units, so the rounding
  of a float division at an exactly due tick is left out.
* Language: prompts and the model worker, the mapping of poses, the cap of vision calls, which equals the frozen
  schedule.  Phases of the native protocol that have no gate may overlap in time; their order is not modelled.
* Completion: the smoke variants of the trainings, `stress_visual_completion.py`, figures.  The pilot's
  `finished.json` names the last epoch and is read by nobody.
* Reports: the statistics and the rendering; a report's files are written as one step; one benchmark owns the GPU.
  `rpc_matrix.py` is a command-line loop over profiles.
