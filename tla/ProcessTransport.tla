--------------------------- MODULE ProcessTransport ---------------------------
(***************************************************************************)
(* ProcessInferenceTransport (inference_transport.py): one child process   *)
(* behind a pipe owns the provider; a deadline, a reset or a close kills   *)
(* it and the next request starts another.                                 *)
(*                                                                         *)
(* _request_lock ("lock") serialises requests.  An action is one critical  *)
(* section of _state_lock or one step outside it: reading the cancel       *)
(* event, polling the pipe, asking whether the child is alive.  A kill     *)
(* succeeds within its critical section.  Nothing is clocked: a deadline   *)
(* that is checked may have passed.  Two calls are outside every deadline: *)
(* the send, which blocks while its child does not read what the pipe does *)
(* not hold, and the receipt of an answer that has begun to arrive.        *)
(*                                                                         *)
(* "epoch", "settled" and "phase" stand for the engine (external): every   *)
(* call carries the event of its epoch, an invalidation sets that event    *)
(* before it tears the transport down, and no call is admitted until the   *)
(* teardown has returned.  With Engine = FALSE calls are plain infer() and *)
(* come at any time.                                                       *)
(***************************************************************************)
EXTENDS Integers, Sequences, FiniteSets

CONSTANTS
    Callers,      \* threads that call infer() or infer_cancellable()
    Controllers,  \* threads that call reset(), cancel() and close()
    Engine,       \* the engine's use, see above
    MaxEpochs,    \* bound: invalidations
    MaxChildren,  \* bound: children ever started
    MaxRequests   \* bound: requests ever admitted

TransportAssumption ==
    /\ Callers \intersect Controllers = {} /\ Engine \in BOOLEAN
    /\ "free" \notin Callers
    /\ MaxEpochs \in Nat /\ MaxChildren \in Nat /\ MaxRequests \in Nat

VARIABLES
    lock, cancelEvent, inflight, generation,
    process,      \* _process and _connection, set and cleared together
    startSample,  \* generation whose startup latency is shown
    requestSample,\* generation whose request latency is shown
    child,        \* per child: its state and the epoch that started it
    pipe,         \* per child: parent's end open, messages down and up
    requests,     \* requests admitted so far; numbers their ids
    pc, call,     \* callers
    op,           \* controllers: the call and how far it is
    epoch, settled, phase,
    resetGen      \* history: the generation of the last reset

core == <<inflight, generation, process, child, pipe>>
samples == <<startSample, requestSample, resetGen>>
engine == <<epoch, settled, phase>>
vars == <<lock, cancelEvent, core, samples, requests, pc, call, op, engine>>

Children == 1..MaxChildren
None == 0
NoSample == -1
Free == "free"
Ops == {"reset", "cancel", "close"}
NoOp == [name |-> "none", signalled |-> FALSE]
NoCall == [epoch |-> 0, gen |-> 0, id |-> 0, child |-> None, sent |-> FALSE,
           outcome |-> "none"]

Init ==
    /\ lock = Free /\ cancelEvent = FALSE /\ inflight = FALSE
    /\ generation = 0 /\ process = None
    /\ startSample = NoSample /\ requestSample = NoSample /\ resetGen = 0
    /\ child = [c \in Children |-> [state |-> "unused", born |-> 0]]
    /\ pipe = [c \in Children |-> [open |-> FALSE, down |-> <<>>, up |-> <<>>]]
    /\ requests = 0
    /\ pc = [t \in Callers |-> "idle"] /\ call = [t \in Callers |-> NoCall]
    /\ op = [k \in Controllers |-> NoOp]
    /\ epoch = 1 /\ settled = 1 /\ phase = "running"

Alive(c) == c # None /\ child[c].state \in {"starting", "idle", "busy"}

(* _terminate_locked *)
Terminate ==
    /\ process' = None /\ inflight' = FALSE
    /\ IF process = None
       THEN UNCHANGED <<child, pipe>>
       ELSE /\ child' = [child EXCEPT ![process].state = "dead"]
            /\ pipe' = [pipe EXCEPT ![process].open = FALSE]

EventSet(t) == Engine /\ call[t].epoch < epoch
Cancelled(t) == cancelEvent \/ EventSet(t)

Goto(t, where) == pc' = [pc EXCEPT ![t] = where]

(* The call ends with this outcome once its "finally" has run. *)
Raise(t, why) ==
    /\ Goto(t, "leaving")
    /\ call' = [call EXCEPT ![t].outcome = why]

(* The handler of EOFError, BrokenPipeError and OSError. *)
Broken(t) == Raise(t, IF Cancelled(t) THEN "cancelled" ELSE "broken")

Message(kind, id) == [kind |-> kind, id |-> id]

-----------------------------------------------------------------------------
(* Admission and start of a child *)

Enter(t) ==
    /\ pc[t] = "idle" /\ (Engine => phase = "running")
    /\ requests < MaxRequests
    /\ Goto(t, "queued") /\ call' = [call EXCEPT ![t] = [NoCall EXCEPT !.epoch = epoch]]
    /\ UNCHANGED <<lock, cancelEvent, core, samples, requests, op, engine>>

Admit(t) ==
    /\ pc[t] = "queued" /\ lock = Free
    /\ lock' = t /\ cancelEvent' = FALSE
    /\ Goto(t, "admitted")
    /\ UNCHANGED <<core, samples, requests, call, op, engine>>

MarkInflight(t) ==
    /\ pc[t] = "admitted"
    /\ inflight' = TRUE /\ requests' = requests + 1
    /\ Goto(t, "start")
    /\ call' = [call EXCEPT ![t].gen = generation, ![t].id = requests']
    /\ UNCHANGED <<lock, cancelEvent, generation, process, child, pipe, samples,
                   op, engine>>

RefuseStart(t) ==
    /\ pc[t] = "start" /\ Cancelled(t)
    /\ Raise(t, "cancelled")
    /\ UNCHANGED <<lock, cancelEvent, core, samples, requests, op, engine>>

ReuseChild(t) ==
    /\ pc[t] = "start" /\ ~Cancelled(t) /\ Alive(process)
    /\ call' = [call EXCEPT ![t].child = process]
    /\ Goto(t, "started")
    /\ UNCHANGED <<lock, cancelEvent, core, samples, requests, op, engine>>

(* Slip: the check before the start forgets the event of the call. *)
StartUnlessSignalled(t) ==
    /\ pc[t] = "start" /\ ~cancelEvent /\ ~Alive(process)
    /\ \E c \in Children :
         /\ child[c].state = "unused" /\ \A d \in 1..(c - 1) : child[d].state # "unused"
         /\ process' = c
         /\ child' = [child EXCEPT ![c] = [state |-> "starting", born |-> call[t].epoch]]
         /\ pipe' = [pipe EXCEPT ![c].open = TRUE]
         /\ call' = [call EXCEPT ![t].child = c]
    /\ Goto(t, "waiting")
    /\ UNCHANGED <<lock, cancelEvent, inflight, generation, samples, requests, op, engine>>

StartChild(t) ==
    /\ pc[t] = "start" /\ ~Cancelled(t) /\ ~Alive(process)
    /\ \E c \in Children :
         /\ child[c].state = "unused" /\ \A d \in 1..(c - 1) : child[d].state # "unused"
         /\ process' = c
         /\ child' = [child EXCEPT ![c] = [state |-> "starting", born |-> call[t].epoch]]
         /\ pipe' = [pipe EXCEPT ![c].open = TRUE]
         /\ call' = [call EXCEPT ![t].child = c]
    /\ Goto(t, "waiting")
    /\ UNCHANGED <<lock, cancelEvent, inflight, generation, samples, requests, op, engine>>

TerminateOwn(t) ==
    IF process = call[t].child THEN Terminate
                               ELSE UNCHANGED <<process, inflight, child, pipe>>

StartupTimesOut(t) ==
    /\ pc[t] = "waiting"
    /\ TerminateOwn(t) /\ Raise(t, "broken")
    /\ UNCHANGED <<lock, cancelEvent, generation, samples, requests, op, engine>>

Readable(t) == LET p == pipe[call[t].child] IN p.open /\ p.up # <<>>
AtEnd(t) == LET c == call[t].child
            IN ~pipe[c].open \/ (~Alive(c) /\ pipe[c].up = <<>>)

StartupAnswered(t) ==
    /\ pc[t] = "waiting" /\ Readable(t)
    /\ LET c == call[t].child IN
       IF Head(pipe[c].up).kind = "ready"
       THEN /\ IF cancelEvent THEN Raise(t, "cancelled")
                              ELSE Goto(t, "started") /\ UNCHANGED call
            /\ pipe' = [pipe EXCEPT ![c].up = Tail(@)]
            /\ UNCHANGED <<process, inflight, child>>
       ELSE TerminateOwn(t) /\ Raise(t, "broken")
    /\ UNCHANGED <<lock, cancelEvent, generation, samples, requests, op, engine>>

StartupBroken(t) ==
    /\ pc[t] = "waiting" /\ AtEnd(t)
    /\ Raise(t, IF cancelEvent THEN "cancelled" ELSE "broken")
    /\ UNCHANGED <<lock, cancelEvent, core, samples, requests, op, engine>>

-----------------------------------------------------------------------------
(* The exchange *)

RecordStartup(t) ==
    /\ pc[t] = "started"
    /\ startSample' = IF call[t].gen = generation /\ ~Cancelled(t)
                      THEN call[t].gen ELSE startSample
    /\ Goto(t, "checking")
    /\ UNCHANGED <<lock, cancelEvent, core, requestSample, resetGen, requests, call,
                   op, engine>>

CheckStarted(t) ==
    /\ pc[t] = "checking"
    /\ IF Cancelled(t) THEN Raise(t, "cancelled")
                       ELSE Goto(t, "owning") /\ UNCHANGED call
    /\ UNCHANGED <<lock, cancelEvent, core, samples, requests, op, engine>>

CheckOwned(t) ==
    /\ pc[t] = "owning"
    /\ IF process # call[t].child THEN Raise(t, "cancelled")
                                  ELSE Goto(t, "send") /\ UNCHANGED call
    /\ UNCHANGED <<lock, cancelEvent, core, samples, requests, op, engine>>

(* The observation fits the pipe, or the send blocks until the child reads.   *)
Send(t) ==
    /\ pc[t] = "send"
    /\ LET c == call[t].child IN
       IF ~pipe[c].open \/ ~Alive(c)
       THEN Broken(t) /\ UNCHANGED pipe
       ELSE /\ pipe' = [pipe EXCEPT ![c].down = Append(@, call[t].id)]
            /\ \/ call' = [call EXCEPT ![t].sent = TRUE] /\ Goto(t, "loop")
               \/ Goto(t, "sending") /\ UNCHANGED call
    /\ UNCHANGED <<lock, cancelEvent, inflight, generation, process, child, samples,
                   requests, op, engine>>

(* The child has read it all; one that died may have done so before.          *)
SendReturns(t) ==
    /\ pc[t] = "sending"
    /\ LET c == call[t].child IN child[c].state \in {"busy", "dead"} \/ pipe[c].down = <<>>
    /\ call' = [call EXCEPT ![t].sent = TRUE] /\ Goto(t, "loop")
    /\ UNCHANGED <<lock, cancelEvent, core, samples, requests, op, engine>>

SendBroken(t) ==
    /\ pc[t] = "sending" /\ ~Alive(call[t].child) /\ Broken(t)
    /\ UNCHANGED <<lock, cancelEvent, core, samples, requests, op, engine>>

CheckCancelled(t) ==
    /\ pc[t] = "loop"
    /\ IF Cancelled(t) THEN Raise(t, "cancelled")
                       ELSE Goto(t, "poll") /\ UNCHANGED call
    /\ UNCHANGED <<lock, cancelEvent, core, samples, requests, op, engine>>

(* Slip: the time of each poll is not counted. *)
DeadlineRearmed(t) ==
    /\ FALSE /\ pc[t] = "loop"
    /\ Terminate /\ Raise(t, "deadline")
    /\ UNCHANGED <<lock, cancelEvent, generation, samples, requests, op, engine>>

DeadlinePasses(t) ==
    /\ pc[t] = "loop" /\ ~Cancelled(t)
    /\ Terminate /\ Raise(t, "deadline")
    /\ UNCHANGED <<lock, cancelEvent, generation, samples, requests, op, engine>>

PollAnswered(t) ==
    /\ pc[t] = "poll" /\ Readable(t)
    /\ Goto(t, "receiving")
    /\ UNCHANGED <<lock, cancelEvent, core, samples, requests, call, op, engine>>

(* The rest of the answer arrives and is rebuilt, for as long as that takes.  *)
Receive(t) ==
    /\ pc[t] = "receiving" /\ Readable(t)
    /\ LET c == call[t].child
           m == Head(pipe[c].up)
       IN /\ Raise(t, IF m.id # call[t].id THEN "mismatch" ELSE m.kind)
          /\ pipe' = [pipe EXCEPT ![c].up = Tail(@)]
    /\ UNCHANGED <<lock, cancelEvent, inflight, generation, process, child, samples,
                   requests, op, engine>>

(* The handle is closed, or the child died before its answer was whole.       *)
ReceiveBroken(t) ==
    /\ pc[t] = "receiving" /\ (~pipe[call[t].child].open \/ ~Alive(call[t].child))
    /\ Broken(t)
    /\ UNCHANGED <<lock, cancelEvent, core, samples, requests, op, engine>>

PollBroken(t) ==
    /\ pc[t] = "poll" /\ AtEnd(t) /\ Broken(t)
    /\ UNCHANGED <<lock, cancelEvent, core, samples, requests, op, engine>>

PollEmpty(t) ==
    /\ pc[t] = "poll" /\ ~AtEnd(t) /\ ~Readable(t)
    /\ Goto(t, "alive")
    /\ UNCHANGED <<lock, cancelEvent, core, samples, requests, call, op, engine>>

(* The handle of a child that _terminate_locked has closed raises ValueError, *)
(* which no handler here turns into another exception.                        *)
CheckAlive(t) ==
    /\ pc[t] = "alive"
    /\ LET c == call[t].child IN
       IF Alive(c) THEN Goto(t, "loop") /\ UNCHANGED call
       ELSE \E why \in {"exited"} \union (IF pipe[c].open THEN {} ELSE {"handle"}) :
              Raise(t, why)
    /\ UNCHANGED <<lock, cancelEvent, core, samples, requests, op, engine>>

Leave(t) ==
    /\ pc[t] = "leaving"
    /\ requestSample' = IF call[t].sent /\ call[t].gen = generation /\ ~Cancelled(t)
                        THEN call[t].gen ELSE requestSample
    /\ inflight' = FALSE /\ lock' = Free
    /\ Goto(t, "idle") /\ call' = [call EXCEPT ![t] = NoCall]
    /\ UNCHANGED <<cancelEvent, generation, process, child, pipe, startSample, resetGen,
                   requests, op, engine>>

-----------------------------------------------------------------------------
(* Teardown *)

(* The engine resets while it runs; its stop cancels, joins the worker and    *)
(* closes, and a stop whose join timed out may be tried again.                *)
MayBegin(name) ==
    IF ~Engine THEN TRUE
    ELSE /\ \A k \in Controllers : op[k] = NoOp
         /\ CASE name = "reset"  -> phase = "running"
              [] name = "cancel" -> phase \in {"running", "stopping"}
              [] name = "close"  -> phase = "stopping" /\ \A t \in Callers : pc[t] = "idle"

Begin(k) ==
    /\ op[k] = NoOp
    /\ \E name \in Ops :
         /\ MayBegin(name)
         /\ op' = [op EXCEPT ![k].name = name]
         /\ epoch' = IF name = "close" /\ Engine THEN epoch ELSE epoch + 1
         /\ phase' = CASE name = "reset"  -> "resetting"
                       [] name = "cancel" -> "stopping"
                       [] name = "close"  -> phase
    /\ epoch' <= MaxEpochs
    /\ UNCHANGED <<lock, cancelEvent, core, samples, requests, pc, call, settled>>

Signal(k) ==
    /\ op[k].name \in Ops /\ ~op[k].signalled
    /\ cancelEvent' = TRUE /\ op' = [op EXCEPT ![k].signalled = TRUE]
    /\ UNCHANGED <<lock, core, samples, requests, pc, call, engine>>

(* The teardown has returned, and the engine admits calls again. *)
Settle(k) ==
    /\ op' = [op EXCEPT ![k] = NoOp]
    /\ settled' = epoch /\ phase' = "running"
    /\ UNCHANGED <<lock, cancelEvent, requests, pc, call, epoch>>

Locked(k, name) == op[k].name = name /\ op[k].signalled

Cancel(k) ==
    /\ Locked(k, "cancel")
    /\ IF inflight THEN generation' = generation + 1 /\ Terminate
                   ELSE UNCHANGED core
    /\ op' = [op EXCEPT ![k] = NoOp]
    /\ UNCHANGED <<lock, cancelEvent, samples, requests, pc, call, engine>>

(* Slip: a reset kills the child only when a request is in flight. *)
ResetIfBusy(k) ==
    /\ Locked(k, "reset")
    /\ generation' = generation + 1
    /\ startSample' = NoSample /\ requestSample' = NoSample /\ resetGen' = generation'
    /\ IF inflight THEN Terminate ELSE UNCHANGED <<process, inflight, child, pipe>>
    /\ Settle(k)

Reset(k) ==
    /\ Locked(k, "reset")
    /\ generation' = generation + 1
    /\ startSample' = NoSample /\ requestSample' = NoSample /\ resetGen' = generation'
    /\ Terminate /\ Settle(k)

Close(k) ==
    /\ Locked(k, "close")
    /\ generation' = generation + 1
    /\ Terminate /\ Settle(k)
    /\ UNCHANGED samples

-----------------------------------------------------------------------------
(* The child: _process_transport_main *)

childFrame == <<lock, cancelEvent, inflight, generation, process, samples, requests,
                pc, call, op, engine>>

(* A message of the child, which dies of a pipe that is closed at the other end. *)
Tells(c, m, next) ==
    IF pipe[c].open
    THEN /\ pipe' = [pipe EXCEPT ![c].up = Append(@, m)]
         /\ child' = [child EXCEPT ![c].state = next]
    ELSE child' = [child EXCEPT ![c].state = "dead"] /\ UNCHANGED pipe

ChildStarts(c) ==
    /\ child[c].state = "starting"
    /\ \/ Tells(c, Message("ready", 0), "idle")
       \/ Tells(c, Message("fatal", 0), "dead")
    /\ UNCHANGED childFrame

ChildTakes(c) ==
    /\ child[c].state = "idle"
    /\ IF pipe[c].down # <<>>
       THEN child' = [child EXCEPT ![c].state = "busy"]
       ELSE ~pipe[c].open /\ child' = [child EXCEPT ![c].state = "dead"]
    /\ UNCHANGED <<childFrame, pipe>>

(* It cannot read or rebuild what it was sent: it says so and ends.           *)
ChildFails(c) ==
    /\ child[c].state = "idle" /\ pipe[c].down # <<>>
    /\ child' = [child EXCEPT ![c].state = "dead"]
    /\ IF pipe[c].open
       THEN pipe' = [pipe EXCEPT ![c].up = Append(@, Message("fatal", 0)), ![c].down = Tail(@)]
       ELSE UNCHANGED pipe
    /\ UNCHANGED childFrame

ChildAnswers(c) ==
    /\ child[c].state = "busy"
    /\ IF pipe[c].open
       THEN \E kind \in {"ok", "error"} :
              /\ child' = [child EXCEPT ![c].state = "idle"]
              /\ pipe' = [pipe EXCEPT ![c].up = Append(@, Message(kind, Head(pipe[c].down))),
                                      ![c].down = Tail(@)]
       ELSE child' = [child EXCEPT ![c].state = "dead"] /\ UNCHANGED pipe
    /\ UNCHANGED childFrame

ChildCrashes(c) ==
    /\ Alive(c)
    /\ child' = [child EXCEPT ![c].state = "dead"]
    /\ UNCHANGED <<childFrame, pipe>>

-----------------------------------------------------------------------------
CallerStep(t) ==
    \/ Admit(t) \/ MarkInflight(t)
    \/ RefuseStart(t) \/ ReuseChild(t) \/ StartChild(t)
    \/ StartupTimesOut(t) \/ StartupAnswered(t) \/ StartupBroken(t)
    \/ RecordStartup(t) \/ CheckStarted(t) \/ CheckOwned(t)
    \/ Send(t) \/ SendReturns(t) \/ SendBroken(t)
    \/ CheckCancelled(t) \/ PollAnswered(t) \/ PollBroken(t) \/ PollEmpty(t)
    \/ ReceiveBroken(t) \/ CheckAlive(t) \/ Leave(t)
ControllerStep(k) == Signal(k) \/ Cancel(k) \/ Reset(k) \/ Close(k)
ChildStep(c) ==
    ChildStarts(c) \/ ChildTakes(c) \/ ChildFails(c) \/ ChildAnswers(c) \/ ChildCrashes(c)

Next ==
    \/ \E t \in Callers : Enter(t) \/ CallerStep(t) \/ Receive(t) \/ DeadlinePasses(t)
    \/ \E k \in Controllers : Begin(k) \/ ControllerStep(k)
    \/ \E c \in Children : ChildStep(c)

Spec == Init /\ [][Next]_vars

(* The threads run, the clock reaches every deadline that is checked again    *)
(* and again; a child may hang for ever, in the middle of an answer too, so a *)
(* send that blocks and a receipt that has begun are owed no end.             *)
FairSpec ==
    /\ Spec
    /\ \A t \in Callers : WF_vars(CallerStep(t)) /\ SF_vars(DeadlinePasses(t))
                          /\ SF_vars(Admit(t))
    /\ \A k \in Controllers : WF_vars(ControllerStep(k))

-----------------------------------------------------------------------------
Outside == {"idle", "queued"}
BeforeSend == {"start", "waiting", "started", "checking", "owning", "send"}
Blocked == {"sending", "receiving"}
Exchanging == {"loop", "poll", "alive"} \union Blocked
Places == Outside \union {"admitted"} \union BeforeSend \union Exchanging \union {"leaving"}
Kinds == {"ready", "fatal", "ok", "error"}
Outcomes == Kinds \union {"none", "cancelled", "broken", "deadline", "mismatch", "exited", "handle"}

(* Types of all variables (inference_transport.py:258-268).  Nothing carries  *)
(* a generation or an epoch that is still to come, and no child has more      *)
(* messages in its pipe than requests were made, and its own first.           *)
Types ==
    /\ lock \in Callers \union {Free}
    /\ cancelEvent \in BOOLEAN /\ inflight \in BOOLEAN
    /\ generation \in Nat /\ resetGen \in Nat
    /\ process \in Children \union {None}
    /\ startSample \in Nat \union {NoSample} /\ requestSample \in Nat \union {NoSample}
    /\ child \in [Children -> [state : {"unused", "starting", "idle", "busy", "dead"},
                               born : Nat]]
    /\ pipe \in [Children -> [open : BOOLEAN, down : Seq(Nat), up : Seq([kind : Kinds, id : Nat])]]
    /\ requests \in Nat /\ pc \in [Callers -> Places]
    /\ call \in [Callers -> [epoch : Nat, gen : Nat, id : Nat, child : Children \union {None},
                             sent : BOOLEAN, outcome : Outcomes]]
    /\ op \in [Controllers -> [name : Ops \union {"none"}, signalled : BOOLEAN]]
    /\ epoch \in Nat /\ settled \in Nat
    /\ phase \in {"running", "resetting", "stopping"}
Bounds ==
    /\ startSample <= generation /\ requestSample <= generation /\ resetGen <= generation
    /\ settled <= epoch
    /\ \A c \in Children : child[c].born <= epoch
    /\ \A c \in Children : Len(pipe[c].down) + Len(pipe[c].up) <= requests + 1
    /\ \A t \in Callers : call[t].epoch <= epoch /\ call[t].gen <= generation
TypeOK == Types /\ Bounds

(* At no time do two children run, whoever started, killed or abandoned them: *)
(* the class docstring promises one persistent, restartable child.            *)
OneChild == Cardinality({c \in Children : Alive(c)}) <= 1

(* Once a reset or a close has returned, no child is left or started that an  *)
(* obsolete request asked for, however late it enters (lifecycle_contract.md: *)
(* reset either prevents it from starting a child or terminates that child).  *)
NoObsoleteChild ==
    Engine => \A c \in Children : Alive(c) => child[c].born >= settled

(* A request is only put to a child that was started in its own epoch, so no  *)
(* provider state from before a reset reaches an answer after it.             *)
ChildOfEpoch ==
    Engine => \A t \in Callers :
                call[t].child # None => child[call[t].child].born = call[t].epoch

(* A request finds the pipe drained and the child idle: whatever abandoned    *)
(* the one before has killed its child, so answers never run one behind.  An  *)
(* answer with another id is the last word of a child that is dead.           *)
Synchronised ==
    Engine => \A t \in Callers :
                /\ pc[t] = "send" /\ Alive(process) =>
                     /\ child[process].state = "idle"
                     /\ pipe[process].up = <<>> /\ pipe[process].down = <<>>
                /\ call[t].outcome = "mismatch" => ~Alive(call[t].child)

(* The latency samples shown are of requests begun after the last reset: late *)
(* completions never write old ones back.                                     *)
SamplesAfterReset ==
    /\ startSample # NoSample => startSample >= resetGen
    /\ requestSample # NoSample => requestSample >= resetGen

(* The transport is an isolated provider, seen through the children alive. *)
Provider == INSTANCE IsolatedProvider
              WITH Providers <- Children, running <- {c \in Children : Alive(c)},
                   born <- [c \in Children |-> child[c].born]
ImplementsProvider == Provider!Spec

(* What makes these invariants inductive.                                     *)
(* Only the holder of _request_lock is inside a request.                      *)
LockInv == \A t \in Callers : pc[t] \notin Outside <=> lock = t

(* A child runs only as _process, with its end of the pipe open; one that was *)
(* never started has nothing; nothing else is referred to.                    *)
ChildInv ==
    /\ \A c \in Children :
         /\ Alive(c) => c = process /\ pipe[c].open
         /\ child[c].state = "unused" =>
              child[c].born = 0 /\ pipe[c] = [open |-> FALSE, down |-> <<>>, up |-> <<>>]
         /\ child[c].state = "busy" => pipe[c].down # <<>>
    /\ process # None => child[process].state # "unused"
    /\ \A t \in Callers :
         /\ call[t].child # None => child[call[t].child].state # "unused"
                                    /\ process \in {None, call[t].child}
         /\ pc[t] \in Outside \union {"admitted", "start"} => call[t].child = None
         /\ pc[t] \in (BeforeSend \ {"start"}) \union Exchanging => call[t].child # None

(* How many messages a pipe may still get is bounded by the requests made.    *)
SendsLeft(c) ==
    (IF child[c].state \in {"unused", "starting"} THEN 1 ELSE 0)
    + (IF \E t \in Callers : pc[t] \in BeforeSend THEN 1 ELSE 0)
PipeInv ==
    \A c \in Children :
        Len(pipe[c].down) + Len(pipe[c].up) + SendsLeft(c) <= requests + 1

(* The engine admits no call while a teardown runs, which is one at a time;   *)
(* so a call of the running epoch is never signalled.                         *)
PhaseInv ==
    Engine =>
        /\ phase = "running" => settled = epoch
        /\ phase # "running" => \A t \in Callers : pc[t] # "idle" => call[t].epoch < epoch
        /\ \A k \in Controllers : op[k] # NoOp => phase # "running"
        /\ \A j, k \in Controllers : op[j] # NoOp /\ op[k] # NoOp => j = k
        /\ cancelEvent => \A t \in Callers : pc[t] \notin Outside => call[t].epoch < epoch

(* The child of a request, at each place of the request.                      *)
Drained(c) == child[c].state = "idle" /\ pipe[c].down = <<>> /\ pipe[c].up = <<>>
Starting(c) ==
    /\ pipe[c].down = <<>> /\ child[c].state \in {"starting", "idle", "dead"}
    /\ child[c].state = "starting" => pipe[c].up = <<>>
    /\ child[c].state = "idle" => pipe[c].up = <<Message("ready", 0)>>
Asked(c, id) ==
    \/ pipe[c].down = <<id>> /\ pipe[c].up = <<>> /\ child[c].state # "starting"
    \/ /\ pipe[c].down = <<>> /\ child[c].state \in {"idle", "dead"}
       /\ \E kind \in {"ok", "error"} : pipe[c].up = <<Message(kind, id)>>
    \/ /\ pipe[c].down = <<>> /\ child[c].state = "dead"
       /\ pipe[c].up = <<Message("fatal", 0)>>
Abandoned(t) ==
    \/ ~Alive(call[t].child)
    \/ call[t].outcome \in {"ok", "error"} /\ Drained(call[t].child)
    \/ call[t].outcome = "cancelled" /\ call[t].epoch < epoch
Idle(c) == Alive(c) /\ child[c].born = epoch => Drained(c)
ExchangeInv ==
    Engine =>
        /\ \A t \in Callers :
             LET c == call[t].child IN
             /\ pc[t] = "waiting" => Starting(c)
             /\ pc[t] \in {"started", "checking", "owning", "send"} /\ Alive(c) => Drained(c)
             /\ pc[t] \in Exchanging => Asked(c, call[t].id)
             /\ pc[t] = "leaving" /\ c # None => Abandoned(t)
             /\ call[t].outcome = "mismatch" => pc[t] = "leaving"
        /\ (\A t \in Callers : call[t].child = None) => \A c \in Children : Idle(c)

TransportInv ==
    /\ TypeOK /\ LockInv /\ ChildInv /\ PipeInv /\ PhaseInv /\ ExchangeInv
    /\ NoObsoleteChild /\ ChildOfEpoch /\ SamplesAfterReset

(* Unless a send or a receipt blocks for ever, which no deadline covers,      *)
(* every request ends, also when its child hangs in its work, crashes or is   *)
(* killed by another thread at any point; and a reset, a cancel or a close    *)
(* always gets a request out of a send or a receipt that blocks.              *)
RequestsEnd ==
    /\ (\A t \in Callers : []<>(pc[t] \notin Blocked)) =>
         \A t \in Callers : pc[t] = "queued" ~> pc[t] = "idle"
    /\ \A t \in Callers, k \in Controllers :
         pc[t] \in Blocked /\ op[k].name \in Ops ~> pc[t] \notin Blocked
=============================================================================
