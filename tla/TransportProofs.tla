--------------------------- MODULE TransportProofs ---------------------------
(***************************************************************************)
(* Proofs about ProcessTransport for any number of calling and controlling *)
(* threads, of children, epochs and requests.                              *)
(***************************************************************************)
EXTENDS ProcessTransport, FiniteSetTheorems, TLAPS

-----------------------------------------------------------------------------
(* Types *)

LEMMA TypesInit == Init => Types
<1> SUFFICES ASSUME Init PROVE Types
  OBVIOUS
<1>1. /\ lock \in Callers \union {Free} /\ process \in Children \union {None}
      /\ cancelEvent \in BOOLEAN /\ inflight \in BOOLEAN
      /\ generation \in Nat /\ resetGen \in Nat /\ requests \in Nat
      /\ startSample \in Nat \union {NoSample}
      /\ requestSample \in Nat \union {NoSample}
      /\ epoch \in Nat /\ settled \in Nat
      /\ phase \in {"running", "resetting", "stopping"}
  BY DEF Init
<1>2. child \in [Children -> [state : {"unused", "starting", "idle", "busy", "dead"},
                              born : Nat]]
  BY DEF Init
<1>3. pipe \in [Children -> [open : BOOLEAN, down : Seq(Nat),
                             up : Seq([kind : Kinds, id : Nat])]]
  <2>1. <<>> \in Seq(Nat) /\ <<>> \in Seq([kind : Kinds, id : Nat])
    OBVIOUS
  <2> QED
    BY <2>1 DEF Init
<1>4. pc \in [Callers -> Places]
  BY DEF Init, Places, Outside
<1>5. call \in [Callers -> [epoch : Nat, gen : Nat, id : Nat,
                            child : Children \union {None},
                            sent : BOOLEAN, outcome : Outcomes]]
  BY DEF Init, NoCall, Outcomes
<1>6. op \in [Controllers -> [name : Ops \union {"none"}, signalled : BOOLEAN]]
  BY SMTT(40) DEF Init, NoOp
<1> QED
  BY <1>1, <1>2, <1>3, <1>4, <1>5, <1>6 DEF Types

(* What each kind of step leaves alone. *)
LEMMA CallerFrame ==
    ASSUME NEW t \in Callers, Enter(t) \/ CallerStep(t) \/ Receive(t) \/ DeadlinePasses(t)
    PROVE  UNCHANGED <<generation, resetGen, op, epoch, settled, phase>>
BY DEF Enter, CallerStep, Admit, MarkInflight, RefuseStart, ReuseChild, StartChild,
     StartupTimesOut, StartupAnswered, StartupBroken, RecordStartup, CheckStarted,
     CheckOwned, Send, SendReturns, SendBroken, CheckCancelled, PollAnswered, PollBroken,
     PollEmpty, Receive, ReceiveBroken, CheckAlive, Leave, DeadlinePasses, core, samples, engine

LEMMA ControllerFrame ==
    ASSUME NEW k \in Controllers, Begin(k) \/ ControllerStep(k)
    PROVE  UNCHANGED <<lock, requests, pc, call>>
BY DEF Begin, ControllerStep, Signal, Cancel, Reset, Close, Settle

LEMMA ChildFrame ==
    ASSUME NEW c \in Children, ChildStep(c)
    PROVE  UNCHANGED <<lock, cancelEvent, inflight, generation, process, startSample,
                       requestSample, resetGen, requests, pc, call, op, epoch, settled,
                       phase>>
BY DEF ChildStep, ChildStarts, ChildTakes, ChildFails, ChildAnswers, ChildCrashes, childFrame,
     samples, engine

CallRecords == [epoch : Nat, gen : Nat, id : Nat, child : Children \union {None},
                sent : BOOLEAN, outcome : Outcomes]
PipeRecords == [open : BOOLEAN, down : Seq(Nat), up : Seq([kind : Kinds, id : Nat])]
ChildRecords == [state : {"unused", "starting", "idle", "busy", "dead"}, born : Nat]

(* The parts of the types that follow, one variable at a time. *)
LEMMA TypesOf ==
    ASSUME Types
    PROVE  /\ pc \in [Callers -> Places] /\ call \in [Callers -> CallRecords]
           /\ child \in [Children -> ChildRecords] /\ pipe \in [Children -> PipeRecords]
           /\ process \in Children \union {None} /\ lock \in Callers \union {Free}
           /\ generation \in Nat /\ requests \in Nat /\ epoch \in Nat /\ settled \in Nat
           /\ resetGen \in Nat /\ cancelEvent \in BOOLEAN /\ inflight \in BOOLEAN
           /\ startSample \in Nat \union {NoSample}
           /\ requestSample \in Nat \union {NoSample}
           /\ op \in [Controllers -> [name : Ops \union {"none"}, signalled : BOOLEAN]]
BY DEF Types, CallRecords, PipeRecords, ChildRecords

(* A call moves only its own place, and sets only its own record. *)
LEMMA Goes ==
    ASSUME Types, NEW t \in Callers, NEW where \in Places, Goto(t, where)
    PROVE  /\ pc' \in [Callers -> Places] /\ pc'[t] = where
           /\ \A u \in Callers : u # t => pc'[u] = pc[u]
BY TypesOf DEF Goto

LEMMA Sets ==
    ASSUME Types, NEW t \in Callers, NEW r \in CallRecords, call' = [call EXCEPT ![t] = r]
    PROVE  /\ call' \in [Callers -> CallRecords] /\ call'[t] = r
           /\ \A u \in Callers : u # t => call'[u] = call[u]
BY TypesOf

(* A call that raises keeps the rest of its record. *)
LEMMA Raises ==
    ASSUME Types, NEW t \in Callers, NEW why \in Outcomes, Raise(t, why)
    PROVE  /\ pc' \in [Callers -> Places] /\ pc'[t] = "leaving"
           /\ \A u \in Callers : u # t => pc'[u] = pc[u] /\ call'[u] = call[u]
           /\ call' \in [Callers -> CallRecords] /\ call'[t].outcome = why
           /\ call'[t].epoch = call[t].epoch /\ call'[t].gen = call[t].gen
           /\ call'[t].id = call[t].id /\ call'[t].child = call[t].child
           /\ call'[t].sent = call[t].sent
<1>1. Goto(t, "leaving") /\ call' = [call EXCEPT ![t].outcome = why]
  BY DEF Raise
<1>2. "leaving" \in Places
  BY DEF Places
<1>3. /\ pc' \in [Callers -> Places] /\ pc'[t] = "leaving"
      /\ \A u \in Callers : u # t => pc'[u] = pc[u]
  BY <1>1, <1>2, Goes
<1> QED
  BY <1>1, <1>3, TypesOf DEF CallRecords

(* What a kill does, to its child alone. *)
LEMMA Kills ==
    ASSUME TransportAssumption, Types, Terminate
    PROVE  /\ process' = None /\ inflight' = FALSE
           /\ child' \in [Children -> ChildRecords] /\ pipe' \in [Children -> PipeRecords]
           /\ \A c \in Children :
                /\ child'[c].born = child[c].born
                /\ child'[c].state = IF c = process THEN "dead" ELSE child[c].state
                /\ pipe'[c].open = (pipe[c].open /\ c # process)
                /\ pipe'[c].down = pipe[c].down /\ pipe'[c].up = pipe[c].up
                /\ c # process => child'[c] = child[c] /\ pipe'[c] = pipe[c]
<1>1. None \notin Children
  BY DEF None, Children
<1>2. CASE process = None
  <2>1. child' = child /\ pipe' = pipe
    BY <1>2 DEF Terminate
  <2> QED
    BY <1>1, <1>2, <2>1, TypesOf DEF Terminate, PipeRecords
<1>3. CASE process # None
  <2>1. /\ process \in Children
        /\ child' = [child EXCEPT ![process].state = "dead"]
        /\ pipe' = [pipe EXCEPT ![process].open = FALSE]
    BY <1>3, TypesOf DEF Terminate
  <2>2. /\ child' \in [Children -> ChildRecords]
        /\ \A c \in Children :
                /\ child'[c].born = child[c].born
                /\ child'[c].state = IF c = process THEN "dead" ELSE child[c].state
                /\ c # process => child'[c] = child[c]
    BY <2>1, TypesOf DEF ChildRecords
  <2>3. /\ pipe' \in [Children -> PipeRecords]
        /\ \A c \in Children :
                /\ pipe'[c].open = (pipe[c].open /\ c # process)
                /\ pipe'[c].down = pipe[c].down /\ pipe'[c].up = pipe[c].up
                /\ c # process => pipe'[c] = pipe[c]
    BY <2>1, TypesOf DEF PipeRecords
  <2> QED
    BY <2>2, <2>3 DEF Terminate
<1> QED
  BY <1>2, <1>3

-----------------------------------------------------------------------------
(* What a step of a caller does to the places, the records, the child and    *)
(* the pipe: the actions of a call, by their effect.                          *)
Others(t) ==
    /\ pc' \in [Callers -> Places] /\ call' \in [Callers -> CallRecords]
    /\ \A u \in Callers : u # t => pc'[u] = pc[u] /\ call'[u] = call[u]
Same == process' = process /\ child' = child /\ pipe' = pipe
Request(t) ==
    /\ call'[t].epoch = call[t].epoch /\ call'[t].gen = call[t].gen
    /\ call'[t].id = call[t].id /\ call'[t].child = call[t].child

Enters(t) ==
    /\ pc[t] = "idle" /\ pc'[t] = "queued" /\ (Engine => phase = "running")
    /\ call'[t] = [NoCall EXCEPT !.epoch = epoch]
    /\ Others(t) /\ Same /\ UNCHANGED <<lock, cancelEvent, requests>>
Admitted(t) ==
    /\ pc[t] = "queued" /\ pc'[t] = "admitted" /\ call'[t] = call[t]
    /\ lock = Free /\ lock' = t /\ cancelEvent' = FALSE
    /\ Others(t) /\ Same /\ UNCHANGED requests
Marks(t) ==
    /\ pc[t] = "admitted" /\ pc'[t] = "start"
    /\ call'[t].epoch = call[t].epoch /\ call'[t].child = call[t].child
    /\ call'[t].gen = generation /\ call'[t].outcome = call[t].outcome
    /\ requests' = requests + 1
    /\ Others(t) /\ Same /\ UNCHANGED <<lock, cancelEvent>>
Reuses(t) ==
    /\ pc[t] = "start" /\ pc'[t] = "started" /\ ~Cancelled(t) /\ Alive(process)
    /\ call'[t].epoch = call[t].epoch /\ call'[t].gen = call[t].gen
    /\ call'[t].id = call[t].id /\ call'[t].outcome = call[t].outcome
    /\ call'[t].child = process
    /\ Others(t) /\ Same /\ UNCHANGED <<lock, cancelEvent, requests>>
Launches(t, c) ==
    /\ pc[t] = "start" /\ pc'[t] = "waiting" /\ ~Cancelled(t) /\ ~Alive(process)
    /\ child[c].state = "unused" /\ process' = c
    /\ child' = [child EXCEPT ![c] = [state |-> "starting", born |-> call[t].epoch]]
    /\ pipe' = [pipe EXCEPT ![c].open = TRUE]
    /\ call'[t].epoch = call[t].epoch /\ call'[t].gen = call[t].gen
    /\ call'[t].id = call[t].id /\ call'[t].outcome = call[t].outcome
    /\ call'[t].child = c
    /\ Others(t) /\ UNCHANGED <<lock, cancelEvent, requests>>
Passes(t) ==
    /\ <<pc[t], pc'[t]>> \in {<<"started", "checking">>, <<"checking", "owning">>,
                              <<"owning", "send">>, <<"sending", "loop">>,
                              <<"loop", "poll">>, <<"poll", "receiving">>,
                              <<"poll", "alive">>, <<"alive", "loop">>}
    /\ Request(t) /\ call'[t].outcome = call[t].outcome
    /\ Others(t) /\ Same /\ UNCHANGED <<lock, cancelEvent, requests>>
Quits(t) ==
    /\ pc[t] \in BeforeSend \union Exchanging /\ pc'[t] = "leaving" /\ Request(t)
    /\ call'[t].outcome \in {"cancelled", "broken", "exited", "handle"}
    /\ \/ pc[t] = "start"
       \/ call'[t].outcome = "cancelled" /\ Cancelled(t)
       \/ ~pipe[call[t].child].open \/ ~Alive(call[t].child) \/ process # call[t].child
    /\ Others(t) /\ Same /\ UNCHANGED <<lock, cancelEvent, requests>>
Aborts(t) ==
    /\ pc[t] \in {"waiting", "loop"} /\ pc'[t] = "leaving" /\ Request(t)
    /\ call'[t].outcome \in {"broken", "deadline"} /\ Terminate
    /\ Others(t) /\ UNCHANGED <<lock, cancelEvent, requests>>
Hears(t) ==
    /\ \/ /\ pc[t] = "waiting" /\ Head(pipe[call[t].child].up).kind = "ready"
          /\ \/ pc'[t] = "started" /\ call'[t].outcome = call[t].outcome
             \/ pc'[t] = "leaving" /\ call'[t].outcome = "cancelled" /\ cancelEvent
       \/ /\ pc[t] = "receiving" /\ pc'[t] = "leaving"
          /\ LET m == Head(pipe[call[t].child].up)
             IN call'[t].outcome = IF m.id # call[t].id THEN "mismatch" ELSE m.kind
    /\ Readable(t) /\ Request(t)
    /\ pipe' = [pipe EXCEPT ![call[t].child].up = Tail(@)]
    /\ Others(t) /\ UNCHANGED <<lock, cancelEvent, requests, process, child>>
Sends(t) ==
    /\ pc[t] = "send" /\ pc'[t] \in {"sending", "loop"} /\ Request(t)
    /\ call'[t].outcome = call[t].outcome /\ Alive(call[t].child)
    /\ pipe' = [pipe EXCEPT ![call[t].child].down = Append(@, call[t].id)]
    /\ Others(t) /\ UNCHANGED <<lock, cancelEvent, requests, process, child>>
Leaves(t) ==
    /\ pc[t] = "leaving" /\ pc'[t] = "idle" /\ call'[t] = NoCall /\ lock' = Free
    /\ Others(t) /\ Same /\ UNCHANGED <<cancelEvent, requests>>

(* A step that raises. *)
LEMMA RaisingIs ==
    ASSUME Types, NEW t \in Callers, NEW why \in Outcomes, Raise(t, why)
    PROVE  pc'[t] = "leaving" /\ call'[t].outcome = why /\ Request(t) /\ Others(t)
BY Raises DEF Request, Others

(* A step that goes on with its record as it is. *)
LEMMA GoingIs ==
    ASSUME Types, NEW t \in Callers, NEW where \in Places, Goto(t, where), UNCHANGED call
    PROVE  pc'[t] = where /\ call'[t] = call[t] /\ Request(t) /\ Others(t)
BY Goes, TypesOf DEF Request, Others

(* A step that goes on and sets its record. *)
LEMMA SettingIs ==
    ASSUME Types, NEW t \in Callers, NEW where \in Places, Goto(t, where),
           NEW r \in CallRecords, call' = [call EXCEPT ![t] = r]
    PROVE  pc'[t] = where /\ call'[t] = r /\ Others(t)
BY Goes, Sets DEF Others

LEMMA EnterIs == ASSUME Types, NEW t \in Callers, Enter(t) PROVE Enters(t)
<1>1. [NoCall EXCEPT !.epoch = epoch] \in CallRecords
  BY TypesOf DEF NoCall, CallRecords, Outcomes
<1>2. "queued" \in Places
  BY DEF Places, Outside
<1>3. Goto(t, "queued") /\ call' = [call EXCEPT ![t] = [NoCall EXCEPT !.epoch = epoch]]
  BY DEF Enter
<1>4. /\ pc'[t] = "queued" /\ call'[t] = [NoCall EXCEPT !.epoch = epoch]
      /\ Others(t)
  BY <1>1, <1>2, <1>3, SettingIs
<1> QED
  BY <1>4 DEF Enter, Enters, Same, core

LEMMA AdmitIs == ASSUME Types, NEW t \in Callers, Admit(t) PROVE Admitted(t)
<1>1. pc'[t] = "admitted" /\ call'[t] = call[t] /\ Others(t)
  BY GoingIs DEF Admit, Places
<1> QED
  BY <1>1 DEF Admit, Admitted, Same, core

LEMMA MarkIs == ASSUME Types, NEW t \in Callers, MarkInflight(t) PROVE Marks(t)
<1> DEFINE r == [call[t] EXCEPT !.gen = generation, !.id = requests + 1]
<1>1. Goto(t, "start") /\ requests' = requests + 1 /\ Same
      /\ UNCHANGED <<lock, cancelEvent>> /\ pc[t] = "admitted"
  BY DEF MarkInflight, Same
<1>2. call' = [call EXCEPT ![t] = r]
  <2>1. call' = [call EXCEPT ![t].gen = generation, ![t].id = requests']
    BY DEF MarkInflight
  <2> QED
    BY <2>1, <1>1, TypesOf DEF CallRecords
<1>3. r \in CallRecords /\ r.epoch = call[t].epoch /\ r.child = call[t].child
      /\ r.gen = generation /\ r.outcome = call[t].outcome
  <2>1. call[t] \in CallRecords /\ generation \in Nat /\ requests + 1 \in Nat
    BY TypesOf
  <2> QED
    BY <2>1 DEF CallRecords
<1>4. pc'[t] = "start" /\ call'[t] = r /\ Others(t)
  BY <1>1, <1>2, <1>3, SettingIs DEF Places, BeforeSend
<1> QED
  BY <1>1, <1>3, <1>4 DEF Marks

LEMMA ReuseIs ==
    ASSUME Types, NEW t \in Callers, ReuseChild(t)
    PROVE  Reuses(t)
<1> DEFINE r == [call[t] EXCEPT !.child = process]
<1>1. /\ Goto(t, "started") /\ Same /\ UNCHANGED <<lock, cancelEvent, requests>>
      /\ pc[t] = "start" /\ ~Cancelled(t) /\ Alive(process)
  BY DEF ReuseChild, Same, core
<1>2. call' = [call EXCEPT ![t] = r]
  BY TypesOf DEF ReuseChild, CallRecords
<1>3. r \in CallRecords /\ r.epoch = call[t].epoch /\ r.gen = call[t].gen
      /\ r.id = call[t].id /\ r.outcome = call[t].outcome /\ r.child = process
  BY TypesOf DEF CallRecords
<1>4. pc'[t] = "started" /\ call'[t] = r /\ Others(t)
  BY <1>1, <1>2, <1>3, SettingIs DEF Places, BeforeSend
<1> QED
  BY <1>1, <1>3, <1>4 DEF Reuses

LEMMA StartIs ==
    ASSUME Types, NEW t \in Callers, StartChild(t)
    PROVE  \E c \in Children : Launches(t, c)
<1>1. PICK c \in Children :
        /\ child[c].state = "unused" /\ process' = c
        /\ child' = [child EXCEPT ![c] = [state |-> "starting", born |-> call[t].epoch]]
        /\ pipe' = [pipe EXCEPT ![c].open = TRUE]
        /\ call' = [call EXCEPT ![t].child = c]
  BY DEF StartChild
<1> DEFINE r == [call[t] EXCEPT !.child = c]
<1>2. /\ Goto(t, "waiting") /\ UNCHANGED <<lock, cancelEvent, requests>>
      /\ pc[t] = "start" /\ ~Cancelled(t) /\ ~Alive(process)
  BY DEF StartChild
<1>3. call' = [call EXCEPT ![t] = r]
  BY <1>1, TypesOf DEF CallRecords
<1>4. r \in CallRecords /\ r.epoch = call[t].epoch /\ r.gen = call[t].gen
      /\ r.id = call[t].id /\ r.outcome = call[t].outcome /\ r.child = c
  BY TypesOf DEF CallRecords
<1>5. pc'[t] = "waiting" /\ call'[t] = r /\ Others(t)
  BY <1>2, <1>3, <1>4, SettingIs DEF Places, BeforeSend
<1>6. Launches(t, c)
  BY <1>1, <1>2, <1>4, <1>5 DEF Launches
<1> QED
  BY <1>6

LEMMA LeaveIs == ASSUME Types, NEW t \in Callers, Leave(t) PROVE Leaves(t)
<1>1. NoCall \in CallRecords
  BY DEF NoCall, CallRecords, Outcomes
<1>2. Goto(t, "idle") /\ call' = [call EXCEPT ![t] = NoCall]
  BY DEF Leave
<1>3. pc'[t] = "idle" /\ call'[t] = NoCall /\ Others(t)
  BY <1>1, <1>2, SettingIs DEF Places, Outside
<1> QED
  BY <1>3 DEF Leave, Leaves, Same

LEMMA PassesIs ==
    ASSUME Types, NEW t \in Callers,
           NEW where \in Places, Goto(t, where), UNCHANGED call, Same,
           UNCHANGED <<lock, cancelEvent, requests>>,
           <<pc[t], where>> \in {<<"started", "checking">>, <<"checking", "owning">>,
                                 <<"owning", "send">>, <<"sending", "loop">>,
                                 <<"loop", "poll">>, <<"poll", "receiving">>,
                                 <<"poll", "alive">>, <<"alive", "loop">>}
    PROVE  Passes(t)
<1>1. pc'[t] = where /\ call'[t] = call[t] /\ Request(t) /\ Others(t)
  BY GoingIs
<1> QED
  BY <1>1 DEF Passes

LEMMA QuitsIs ==
    ASSUME Types, NEW t \in Callers, NEW why \in {"cancelled", "broken", "exited", "handle"},
           Raise(t, why), Same, UNCHANGED <<lock, cancelEvent, requests>>,
           pc[t] \in BeforeSend \union Exchanging,
           \/ pc[t] = "start"
           \/ why = "cancelled" /\ Cancelled(t)
           \/ ~pipe[call[t].child].open \/ ~Alive(call[t].child) \/ process # call[t].child
    PROVE  Quits(t)
<1>1. pc'[t] = "leaving" /\ call'[t].outcome = why /\ Request(t) /\ Others(t)
  BY RaisingIs DEF Outcomes
<1> QED
  BY <1>1 DEF Quits

LEMMA AbortsIs ==
    ASSUME Types, NEW t \in Callers, NEW why \in {"broken", "deadline"},
           Raise(t, why), Terminate, UNCHANGED <<lock, cancelEvent, requests>>,
           pc[t] \in {"waiting", "loop"}
    PROVE  Aborts(t)
<1>1. pc'[t] = "leaving" /\ call'[t].outcome = why /\ Request(t) /\ Others(t)
  BY RaisingIs DEF Outcomes
<1> QED
  BY <1>1 DEF Aborts

(* A startup that is given up kills the child unless another thread has. *)
LEMMA GivingUpIs ==
    ASSUME Types, NEW t \in Callers, Raise(t, "broken"), TerminateOwn(t),
           UNCHANGED <<lock, cancelEvent, requests>>, pc[t] = "waiting"
    PROVE  Aborts(t) \/ Quits(t)
<1>1. CASE process = call[t].child
  BY <1>1, AbortsIs DEF TerminateOwn
<1>2. CASE process # call[t].child
  <2>1. Same
    BY <1>2 DEF TerminateOwn, Same
  <2>2. pc[t] \in BeforeSend \union Exchanging
    BY DEF BeforeSend
  <2> QED
    BY <1>2, <2>1, <2>2, QuitsIs
<1> QED
  BY <1>1, <1>2

LEMMA RefuseIs == ASSUME Types, NEW t \in Callers, RefuseStart(t) PROVE Quits(t)
BY QuitsIs DEF RefuseStart, BeforeSend, Same, core

LEMMA StartupTimesOutIs ==
    ASSUME Types, NEW t \in Callers, StartupTimesOut(t) PROVE Aborts(t) \/ Quits(t)
BY GivingUpIs DEF StartupTimesOut

LEMMA StartupBrokenIs ==
    ASSUME Types, NEW t \in Callers, StartupBroken(t) PROVE Quits(t)
<1> DEFINE why == IF cancelEvent THEN "cancelled" ELSE "broken"
<1>1. Raise(t, why) /\ why \in {"cancelled", "broken", "exited", "handle"}
  BY DEF StartupBroken
<1>2. ~pipe[call[t].child].open \/ ~Alive(call[t].child)
  BY DEF StartupBroken, AtEnd
<1>3. /\ pc[t] \in BeforeSend \union Exchanging /\ Same
      /\ UNCHANGED <<lock, cancelEvent, requests>>
  BY DEF StartupBroken, BeforeSend, Same, core
<1> QED
  BY <1>1, <1>2, <1>3, QuitsIs

LEMMA StartupAnsweredIs ==
    ASSUME Types, NEW t \in Callers, StartupAnswered(t)
    PROVE  Hears(t) \/ Aborts(t) \/ Quits(t)
<1> DEFINE c == call[t].child
<1>1. /\ pc[t] = "waiting" /\ Readable(t) /\ UNCHANGED <<lock, cancelEvent, requests>>
  BY DEF StartupAnswered
<1>2. CASE Head(pipe[c].up).kind = "ready"
  <2>1. /\ UNCHANGED <<process, child>> /\ pipe' = [pipe EXCEPT ![c].up = Tail(@)]
        /\ IF cancelEvent THEN Raise(t, "cancelled")
                          ELSE Goto(t, "started") /\ UNCHANGED call
    BY <1>2 DEF StartupAnswered
  <2>2. CASE cancelEvent
    <3>1. Raise(t, "cancelled") /\ "cancelled" \in Outcomes
      BY <2>1, <2>2 DEF Outcomes
    <3>2. pc'[t] = "leaving" /\ call'[t].outcome = "cancelled" /\ Request(t) /\ Others(t)
      BY <3>1, RaisingIs
    <3> QED
      BY <1>1, <1>2, <2>1, <2>2, <3>2 DEF Hears
  <2>3. CASE ~cancelEvent
    <3>1. Goto(t, "started") /\ UNCHANGED call /\ "started" \in Places
      BY <2>1, <2>3 DEF Places, BeforeSend
    <3>2. pc'[t] = "started" /\ call'[t] = call[t] /\ Request(t) /\ Others(t)
      BY <3>1, GoingIs
    <3> QED
      BY <1>1, <1>2, <2>1, <3>2 DEF Hears
  <2> QED
    BY <2>2, <2>3
<1>3. CASE Head(pipe[c].up).kind # "ready"
  <2>1. TerminateOwn(t) /\ Raise(t, "broken")
    BY <1>3 DEF StartupAnswered
  <2> QED
    BY <1>1, <2>1, GivingUpIs
<1> QED
  BY <1>2, <1>3

LEMMA RecordStartupIs == ASSUME Types, NEW t \in Callers, RecordStartup(t) PROVE Passes(t)
<1>1. "checking" \in Places /\ Goto(t, "checking") /\ pc[t] = "started"
  BY DEF Places, BeforeSend, RecordStartup
<1> QED
  BY <1>1, PassesIs DEF RecordStartup, Same, core

LEMMA CheckStartedIs ==
    ASSUME Types, NEW t \in Callers, CheckStarted(t) PROVE Passes(t) \/ Quits(t)
<1>1. /\ pc[t] = "checking" /\ Same /\ UNCHANGED <<lock, cancelEvent, requests>>
      /\ "checking" \in BeforeSend /\ "owning" \in Places
  BY DEF CheckStarted, Same, core, BeforeSend, Places
<1>2. CASE Cancelled(t)
  <2>1. Raise(t, "cancelled")
    BY <1>2 DEF CheckStarted
  <2> QED
    BY <1>1, <1>2, <2>1, QuitsIs
<1>3. CASE ~Cancelled(t)
  <2>1. Goto(t, "owning") /\ UNCHANGED call
    BY <1>3 DEF CheckStarted
  <2> QED
    BY <1>1, <2>1, PassesIs
<1> QED
  BY <1>2, <1>3

LEMMA CheckOwnedIs ==
    ASSUME Types, NEW t \in Callers, CheckOwned(t) PROVE Passes(t) \/ Quits(t)
<1>1. /\ pc[t] = "owning" /\ Same /\ UNCHANGED <<lock, cancelEvent, requests>>
      /\ "owning" \in BeforeSend /\ "send" \in Places
  BY DEF CheckOwned, Same, core, BeforeSend, Places
<1>2. CASE process # call[t].child
  <2>1. Raise(t, "cancelled")
    BY <1>2 DEF CheckOwned
  <2> QED
    BY <1>1, <1>2, <2>1, QuitsIs
<1>3. CASE process = call[t].child
  <2>1. Goto(t, "send") /\ UNCHANGED call
    BY <1>3 DEF CheckOwned
  <2> QED
    BY <1>1, <2>1, PassesIs
<1> QED
  BY <1>2, <1>3

(* A handler of a broken pipe raises one of two errors. *)
LEMMA BrokenIs ==
    ASSUME Types, NEW t \in Callers, Broken(t), Same,
           UNCHANGED <<lock, cancelEvent, requests>>, pc[t] \in BeforeSend \union Exchanging,
           ~pipe[call[t].child].open \/ ~Alive(call[t].child)
    PROVE  Quits(t)
<1> DEFINE why == IF Cancelled(t) THEN "cancelled" ELSE "broken"
<1>1. Raise(t, why) /\ why \in {"cancelled", "broken", "exited", "handle"}
  BY DEF Broken
<1> QED
  BY <1>1, QuitsIs

(* A send that has gone through is noted in the record of the call. *)
LEMMA NotedIs ==
    ASSUME Types, NEW t \in Callers, call' = [call EXCEPT ![t].sent = TRUE], Goto(t, "loop")
    PROVE  /\ pc'[t] = "loop" /\ Request(t) /\ Others(t)
           /\ call'[t].outcome = call[t].outcome
<1> DEFINE r == [call[t] EXCEPT !.sent = TRUE]
<1>1. call' = [call EXCEPT ![t] = r]
  BY TypesOf DEF CallRecords
<1>2. call[t] \in CallRecords
  BY TypesOf
<1>3. r \in CallRecords /\ r.epoch = call[t].epoch /\ r.gen = call[t].gen
      /\ r.id = call[t].id /\ r.outcome = call[t].outcome /\ r.child = call[t].child
  BY <1>2 DEF CallRecords
<1>4. "loop" \in Places
  BY DEF Places, Exchanging, Blocked
<1>5. pc'[t] = "loop" /\ call'[t] = r /\ Others(t)
  BY <1>1, <1>3, <1>4, SettingIs
<1> QED
  BY <1>3, <1>5 DEF Request

LEMMA SendIs == ASSUME Types, NEW t \in Callers, Send(t) PROVE Sends(t) \/ Quits(t)
<1> DEFINE c == call[t].child
<1>1. /\ pc[t] = "send" /\ UNCHANGED <<lock, cancelEvent, requests, process, child>>
      /\ "send" \in BeforeSend /\ "sending" \in Places
  BY DEF Send, BeforeSend, Places, Exchanging, Blocked
<1>2. CASE ~pipe[c].open \/ ~Alive(c)
  <2>1. Broken(t) /\ Same
    BY <1>1, <1>2 DEF Send, Same
  <2> QED
    BY <1>1, <1>2, <2>1, BrokenIs
<1>3. CASE ~(~pipe[c].open \/ ~Alive(c))
  <2>1. /\ pipe' = [pipe EXCEPT ![c].down = Append(@, call[t].id)]
        /\ \/ call' = [call EXCEPT ![t].sent = TRUE] /\ Goto(t, "loop")
           \/ Goto(t, "sending") /\ UNCHANGED call
    BY <1>3 DEF Send
  <2>2. /\ pc'[t] \in {"sending", "loop"} /\ Request(t) /\ Others(t)
        /\ call'[t].outcome = call[t].outcome
    BY <1>1, <2>1, NotedIs, GoingIs
  <2> QED
    BY <1>1, <1>3, <2>1, <2>2 DEF Sends
<1> QED
  BY <1>2, <1>3

LEMMA SendReturnsIs == ASSUME Types, NEW t \in Callers, SendReturns(t) PROVE Passes(t)
<1>1. /\ pc[t] = "sending" /\ Same /\ UNCHANGED <<lock, cancelEvent, requests>>
      /\ call' = [call EXCEPT ![t].sent = TRUE] /\ Goto(t, "loop")
  BY DEF SendReturns, Same, core
<1>2. /\ pc'[t] = "loop" /\ Request(t) /\ Others(t)
      /\ call'[t].outcome = call[t].outcome
  BY <1>1, NotedIs
<1> QED
  BY <1>1, <1>2 DEF Passes

LEMMA SendBrokenIs == ASSUME Types, NEW t \in Callers, SendBroken(t) PROVE Quits(t)
BY BrokenIs DEF SendBroken, Exchanging, Blocked, Same, core

LEMMA CheckCancelledIs ==
    ASSUME Types, NEW t \in Callers, CheckCancelled(t) PROVE Passes(t) \/ Quits(t)
<1>1. /\ pc[t] = "loop" /\ Same /\ UNCHANGED <<lock, cancelEvent, requests>>
      /\ "loop" \in Exchanging /\ "poll" \in Places
  BY DEF CheckCancelled, Same, core, Exchanging, Blocked, Places
<1>2. CASE Cancelled(t)
  <2>1. Raise(t, "cancelled")
    BY <1>2 DEF CheckCancelled
  <2> QED
    BY <1>1, <1>2, <2>1, QuitsIs
<1>3. CASE ~Cancelled(t)
  <2>1. Goto(t, "poll") /\ UNCHANGED call
    BY <1>3 DEF CheckCancelled
  <2> QED
    BY <1>1, <2>1, PassesIs
<1> QED
  BY <1>2, <1>3

LEMMA DeadlinePassesIs ==
    ASSUME Types, NEW t \in Callers, DeadlinePasses(t) PROVE Aborts(t)
BY AbortsIs DEF DeadlinePasses

(* The first element of a sequence, and the rest of it. *)
LEMMA FirstAndRest ==
    ASSUME NEW S, NEW s \in Seq(S), s # <<>>
    PROVE  Head(s) \in S /\ Tail(s) \in Seq(S) /\ Len(Tail(s)) = Len(s) - 1 /\ Len(s) \in Nat
BY SMTT(40)

LEMMA PollAnsweredIs == ASSUME Types, NEW t \in Callers, PollAnswered(t) PROVE Passes(t)
<1>1. "receiving" \in Places /\ Goto(t, "receiving") /\ pc[t] = "poll"
  BY DEF Places, Exchanging, Blocked, PollAnswered
<1> QED
  BY <1>1, PassesIs DEF PollAnswered, Same, core

LEMMA ReceiveBrokenIs == ASSUME Types, NEW t \in Callers, ReceiveBroken(t) PROVE Quits(t)
BY BrokenIs DEF ReceiveBroken, Exchanging, Blocked, Same, core

LEMMA ReceiveIs ==
    ASSUME Types, ChildInv, NEW t \in Callers, Receive(t) PROVE Hears(t)
<1> DEFINE c == call[t].child
           m == Head(pipe[c].up)
           why == IF m.id # call[t].id THEN "mismatch" ELSE m.kind
<1>1. /\ pc[t] = "receiving" /\ Readable(t) /\ Raise(t, why)
      /\ pipe' = [pipe EXCEPT ![c].up = Tail(@)]
      /\ UNCHANGED <<lock, cancelEvent, requests, process, child>>
  BY DEF Receive
<1>2. c \in Children
  <2>1. c \in Children \union {None}
    BY TypesOf DEF CallRecords
  <2>2. pc[t] \in (BeforeSend \ {"start"}) \union Exchanging
    BY <1>1 DEF Exchanging, Blocked
  <2> QED
    BY <2>1, <2>2 DEF ChildInv
<1>3. pipe[c].up \in Seq([kind : Kinds, id : Nat]) /\ pipe[c].up # <<>>
  BY <1>1, <1>2, TypesOf DEF PipeRecords, Readable
<1>4. m \in [kind : Kinds, id : Nat]
  <2> HIDE DEF c
  <2> QED
    BY <1>3, FirstAndRest
<1>5. why \in Outcomes
  BY <1>4, SMTT(40) DEF Outcomes
<1>6. pc'[t] = "leaving" /\ call'[t].outcome = why /\ Request(t) /\ Others(t)
  BY <1>1, <1>5, RaisingIs
<1> QED
  BY <1>1, <1>6, SMTT(40) DEF Hears

LEMMA PollBrokenIs ==
    ASSUME Types, NEW t \in Callers, PollBroken(t) PROVE Quits(t)
<1>1. ~pipe[call[t].child].open \/ ~Alive(call[t].child)
  BY DEF PollBroken, AtEnd
<1>2. /\ Broken(t) /\ pc[t] \in BeforeSend \union Exchanging /\ Same
      /\ UNCHANGED <<lock, cancelEvent, requests>>
  BY DEF PollBroken, Exchanging, Blocked, Same, core
<1> QED
  BY <1>1, <1>2, BrokenIs

LEMMA PollEmptyIs == ASSUME Types, NEW t \in Callers, PollEmpty(t) PROVE Passes(t)
<1>1. "alive" \in Places /\ Goto(t, "alive") /\ pc[t] = "poll"
  BY DEF Places, Exchanging, Blocked, PollEmpty
<1> QED
  BY <1>1, PassesIs DEF PollEmpty, Same, core

LEMMA CheckAliveIs ==
    ASSUME Types, NEW t \in Callers, CheckAlive(t) PROVE Passes(t) \/ Quits(t)
<1> DEFINE c == call[t].child
<1>1. /\ pc[t] = "alive" /\ Same /\ UNCHANGED <<lock, cancelEvent, requests>>
      /\ "alive" \in Exchanging /\ "loop" \in Places
  BY DEF CheckAlive, Same, core, Exchanging, Blocked, Places
<1>2. CASE Alive(c)
  <2>1. Goto(t, "loop") /\ UNCHANGED call
    BY <1>2 DEF CheckAlive
  <2> QED
    BY <1>1, <2>1, PassesIs
<1>3. CASE ~Alive(c)
  <2>1. PICK why \in {"exited"} \union (IF pipe[c].open THEN {} ELSE {"handle"}) :
              Raise(t, why)
    BY <1>3 DEF CheckAlive
  <2>2. why \in {"cancelled", "broken", "exited", "handle"}
    BY <2>1
  <2> QED
    BY <1>1, <1>3, <2>1, <2>2, QuitsIs
<1> QED
  BY <1>2, <1>3

(* Every step of a call is one of these. *)
CallerEffect(t) ==
    \/ Enters(t) \/ Admitted(t) \/ Marks(t) \/ Reuses(t) \/ Passes(t) \/ Quits(t)
    \/ Aborts(t) \/ Hears(t) \/ Sends(t) \/ Leaves(t) \/ \E c \in Children : Launches(t, c)

LEMMA OthersKeep ==
    ASSUME NEW t \in Callers, CallerEffect(t)
    PROVE  Others(t)
BY Zenon DEF CallerEffect, Enters, Admitted, Marks, Reuses, Passes, Quits, Aborts, Hears, Sends,
   Leaves, Launches

LEMMA CallerIs ==
    ASSUME Types, ChildInv, NEW t \in Callers, Enter(t) \/ CallerStep(t) \/ Receive(t) \/ DeadlinePasses(t)
    PROVE  CallerEffect(t)
BY EnterIs, AdmitIs, MarkIs, ReuseIs, StartIs, LeaveIs, RefuseIs, StartupTimesOutIs,
   StartupBrokenIs, StartupAnsweredIs, RecordStartupIs, CheckStartedIs, CheckOwnedIs,
   SendIs, SendReturnsIs, SendBrokenIs, CheckCancelledIs, DeadlinePassesIs, PollAnsweredIs,
   PollBrokenIs, PollEmptyIs, ReceiveIs, ReceiveBrokenIs, CheckAliveIs DEF CallerStep, CallerEffect

-----------------------------------------------------------------------------
(* What the steps do to the children and their pipes. *)

LEMMA ChildOfCall ==
    ASSUME Types, ChildInv, NEW t \in Callers,
           pc[t] \in (BeforeSend \ {"start"}) \union Exchanging
    PROVE  call[t].child \in Children /\ call[t].child # None
<1>1. call[t].child \in Children \union {None}
  BY TypesOf DEF CallRecords
<1> QED
  BY <1>1 DEF ChildInv

LEMMA HearingTakes ==
    ASSUME Types, ChildInv, NEW t \in Callers, Hears(t)
    PROVE  LET m == call[t].child IN
           /\ m \in Children /\ pipe[m].open /\ pipe[m].up # <<>>
           /\ pipe' \in [Children -> PipeRecords]
           /\ pipe'[m].open = pipe[m].open /\ pipe'[m].down = pipe[m].down
           /\ pipe'[m].up = Tail(pipe[m].up)
           /\ \A c \in Children : c # m => pipe'[c] = pipe[c]
<1> DEFINE m == call[t].child
<1>1. m \in Children
  <2>1. pc[t] \in (BeforeSend \ {"start"}) \union Exchanging
    BY DEF Hears, BeforeSend, Exchanging, Blocked
  <2> QED
    BY <2>1, ChildOfCall
<1> HIDE DEF m
<1>2. /\ pipe' = [pipe EXCEPT ![m].up = Tail(@)]
      /\ pipe[m].open /\ pipe[m].up # <<>>
  BY DEF Hears, Readable, m
<1>3. pipe[m] \in PipeRecords /\ Tail(pipe[m].up) \in Seq([kind : Kinds, id : Nat])
  <2>1. pipe[m] \in PipeRecords
    BY <1>1, TypesOf
  <2>2. pipe[m].up \in Seq([kind : Kinds, id : Nat])
    BY <2>1 DEF PipeRecords
  <2> QED
    BY <1>2, <2>1, <2>2, FirstAndRest
<1>4. pipe' = [pipe EXCEPT ![m] = [pipe[m] EXCEPT !.up = Tail(pipe[m].up)]]
  BY <1>1, <1>2, TypesOf
<1>5. [pipe[m] EXCEPT !.up = Tail(pipe[m].up)] \in PipeRecords
  BY <1>3 DEF PipeRecords
<1>6. /\ pipe' \in [Children -> PipeRecords]
      /\ pipe'[m] = [pipe[m] EXCEPT !.up = Tail(pipe[m].up)]
      /\ \A c \in Children : c # m => pipe'[c] = pipe[c]
  BY <1>1, <1>4, <1>5, TypesOf
<1>7. /\ pipe'[m].open = pipe[m].open /\ pipe'[m].down = pipe[m].down
      /\ pipe'[m].up = Tail(pipe[m].up)
  BY <1>3, <1>6 DEF PipeRecords
<1> QED
  BY <1>1, <1>2, <1>6, <1>7 DEF m

LEMMA SendingPuts ==
    ASSUME Types, ChildInv, NEW t \in Callers, Sends(t)
    PROVE  LET m == call[t].child IN
           /\ m \in Children /\ Alive(m) /\ call[t].id \in Nat
           /\ pipe' \in [Children -> PipeRecords]
           /\ pipe'[m].open = pipe[m].open /\ pipe'[m].up = pipe[m].up
           /\ pipe'[m].down = Append(pipe[m].down, call[t].id)
           /\ \A c \in Children : c # m => pipe'[c] = pipe[c]
<1> DEFINE m == call[t].child
           i == call[t].id
<1>1. m \in Children
  <2>1. pc[t] \in (BeforeSend \ {"start"}) \union Exchanging
    BY DEF Sends, BeforeSend
  <2> QED
    BY <2>1, ChildOfCall
<1>2. i \in Nat
  BY TypesOf DEF CallRecords
<1>3. pipe' = [pipe EXCEPT ![m].down = Append(@, i)] /\ Alive(m)
  BY DEF Sends
<1> HIDE DEF m, i
<1>4. pipe[m] \in PipeRecords /\ Append(pipe[m].down, i) \in Seq(Nat)
  <2>1. pipe[m] \in PipeRecords
    BY <1>1, TypesOf
  <2>2. pipe[m].down \in Seq(Nat)
    BY <2>1 DEF PipeRecords
  <2> QED
    BY <1>2, <2>1, <2>2
<1>5. pipe' = [pipe EXCEPT ![m] = [pipe[m] EXCEPT !.down = Append(pipe[m].down, i)]]
  BY <1>1, <1>3, TypesOf
<1>6. [pipe[m] EXCEPT !.down = Append(pipe[m].down, i)] \in PipeRecords
  BY <1>4 DEF PipeRecords
<1>7. /\ pipe' \in [Children -> PipeRecords]
      /\ pipe'[m] = [pipe[m] EXCEPT !.down = Append(pipe[m].down, i)]
      /\ \A c \in Children : c # m => pipe'[c] = pipe[c]
  BY <1>1, <1>5, <1>6, TypesOf
<1>8. /\ pipe'[m].open = pipe[m].open /\ pipe'[m].up = pipe[m].up
      /\ pipe'[m].down = Append(pipe[m].down, i)
  BY <1>4, <1>7 DEF PipeRecords
<1> QED
  BY <1>1, <1>2, <1>3, <1>7, <1>8 DEF m, i

LEMMA LaunchingAdds ==
    ASSUME Types, NEW t \in Callers, NEW m \in Children, Launches(t, m)
    PROVE  /\ m # None /\ process' = m /\ child[m].state = "unused"
           /\ child' \in [Children -> ChildRecords] /\ pipe' \in [Children -> PipeRecords]
           /\ child'[m].state = "starting" /\ child'[m].born = call[t].epoch
           /\ pipe'[m].open /\ pipe'[m].down = pipe[m].down /\ pipe'[m].up = pipe[m].up
           /\ \A c \in Children : c # m => child'[c] = child[c] /\ pipe'[c] = pipe[c]
<1>1. /\ child' = [child EXCEPT ![m] = [state |-> "starting", born |-> call[t].epoch]]
      /\ pipe' = [pipe EXCEPT ![m].open = TRUE]
      /\ process' = m /\ child[m].state = "unused"
  BY DEF Launches
<1>2. m # None
  BY DEF Children, None
<1>3. call[t].epoch \in Nat
  BY TypesOf DEF CallRecords
<1>4. /\ child' \in [Children -> ChildRecords]
      /\ child'[m] = [state |-> "starting", born |-> call[t].epoch]
      /\ \A c \in Children : c # m => child'[c] = child[c]
  BY <1>1, <1>3, TypesOf DEF ChildRecords
<1>5. pipe[m] \in PipeRecords
  BY TypesOf
<1>6. [pipe[m] EXCEPT !.open = TRUE] \in PipeRecords
  BY <1>5 DEF PipeRecords
<1>7. pipe' = [pipe EXCEPT ![m] = [pipe[m] EXCEPT !.open = TRUE]]
  BY <1>1, TypesOf
<1>8. /\ pipe' \in [Children -> PipeRecords]
      /\ pipe'[m] = [pipe[m] EXCEPT !.open = TRUE]
      /\ \A c \in Children : c # m => pipe'[c] = pipe[c]
  BY <1>6, <1>7, TypesOf
<1>9. pipe'[m].open /\ pipe'[m].down = pipe[m].down /\ pipe'[m].up = pipe[m].up
  BY <1>5, <1>8 DEF PipeRecords
<1>10. child'[m].state = "starting" /\ child'[m].born = call[t].epoch
  BY <1>4
<1> QED
  BY <1>1, <1>2, <1>4, <1>8, <1>9, <1>10

(* The steps of a child, by their effect. *)
OnlyOf(c) ==
    /\ child' \in [Children -> ChildRecords] /\ pipe' \in [Children -> PipeRecords]
    /\ child'[c].born = child[c].born /\ pipe'[c].open = pipe[c].open
    /\ \A d \in Children : d # c => child'[d] = child[d] /\ pipe'[d] = pipe[d]
Dies(c) ==
    /\ Alive(c) /\ child'[c].state = "dead" /\ pipe' = pipe /\ OnlyOf(c)
Takes(c) ==
    /\ child[c].state = "idle" /\ pipe[c].down # <<>> /\ child'[c].state = "busy"
    /\ pipe' = pipe /\ OnlyOf(c)
Speaks(c) ==
    /\ child[c].state = "starting" /\ pipe'[c].down = pipe[c].down
    /\ \/ child'[c].state = "idle" /\ pipe'[c].up = Append(pipe[c].up, Message("ready", 0))
       \/ child'[c].state = "dead" /\ pipe'[c].up = Append(pipe[c].up, Message("fatal", 0))
    /\ OnlyOf(c)
Answers(c) ==
    /\ child[c].state = "busy" /\ child'[c].state = "idle" /\ pipe[c].down # <<>>
    /\ \E kind \in {"ok", "error"} :
         pipe'[c].up = Append(pipe[c].up, Message(kind, Head(pipe[c].down)))
    /\ pipe'[c].down = Tail(pipe[c].down) /\ OnlyOf(c)

Fails(c) ==
    /\ child[c].state = "idle" /\ child'[c].state = "dead" /\ pipe[c].down # <<>>
    /\ pipe'[c].up = Append(pipe[c].up, Message("fatal", 0))
    /\ pipe'[c].down = Tail(pipe[c].down) /\ OnlyOf(c)

LEMMA StateOnly ==
    ASSUME Types, NEW c \in Children, NEW s \in {"idle", "busy", "dead"},
           child' = [child EXCEPT ![c].state = s]
    PROVE  /\ child' \in [Children -> ChildRecords]
           /\ child'[c].born = child[c].born /\ child'[c].state = s
           /\ \A d \in Children : d # c => child'[d] = child[d]
BY TypesOf DEF ChildRecords

LEMMA StateAlone ==
    ASSUME Types, NEW c \in Children, NEW s \in {"idle", "busy", "dead"},
           child' = [child EXCEPT ![c].state = s], UNCHANGED pipe
    PROVE  child'[c].state = s /\ OnlyOf(c)
BY StateOnly, TypesOf DEF OnlyOf

LEMMA PipeOnly ==
    ASSUME Types, NEW c \in Children, NEW u \in Seq([kind : Kinds, id : Nat]),
           NEW d \in Seq(Nat),
           pipe' = [pipe EXCEPT ![c] = [pipe[c] EXCEPT !.up = u, !.down = d]]
    PROVE  /\ pipe' \in [Children -> PipeRecords]
           /\ pipe'[c].open = pipe[c].open /\ pipe'[c].up = u /\ pipe'[c].down = d
           /\ \A e \in Children : e # c => pipe'[e] = pipe[e]
<1>1. pipe[c] \in PipeRecords
  BY TypesOf
<1>2. [pipe[c] EXCEPT !.up = u, !.down = d] \in PipeRecords
  BY <1>1 DEF PipeRecords
<1>3. /\ pipe' \in [Children -> PipeRecords]
      /\ pipe'[c] = [pipe[c] EXCEPT !.up = u, !.down = d]
      /\ \A e \in Children : e # c => pipe'[e] = pipe[e]
  BY <1>2, TypesOf
<1> QED
  BY <1>1, <1>3 DEF PipeRecords

LEMMA AliveIs == ASSUME Types, NEW c \in Children
                 PROVE  Alive(c) <=> child[c].state \in {"starting", "idle", "busy"}
BY DEF Alive, Children, None

LEMMA ChildStartsIs ==
    ASSUME Types, NEW c \in Children, ChildStarts(c) PROVE Speaks(c) \/ Dies(c)
<1> DEFINE Tell(m, s) == Tells(c, m, s)
<1>1. /\ child[c].state = "starting" /\ Alive(c)
      /\ \/ Tells(c, Message("ready", 0), "idle")
         \/ Tells(c, Message("fatal", 0), "dead")
  BY AliveIs DEF ChildStarts
<1>2. CASE ~pipe[c].open
  <2>1. child' = [child EXCEPT ![c].state = "dead"] /\ UNCHANGED pipe
    BY <1>1, <1>2 DEF Tells
  <2> QED
    BY <1>1, <2>1, StateAlone DEF Dies
<1>3. ASSUME NEW s \in {"idle", "busy", "dead"}, NEW kind \in Kinds,
             Tells(c, Message(kind, 0), s), pipe[c].open
      PROVE  /\ child'[c].state = s /\ pipe'[c].down = pipe[c].down
             /\ pipe'[c].up = Append(pipe[c].up, Message(kind, 0)) /\ OnlyOf(c)
  <2> DEFINE u == Append(pipe[c].up, Message(kind, 0))
  <2>1. /\ pipe' = [pipe EXCEPT ![c].up = Append(@, Message(kind, 0))]
        /\ child' = [child EXCEPT ![c].state = s]
    BY <1>3 DEF Tells
  <2>2. pipe[c] \in PipeRecords
    BY TypesOf
  <2>3. pipe[c].up \in Seq([kind : Kinds, id : Nat]) /\ pipe[c].down \in Seq(Nat)
        /\ Message(kind, 0) \in [kind : Kinds, id : Nat]
    BY <2>2 DEF PipeRecords, Message
  <2>4. u \in Seq([kind : Kinds, id : Nat])
    BY <2>3
  <2>5. pipe' = [pipe EXCEPT ![c] = [pipe[c] EXCEPT !.up = u, !.down = pipe[c].down]]
    BY <2>1, <2>2, TypesOf DEF PipeRecords
  <2>6. /\ pipe' \in [Children -> PipeRecords]
        /\ pipe'[c].open = pipe[c].open /\ pipe'[c].up = u /\ pipe'[c].down = pipe[c].down
        /\ \A e \in Children : e # c => pipe'[e] = pipe[e]
    BY <2>3, <2>4, <2>5, PipeOnly, Zenon
  <2> QED
    BY <2>1, <2>6, StateOnly DEF OnlyOf
<1>4. CASE pipe[c].open
  BY <1>1, <1>3, <1>4 DEF Speaks, Kinds
<1> QED
  BY <1>2, <1>4

LEMMA ChildTakesIs ==
    ASSUME Types, NEW c \in Children, ChildTakes(c) PROVE Takes(c) \/ Dies(c)
<1>1. child[c].state = "idle" /\ Alive(c) /\ UNCHANGED pipe
  BY AliveIs DEF ChildTakes
<1>2. CASE pipe[c].down # <<>>
  <2>1. child' = [child EXCEPT ![c].state = "busy"]
    BY <1>2 DEF ChildTakes
  <2> QED
    BY <1>1, <1>2, <2>1, StateAlone DEF Takes
<1>3. CASE pipe[c].down = <<>>
  <2>1. child' = [child EXCEPT ![c].state = "dead"]
    BY <1>3 DEF ChildTakes
  <2> QED
    BY <1>1, <2>1, StateAlone DEF Dies
<1> QED
  BY <1>2, <1>3

LEMMA ChildFailsIs ==
    ASSUME Types, NEW c \in Children, ChildFails(c) PROVE Fails(c) \/ Dies(c)
<1>1. /\ child[c].state = "idle" /\ Alive(c) /\ pipe[c].down # <<>>
      /\ child' = [child EXCEPT ![c].state = "dead"]
  BY AliveIs DEF ChildFails
<1>2. CASE ~pipe[c].open
  BY <1>1, <1>2, StateAlone DEF ChildFails, Dies
<1>3. CASE pipe[c].open
  <2> DEFINE u == Append(pipe[c].up, Message("fatal", 0))
             d == Tail(pipe[c].down)
  <2>1. pipe' = [pipe EXCEPT ![c].up = Append(@, Message("fatal", 0)), ![c].down = Tail(@)]
    BY <1>3 DEF ChildFails
  <2>2. pipe[c] \in PipeRecords
    BY TypesOf
  <2>3. pipe[c].up \in Seq([kind : Kinds, id : Nat]) /\ pipe[c].down \in Seq(Nat)
        /\ Message("fatal", 0) \in [kind : Kinds, id : Nat]
    BY <2>2 DEF PipeRecords, Message, Kinds
  <2>4. u \in Seq([kind : Kinds, id : Nat]) /\ d \in Seq(Nat)
    BY <1>1, <2>3, FirstAndRest
  <2>5. pipe' = [pipe EXCEPT ![c] = [pipe[c] EXCEPT !.up = u, !.down = d]]
    BY <2>1, <2>2, TypesOf DEF PipeRecords
  <2>6. /\ pipe' \in [Children -> PipeRecords]
        /\ pipe'[c].open = pipe[c].open /\ pipe'[c].up = u /\ pipe'[c].down = d
        /\ \A e \in Children : e # c => pipe'[e] = pipe[e]
    BY <2>4, <2>5, PipeOnly
  <2> QED
    BY <1>1, <2>6, StateOnly DEF OnlyOf, Fails
<1> QED
  BY <1>2, <1>3

LEMMA ChildCrashesIs ==
    ASSUME Types, NEW c \in Children, ChildCrashes(c) PROVE Dies(c)
BY StateAlone DEF ChildCrashes, Dies

LEMMA ChildAnswersIs ==
    ASSUME Types, ChildInv, NEW c \in Children, ChildAnswers(c) PROVE Answers(c) \/ Dies(c)
<1>1. child[c].state = "busy" /\ Alive(c) /\ pipe[c].down # <<>>
  BY AliveIs DEF ChildAnswers, ChildInv
<1>2. CASE ~pipe[c].open
  <2>1. child' = [child EXCEPT ![c].state = "dead"] /\ UNCHANGED pipe
    BY <1>2 DEF ChildAnswers
  <2> QED
    BY <1>1, <2>1, StateAlone DEF Dies
<1>3. CASE pipe[c].open
  <2>1. PICK kind \in {"ok", "error"} :
          /\ child' = [child EXCEPT ![c].state = "idle"]
          /\ pipe' = [pipe EXCEPT ![c].up = Append(@, Message(kind, Head(pipe[c].down))),
                                  ![c].down = Tail(@)]
    BY <1>3 DEF ChildAnswers
  <2> DEFINE u == Append(pipe[c].up, Message(kind, Head(pipe[c].down)))
             d == Tail(pipe[c].down)
  <2>2. pipe[c] \in PipeRecords
    BY TypesOf
  <2>3. pipe[c].up \in Seq([kind : Kinds, id : Nat]) /\ pipe[c].down \in Seq(Nat)
    BY <2>2 DEF PipeRecords
  <2>4. Head(pipe[c].down) \in Nat /\ d \in Seq(Nat)
    BY <1>1, <2>3, FirstAndRest
  <2>5. Message(kind, Head(pipe[c].down)) \in [kind : Kinds, id : Nat]
    BY <2>4 DEF Message, Kinds
  <2>6. u \in Seq([kind : Kinds, id : Nat])
    BY <2>3, <2>5
  <2>7. pipe' = [pipe EXCEPT ![c] = [pipe[c] EXCEPT !.up = u, !.down = d]]
    BY <2>1, <2>2, TypesOf DEF PipeRecords
  <2>8. /\ pipe' \in [Children -> PipeRecords]
        /\ pipe'[c].open = pipe[c].open /\ pipe'[c].up = u /\ pipe'[c].down = d
        /\ \A e \in Children : e # c => pipe'[e] = pipe[e]
    BY <2>4, <2>6, <2>7, PipeOnly
  <2> QED
    BY <1>1, <2>1, <2>8, StateOnly DEF OnlyOf, Answers
<1> QED
  BY <1>2, <1>3

LEMMA ChildIs ==
    ASSUME Types, ChildInv, NEW c \in Children, ChildStep(c)
    PROVE  Dies(c) \/ Takes(c) \/ Speaks(c) \/ Answers(c) \/ Fails(c)
BY ChildStartsIs, ChildTakesIs, ChildFailsIs, ChildCrashesIs, ChildAnswersIs DEF ChildStep

LEMMA ControllerIs ==
    ASSUME NEW k \in Controllers, Begin(k) \/ ControllerStep(k)
    PROVE  Terminate \/ Same
BY DEF Begin, ControllerStep, Signal, Cancel, Reset, Close, Same, core

-----------------------------------------------------------------------------
(* Types are kept *)

LEMMA CallerTypes ==
    ASSUME TransportAssumption, Types, ChildInv, NEW t \in Callers, CallerEffect(t)
    PROVE  /\ pc' \in [Callers -> Places] /\ call' \in [Callers -> CallRecords]
           /\ child' \in [Children -> ChildRecords] /\ pipe' \in [Children -> PipeRecords]
           /\ process' \in Children \union {None} /\ lock' \in Callers \union {Free}
           /\ cancelEvent' \in BOOLEAN /\ requests' \in Nat
<1>1. CASE Enters(t) \/ Passes(t) \/ Quits(t) \/ Reuses(t)
  BY <1>1, TypesOf DEF Enters, Passes, Quits, Reuses, Others, Same
<1>2. CASE Admitted(t) \/ Leaves(t)
  BY <1>2, TypesOf, ZenonT(40) DEF Admitted, Leaves, Others, Same
<1>3. CASE Marks(t)
  <2>1. requests' = requests + 1 /\ requests \in Nat
    BY <1>3, TypesOf DEF Marks
  <2> QED
    BY <1>3, <2>1, TypesOf DEF Marks, Others, Same
<1>4. CASE Aborts(t)
  BY <1>4, TypesOf, Kills DEF Aborts, Others
<1>5. CASE Hears(t)
  BY <1>5, TypesOf, HearingTakes, Zenon DEF Hears, Others
<1>6. CASE Sends(t)
  BY <1>6, TypesOf, SendingPuts DEF Sends, Others
<1>7. ASSUME NEW c \in Children, Launches(t, c)
      PROVE  /\ pc' \in [Callers -> Places] /\ call' \in [Callers -> CallRecords]
             /\ child' \in [Children -> ChildRecords] /\ pipe' \in [Children -> PipeRecords]
             /\ process' \in Children \union {None} /\ lock' \in Callers \union {Free}
             /\ cancelEvent' \in BOOLEAN /\ requests' \in Nat
  BY <1>7, TypesOf, LaunchingAdds DEF Launches, Others
<1> QED
  BY <1>1, <1>2, <1>3, <1>4, <1>5, <1>6, <1>7 DEF CallerEffect

LEMMA CallerRest ==
    ASSUME Types, NEW t \in Callers, Enter(t) \/ CallerStep(t) \/ Receive(t) \/ DeadlinePasses(t)
    PROVE  /\ inflight' \in BOOLEAN
           /\ startSample' \in {startSample, generation}
           /\ requestSample' \in {requestSample, generation}
<1>1. inflight \in BOOLEAN
  BY TypesOf
<1>2. CASE Enter(t) \/ Admit(t) \/ RefuseStart(t) \/ ReuseChild(t) \/ StartChild(t)
           \/ StartupBroken(t) \/ CheckStarted(t) \/ CheckOwned(t) \/ Send(t)
           \/ SendReturns(t) \/ SendBroken(t) \/ CheckCancelled(t) \/ PollAnswered(t)
           \/ PollBroken(t) \/ PollEmpty(t) \/ Receive(t) \/ ReceiveBroken(t) \/ CheckAlive(t)
  BY <1>1, <1>2 DEF Enter, Admit, RefuseStart, ReuseChild, StartChild, StartupBroken,
     CheckStarted, CheckOwned, Send, SendReturns, SendBroken, CheckCancelled, PollAnswered,
     PollBroken, PollEmpty, Receive, ReceiveBroken, CheckAlive, core, samples
<1>3. CASE MarkInflight(t) \/ RecordStartup(t) \/ Leave(t)
  BY <1>1, <1>3 DEF MarkInflight, RecordStartup, Leave, core, samples
<1>4. CASE StartupTimesOut(t) \/ StartupAnswered(t) \/ DeadlinePasses(t)
  <2>1. inflight' \in {FALSE, inflight}
    BY <1>4 DEF StartupTimesOut, StartupAnswered, DeadlinePasses, TerminateOwn, Terminate
  <2> QED
    BY <1>1, <1>4, <2>1 DEF StartupTimesOut, StartupAnswered, DeadlinePasses, samples
<1> QED
  BY <1>2, <1>3, <1>4 DEF CallerStep

LEMMA ControllerRest ==
    ASSUME Types, NEW k \in Controllers, Begin(k) \/ ControllerStep(k)
    PROVE  /\ op' \in [Controllers -> [name : Ops \union {"none"}, signalled : BOOLEAN]]
           /\ phase' \in {"running", "resetting", "stopping"}
           /\ epoch' \in {epoch, epoch + 1} /\ settled' \in {settled, epoch}
           /\ generation' \in {generation, generation + 1}
           /\ cancelEvent' \in BOOLEAN /\ inflight' \in BOOLEAN
           /\ \/ UNCHANGED samples
              \/ startSample' = NoSample /\ requestSample' = NoSample /\ resetGen' = generation'
<1> DEFINE OpRecords == [name : Ops \union {"none"}, signalled : BOOLEAN]
<1>1. /\ op \in [Controllers -> OpRecords] /\ cancelEvent \in BOOLEAN /\ inflight \in BOOLEAN
      /\ phase \in {"running", "resetting", "stopping"}
  BY DEF Types
<1>2. NoOp \in OpRecords
  BY DEF NoOp
<1>3. CASE Begin(k)
  <2>1. PICK name \in Ops :
          /\ op' = [op EXCEPT ![k].name = name]
          /\ epoch' = IF name = "close" /\ Engine THEN epoch ELSE epoch + 1
          /\ phase' = CASE name = "reset"  -> "resetting"
                        [] name = "cancel" -> "stopping"
                        [] name = "close"  -> phase
    BY <1>3 DEF Begin
  <2>2. op' \in [Controllers -> OpRecords]
    BY <1>1, <2>1
  <2>3. phase' \in {"running", "resetting", "stopping"} /\ epoch' \in {epoch, epoch + 1}
    BY <1>1, <2>1 DEF Ops
  <2> QED
    BY <1>1, <1>3, <2>2, <2>3 DEF Begin, core, samples
<1>4. CASE Signal(k)
  <2>1. op' = [op EXCEPT ![k].signalled = TRUE]
    BY <1>4 DEF Signal
  <2>2. op' \in [Controllers -> OpRecords]
    BY <1>1, <2>1
  <2> QED
    BY <1>1, <1>4, <2>2 DEF Signal, core, samples, engine
<1>5. CASE Cancel(k) \/ Reset(k) \/ Close(k)
  <2>1. op' = [op EXCEPT ![k] = NoOp]
    BY <1>5 DEF Cancel, Reset, Close, Settle
  <2>2. op' \in [Controllers -> OpRecords]
    BY <1>1, <1>2, <2>1
  <2>3. inflight' \in BOOLEAN
    BY <1>1, <1>5 DEF Cancel, Reset, Close, Terminate, core
  <2>4. /\ phase' \in {"running", "resetting", "stopping"}
        /\ epoch' = epoch /\ settled' \in {settled, epoch} /\ cancelEvent' \in BOOLEAN
    BY <1>1, <1>5 DEF Cancel, Reset, Close, Settle, engine
  <2>5. /\ generation' \in {generation, generation + 1}
        /\ \/ UNCHANGED samples
           \/ startSample' = NoSample /\ requestSample' = NoSample /\ resetGen' = generation'
    BY <1>5 DEF Cancel, Reset, Close, samples, core
  <2> QED
    BY <2>2, <2>3, <2>4, <2>5
<1> QED
  BY <1>3, <1>4, <1>5 DEF ControllerStep

LEMMA TypesNext ==
    ASSUME TransportAssumption, Types, ChildInv, Next
    PROVE  Types'
<1> DEFINE SampleType == Nat \union {NoSample}
<1>1. ASSUME NEW t \in Callers, Enter(t) \/ CallerStep(t) \/ Receive(t) \/ DeadlinePasses(t)
      PROVE  Types'
  <2>1. CallerEffect(t)
    BY <1>1, CallerIs
  <2>2. /\ pc' \in [Callers -> Places] /\ call' \in [Callers -> CallRecords]
        /\ child' \in [Children -> ChildRecords] /\ pipe' \in [Children -> PipeRecords]
        /\ process' \in Children \union {None} /\ lock' \in Callers \union {Free}
        /\ cancelEvent' \in BOOLEAN /\ requests' \in Nat
    BY <2>1, CallerTypes
  <2>4. /\ inflight' \in BOOLEAN
        /\ startSample' \in SampleType /\ requestSample' \in SampleType
    BY <1>1, CallerRest, TypesOf
  <2>5. UNCHANGED <<generation, resetGen, op, epoch, settled, phase>>
    BY <1>1, CallerFrame
  <2> QED
    BY <2>2, <2>4, <2>5 DEF Types, CallRecords, ChildRecords, PipeRecords
<1>2. ASSUME NEW k \in Controllers, Begin(k) \/ ControllerStep(k)
      PROVE  Types'
  <2>1. UNCHANGED <<lock, requests, pc, call>>
    BY <1>2, ControllerFrame
  <2>2. /\ child' \in [Children -> ChildRecords] /\ pipe' \in [Children -> PipeRecords]
        /\ process' \in Children \union {None}
    <3>1. CASE Terminate
      BY <3>1, Kills
    <3>2. CASE Same
      BY <3>2, TypesOf DEF Same
    <3> QED
      BY <1>2, <3>1, <3>2, ControllerIs
  <2>3. /\ op' \in [Controllers -> [name : Ops \union {"none"}, signalled : BOOLEAN]]
        /\ phase' \in {"running", "resetting", "stopping"}
        /\ cancelEvent' \in BOOLEAN /\ inflight' \in BOOLEAN
    BY <1>2, ControllerRest
  <2>4. /\ epoch' \in Nat /\ settled' \in Nat /\ generation' \in Nat
    BY <1>2, ControllerRest, TypesOf
  <2>5. resetGen' \in Nat /\ startSample' \in SampleType /\ requestSample' \in SampleType
    BY <1>2, <2>4, ControllerRest, TypesOf DEF samples
  <2>6. /\ lock' \in Callers \union {Free} /\ requests' \in Nat
        /\ pc' \in [Callers -> Places] /\ call' \in [Callers -> CallRecords]
    BY <2>1, TypesOf
  <2> QED
    BY <2>2, <2>3, <2>4, <2>5, <2>6 DEF Types, CallRecords, ChildRecords, PipeRecords
<1>3. ASSUME NEW c \in Children, ChildStep(c)
      PROVE  Types'
  <2>1. child' \in [Children -> ChildRecords] /\ pipe' \in [Children -> PipeRecords]
    BY <1>3, ChildIs DEF Dies, Takes, Speaks, Answers, Fails, OnlyOf
  <2>2. UNCHANGED <<lock, cancelEvent, inflight, generation, process, startSample,
                    requestSample, resetGen, requests, pc, call, op, epoch, settled, phase>>
    BY <1>3, ChildFrame
  <2> QED
    BY <2>1, <2>2 DEF Types, ChildRecords, PipeRecords
<1> QED
  BY <1>1, <1>2, <1>3 DEF Next

-----------------------------------------------------------------------------
(* Nothing carries a generation or an epoch that is still to come, and what   *)
(* is shown is of a request begun after the last reset.                       *)
Samples ==
    /\ startSample <= generation /\ requestSample <= generation /\ resetGen <= generation
    /\ SamplesAfterReset
Epochs ==
    /\ settled <= epoch
    /\ \A c \in Children : child[c].born <= epoch
    /\ \A t \in Callers : call[t].epoch <= epoch /\ call[t].gen <= generation

LEMMA FreshCall ==
    LET r == [NoCall EXCEPT !.epoch = epoch]
    IN  /\ r.epoch = epoch /\ r.gen = 0 /\ r.child = None /\ r.outcome = "none"
        /\ NoCall.epoch = 0 /\ NoCall.gen = 0 /\ NoCall.child = None
        /\ NoCall.outcome = "none"
BY DEF NoCall

LEMMA SamplesNext ==
    ASSUME Types, Samples, Next
    PROVE  Samples'
<1>1. /\ generation \in Nat /\ resetGen \in Nat /\ startSample \in Nat \union {NoSample}
      /\ requestSample \in Nat \union {NoSample}
  BY TypesOf
<1>2. CASE UNCHANGED <<generation, resetGen>> /\ startSample' \in {startSample, generation}
           /\ requestSample' \in {requestSample, generation}
  BY <1>1, <1>2 DEF Samples, SamplesAfterReset, NoSample
<1>3. ASSUME NEW t \in Callers, Enter(t) \/ CallerStep(t) \/ Receive(t) \/ DeadlinePasses(t)
      PROVE  Samples'
  BY <1>2, <1>3, CallerFrame, CallerRest
<1>4. ASSUME NEW k \in Controllers, Begin(k) \/ ControllerStep(k)
      PROVE  Samples'
  <2>1. generation' \in {generation, generation + 1}
    BY <1>4, ControllerRest
  <2>2. CASE UNCHANGED samples
    BY <1>1, <2>1, <2>2 DEF Samples, SamplesAfterReset, NoSample, samples
  <2>3. CASE startSample' = NoSample /\ requestSample' = NoSample /\ resetGen' = generation'
    BY <1>1, <2>1, <2>3 DEF Samples, SamplesAfterReset, NoSample
  <2> QED
    BY <1>4, <2>2, <2>3, ControllerRest
<1>5. ASSUME NEW c \in Children, ChildStep(c)
      PROVE  Samples'
  BY <1>2, <1>5, ChildFrame
<1> QED
  BY <1>3, <1>4, <1>5 DEF Next

LEMMA EpochsNext ==
    ASSUME TransportAssumption, Types, ChildInv, Epochs, Next
    PROVE  Epochs'
<1>1. /\ epoch \in Nat /\ settled \in Nat /\ generation \in Nat
      /\ \A c \in Children : child[c].born \in Nat
      /\ \A t \in Callers : call[t].epoch \in Nat /\ call[t].gen \in Nat
  BY TypesOf DEF ChildRecords, CallRecords
<1>2. ASSUME NEW t \in Callers, Enter(t) \/ CallerStep(t) \/ Receive(t) \/ DeadlinePasses(t)
      PROVE  Epochs'
  <2>1. UNCHANGED <<generation, epoch, settled>> /\ CallerEffect(t)
    BY <1>2, CallerFrame, CallerIs
  <2>2. \A c \in Children : child'[c].born <= epoch
    <3>1. CASE Same
      BY <3>1 DEF Same, Epochs
    <3>2. CASE Aborts(t)
      BY <3>2, Kills DEF Aborts, Epochs
    <3>3. CASE Hears(t) \/ Sends(t)
      BY <3>3 DEF Hears, Sends, Epochs
    <3>4. ASSUME NEW m \in Children, Launches(t, m)
          PROVE  \A c \in Children : child'[c].born <= epoch
      <4>1. child'[m].born = call[t].epoch
            /\ \A c \in Children : c # m => child'[c] = child[c]
        BY <3>4, LaunchingAdds
      <4>2. child'[m].born = call[t].epoch /\ call[t].epoch <= epoch
        BY <4>1, Zenon DEF Epochs
      <4> QED
        BY <4>1, <4>2 DEF Epochs
    <3> QED
      BY <2>1, <3>1, <3>2, <3>3, <3>4 DEF CallerEffect, Enters, Admitted, Marks, Reuses,
         Passes, Quits, Leaves
  <2>3. \A u \in Callers : u # t => call'[u] = call[u]
    BY <2>1, OthersKeep DEF Others
  <2>4. call'[t].epoch <= epoch /\ call'[t].gen <= generation
    <3>1. CASE Request(t) \/ call'[t] = call[t]
      BY <3>1 DEF Request, Epochs
    <3>2. CASE Enters(t) \/ Leaves(t)
      <4>1. call'[t] \in {[NoCall EXCEPT !.epoch = epoch], NoCall}
        BY <3>2 DEF Enters, Leaves
      <4>2. call'[t].epoch \in {0, epoch} /\ call'[t].gen = 0
        BY <4>1, FreshCall
      <4> QED
        BY <1>1, <4>2
    <3>3. CASE Marks(t)
      BY <1>1, <3>3 DEF Marks, Epochs
    <3>4. CASE Reuses(t) \/ \E m \in Children : Launches(t, m)
      BY <3>4 DEF Reuses, Launches, Epochs
    <3> QED
      BY <2>1, <3>1, <3>2, <3>3, <3>4 DEF CallerEffect, Admitted, Passes, Quits, Aborts,
         Hears, Sends
  <2> QED
    BY <2>1, <2>2, <2>3, <2>4 DEF Epochs
<1>3. ASSUME NEW k \in Controllers, Begin(k) \/ ControllerStep(k)
      PROVE  Epochs'
  <2>1. \A c \in Children : child'[c].born = child[c].born
    BY <1>3, ControllerIs, Kills DEF Same
  <2>2. /\ call' = call /\ epoch' \in {epoch, epoch + 1} /\ settled' \in {settled, epoch}
        /\ generation' \in {generation, generation + 1}
    BY <1>3, ControllerFrame, ControllerRest
  <2> QED
    BY <1>1, <2>1, <2>2 DEF Epochs
<1>4. ASSUME NEW c \in Children, ChildStep(c)
      PROVE  Epochs'
  <2>1. \A d \in Children : child'[d].born = child[d].born
    BY <1>4, ChildIs DEF Dies, Takes, Speaks, Answers, Fails, OnlyOf
  <2>2. UNCHANGED <<call, epoch, settled, generation>>
    BY <1>4, ChildFrame
  <2> QED
    BY <2>1, <2>2 DEF Epochs
<1> QED
  BY <1>2, <1>3, <1>4 DEF Next

-----------------------------------------------------------------------------
(* The lock of a request *)

(* The steps of a call within its request. *)
Within(t) ==
    \/ Marks(t) \/ Reuses(t) \/ Passes(t) \/ Quits(t) \/ Aborts(t) \/ Hears(t) \/ Sends(t)
    \/ \E c \in Children : Launches(t, c)

LEMMA WithinIs ==
    ASSUME NEW t \in Callers, Within(t)
    PROVE  /\ pc[t] \notin Outside /\ pc'[t] \notin Outside \union {"admitted"}
           /\ Others(t) /\ UNCHANGED <<lock, cancelEvent>>
           /\ call'[t].epoch = call[t].epoch
<1>1. /\ pc[t] \in {"admitted", "leaving"} \union BeforeSend \union Exchanging
      /\ pc'[t] \in {"leaving"} \union BeforeSend \union Exchanging
  BY SMTT(40) DEF Within, Marks, Reuses, Passes, Quits, Aborts, Hears, Sends, Launches, BeforeSend,
     Exchanging, Blocked
<1>2. /\ Others(t) /\ UNCHANGED <<lock, cancelEvent>>
      /\ call'[t].epoch = call[t].epoch
  BY DEF Within, Marks, Reuses, Passes, Quits, Aborts, Hears, Sends, Launches, Request
<1> QED
  BY <1>1, <1>2, SMTT(40) DEF Outside, BeforeSend, Exchanging, Blocked

LEMMA LockNext ==
    ASSUME TransportAssumption, Types, ChildInv, LockInv, Next
    PROVE  LockInv'
<1>1. Free \notin Callers
  BY DEF TransportAssumption, Free
<1>2. ASSUME NEW t \in Callers, Enter(t) \/ CallerStep(t) \/ Receive(t) \/ DeadlinePasses(t)
      PROVE  LockInv'
  <2>1. CallerEffect(t)
    BY <1>2, CallerIs
  <2>2. CASE Enters(t)
    <3>1. /\ pc[t] \in Outside /\ pc'[t] \in Outside /\ lock' = lock
          /\ \A u \in Callers : u # t => pc'[u] = pc[u]
      BY <2>2 DEF Enters, Others, Outside
    <3> QED
      BY <3>1 DEF LockInv
  <2>3. CASE Admitted(t)
    <3>1. /\ pc'[t] \notin Outside /\ lock = Free /\ lock' = t
          /\ \A u \in Callers : u # t => pc'[u] = pc[u]
      BY <2>3 DEF Admitted, Others, Outside
    <3> QED
      BY <1>1, <3>1 DEF LockInv
  <2>4. CASE Leaves(t)
    <3>1. /\ pc[t] \notin Outside /\ pc'[t] \in Outside /\ lock' = Free
          /\ \A u \in Callers : u # t => pc'[u] = pc[u]
      BY <2>4 DEF Leaves, Others, Outside
    <3> QED
      BY <1>1, <3>1 DEF LockInv
  <2>5. CASE Within(t)
    <3>1. /\ pc[t] \notin Outside /\ pc'[t] \notin Outside /\ lock' = lock
          /\ \A u \in Callers : u # t => pc'[u] = pc[u]
      BY <2>5, WithinIs DEF Others
    <3> QED
      BY <3>1 DEF LockInv
  <2> QED
    BY <2>1, <2>2, <2>3, <2>4, <2>5 DEF CallerEffect, Within
<1>3. ASSUME NEW k \in Controllers, Begin(k) \/ ControllerStep(k)
      PROVE  LockInv'
  BY <1>3, ControllerFrame DEF LockInv
<1>4. ASSUME NEW c \in Children, ChildStep(c)
      PROVE  LockInv'
  BY <1>4, ChildFrame DEF LockInv
<1> QED
  BY <1>2, <1>3, <1>4 DEF Next

(* While one call is within its request, the others have not begun theirs. *)
LEMMA OneInside ==
    ASSUME LockInv, NEW t \in Callers, pc[t] \notin Outside
    PROVE  \A u \in Callers : u # t => pc[u] \in Outside
BY DEF LockInv

-----------------------------------------------------------------------------
(* The child that runs is _process *)

Untouched(c) ==
    child[c].born = 0 /\ pipe[c] = [open |-> FALSE, down |-> <<>>, up |-> <<>>]
Current ==
    /\ \A c \in Children :
         /\ child[c].state \in {"starting", "idle", "busy"} => c = process /\ pipe[c].open
         /\ child[c].state = "unused" => Untouched(c)
         /\ child[c].state = "busy" => pipe[c].down # <<>>
    /\ process # None => child[process].state # "unused"
Referred(t) ==
    /\ call[t].child # None => child[call[t].child].state # "unused"
                               /\ process \in {None, call[t].child}
    /\ pc[t] \in Outside \union {"admitted", "start"} => call[t].child = None
    /\ pc[t] \in (BeforeSend \ {"start"}) \union Exchanging => call[t].child # None

References == \A t \in Callers : Referred(t)

LEMMA ChildInvIs == Types => (ChildInv <=> Current /\ References)
BY AliveIs DEF ChildInv, Current, References, Referred, Untouched

LEMMA ChildInvParts ==
    ASSUME Types, ChildInv
    PROVE  Current /\ \A t \in Callers : Referred(t)
BY ChildInvIs DEF References

LEMMA CurrentSame ==
    ASSUME Current, Same PROVE Current'
BY DEF Current, Same, Untouched

LEMMA CurrentKilled ==
    ASSUME TransportAssumption, Types, Current, Terminate PROVE Current'
<1>1. /\ process' = None
      /\ \A c \in Children :
                /\ child'[c].state = IF c = process THEN "dead" ELSE child[c].state
                /\ c # process => child'[c] = child[c] /\ pipe'[c] = pipe[c]
  BY Kills
<1>2. ASSUME NEW c \in Children
      PROVE  /\ child'[c].state \in {"starting", "idle", "busy"} => c = process' /\ pipe'[c].open
             /\ child'[c].state = "unused" => Untouched(c)'
             /\ child'[c].state = "busy" => pipe'[c].down # <<>>
  <2>1. CASE c = process
    BY <1>1, <2>1
  <2>2. CASE c # process
    BY <1>1, <2>2 DEF Current, Untouched
  <2> QED
    BY <2>1, <2>2
<1> QED
  BY <1>1, <1>2 DEF Current

LEMMA CurrentCaller ==
    ASSUME TransportAssumption, Types, ChildInv, NEW t \in Callers, CallerEffect(t)
    PROVE  Current'
<1>1. Current
  BY ChildInvParts
<1>2. CASE Same
  BY <1>1, <1>2, CurrentSame
<1>3. CASE Aborts(t)
  BY <1>1, <1>3, CurrentKilled DEF Aborts
<1> DEFINE m == call[t].child
<1>4. CASE Hears(t)
  <2>1. /\ m \in Children /\ pipe'[m].open = pipe[m].open /\ pipe'[m].down = pipe[m].down
        /\ \A c \in Children : c # m => pipe'[c] = pipe[c]
        /\ child' = child /\ process' = process
    BY <1>4, HearingTakes, Zenon DEF Hears
  <2>2. child[m].state # "unused"
    BY <2>1, SMTT(40) DEF ChildInv, Children, None
  <2> QED
    BY <1>1, <2>1, <2>2, SMTT(40) DEF Current, Untouched
<1>5. CASE Sends(t)
  <2>1. /\ m \in Children /\ pipe'[m].open = pipe[m].open
        /\ pipe'[m].down = Append(pipe[m].down, call[t].id) /\ Alive(m)
        /\ \A c \in Children : c # m => pipe'[c] = pipe[c]
        /\ child' = child /\ process' = process
    BY <1>5, SendingPuts, ZenonT(40) DEF Sends
  <2>2. child[m].state # "unused" /\ pipe'[m].down # <<>>
    <3>1. pipe[m].down \in Seq(Nat) /\ call[t].id \in Nat
      BY <2>1, TypesOf DEF PipeRecords, CallRecords
    <3>2. Append(pipe[m].down, call[t].id) # <<>>
      BY <3>1
    <3> QED
      BY <2>1, <3>2, AliveIs, Zenon
  <2> QED
    BY <1>1, <2>1, <2>2, ZenonT(40) DEF Current, Untouched
<1>6. ASSUME NEW c \in Children, Launches(t, c)
      PROVE  Current'
  <2>1. /\ c # None /\ process' = c /\ child'[c].state = "starting"
        /\ pipe'[c].open
        /\ \A d \in Children : d # c => child'[d] = child[d] /\ pipe'[d] = pipe[d]
    BY <1>6, LaunchingAdds
  <2>2. \A d \in Children : child[d].state \notin {"starting", "idle", "busy"}
    <3>1. ~Alive(process)
      BY <1>6 DEF Launches
    <3> QED
      BY <1>1, <3>1, AliveIs DEF Current
  <2> QED
    BY <1>1, <2>1, <2>2 DEF Current, Untouched
<1> QED
  BY <1>2, <1>3, <1>4, <1>5, <1>6 DEF CallerEffect, Enters, Admitted, Marks, Reuses, Passes,
     Quits, Leaves

LEMMA CurrentChild ==
    ASSUME Types, ChildInv, NEW c \in Children, ChildStep(c)
    PROVE  Current'
<1>1. Current /\ process' = process
  BY ChildInvParts, ChildFrame
<1>2. Alive(c) /\ child[c].state \in {"starting", "idle", "busy"} /\ OnlyOf(c)
      /\ child'[c].state # "unused"
      /\ (child'[c].state = "busy" => pipe'[c].down # <<>>)
  BY ChildIs, AliveIs DEF Dies, Takes, Speaks, Answers, Fails
<1>3. /\ c = process /\ pipe'[c].open
      /\ \A d \in Children : d # c => child'[d] = child[d] /\ pipe'[d] = pipe[d]
  BY <1>1, <1>2 DEF Current, OnlyOf
<1> QED
  BY <1>1, <1>2, <1>3 DEF Current, Untouched

(* No step puts a child back among those never started. *)
LEMMA UsedNext ==
    ASSUME TransportAssumption, Types, ChildInv, Next, NEW c \in Children,
           child[c].state # "unused"
    PROVE  child'[c].state # "unused"
<1>1. ASSUME NEW t \in Callers, Enter(t) \/ CallerStep(t) \/ Receive(t) \/ DeadlinePasses(t)
      PROVE  child'[c].state # "unused"
  <2>1. CallerEffect(t)
    BY <1>1, CallerIs
  <2>2. CASE Aborts(t)
    BY <2>2, Kills DEF Aborts
  <2>3. ASSUME NEW m \in Children, Launches(t, m)
        PROVE  child'[c].state # "unused"
    BY <2>3, LaunchingAdds
  <2>4. CASE child' = child
    BY <2>4
  <2> QED
    BY <2>1, <2>2, <2>3, <2>4 DEF CallerEffect, Enters, Admitted, Marks, Reuses, Passes, Quits,
       Hears, Sends, Leaves, Same
<1>2. ASSUME NEW k \in Controllers, Begin(k) \/ ControllerStep(k)
      PROVE  child'[c].state # "unused"
  BY <1>2, ControllerIs, Kills DEF Same
<1>3. ASSUME NEW d \in Children, ChildStep(d)
      PROVE  child'[c].state # "unused"
  <2>1. OnlyOf(d) /\ child'[d].state # "unused"
    BY <1>3, ChildIs DEF Dies, Takes, Speaks, Answers, Fails
  <2> QED
    BY <2>1 DEF OnlyOf
<1> QED
  BY <1>1, <1>2, <1>3, SMTT(40) DEF Next

LEMMA ReferredNext ==
    ASSUME TransportAssumption, Types, ChildInv, LockInv, Next, NEW u \in Callers
    PROVE  Referred(u)'
<1>1. Referred(u) /\ Current /\ call[u].child \in Children \union {None}
  BY ChildInvParts, TypesOf DEF CallRecords
<1>2. \A c \in Children : child[c].state # "unused" => child'[c].state # "unused"
  BY UsedNext
<1>3. CASE /\ pc'[u] = pc[u] /\ call'[u] = call[u] /\ process' \in {None, process}
  BY <1>1, <1>2, <1>3 DEF Referred
<1>4. ASSUME NEW t \in Callers, Enter(t) \/ CallerStep(t) \/ Receive(t) \/ DeadlinePasses(t), u # t
      PROVE  Referred(u)'
  <2>1. CallerEffect(t)
    BY <1>4, CallerIs, Zenon
  <2>2. pc'[u] = pc[u] /\ call'[u] = call[u]
    BY <1>4, <2>1, OthersKeep DEF Others
  <2>3. CASE Same
    BY <1>3, <2>2, <2>3 DEF Same
  <2>4. CASE Within(t)
    <3>1. pc[u] \in Outside
      BY <1>4, <2>4, WithinIs, OneInside
    <3> QED
      BY <1>1, <2>2, <3>1 DEF Referred, Outside, BeforeSend, Exchanging, Blocked
  <2> QED
    BY <2>1, <2>3, <2>4 DEF CallerEffect, Within, Enters, Admitted, Leaves
<1>5. ASSUME Enter(u) \/ CallerStep(u) \/ Receive(u) \/ DeadlinePasses(u)
      PROVE  Referred(u)'
  <2> DEFINE m == call[u].child
  <2>1. CallerEffect(u)
    BY <1>5, CallerIs
  <2>2. CASE Enters(u) \/ Leaves(u)
    <3>1. pc'[u] \in Outside /\ call'[u].child = None
      BY <2>2, FreshCall DEF Enters, Leaves, Outside
    <3> QED
      BY <3>1 DEF Referred, Outside, BeforeSend, Exchanging, Blocked
  <2>3. CASE Admitted(u) \/ Marks(u)
    <3>1. m = None
      BY <1>1, <2>3 DEF Admitted, Marks, Referred, Outside
    <3>2. call'[u].child = None /\ pc'[u] \in {"admitted", "start"}
      BY <2>3, <3>1 DEF Admitted, Marks
    <3> QED
      BY <3>2 DEF Referred, BeforeSend, Exchanging, Blocked
  <2>4. CASE Reuses(u)
    <3>1. /\ call'[u].child = process /\ process' = process /\ child' = child
          /\ pc'[u] = "started" /\ process # None /\ child[process].state # "unused"
      BY <2>4 DEF Reuses, Same, Alive
    <3> QED
      BY <3>1 DEF Referred, Outside
  <2>5. ASSUME NEW c \in Children, Launches(u, c)
        PROVE  Referred(u)'
    <3>1. /\ call'[u].child = c /\ process' = c /\ child'[c].state = "starting"
          /\ pc'[u] = "waiting" /\ c # None
      BY <2>5, LaunchingAdds DEF Launches
    <3> QED
      BY <3>1 DEF Referred, Outside
  <2>6. CASE Passes(u) \/ Quits(u) \/ Aborts(u) \/ Hears(u) \/ Sends(u)
    <3>1. call'[u].child = m /\ process' \in {None, process}
      BY <2>6 DEF Passes, Quits, Aborts, Hears, Sends, Request, Same, Terminate
    <3>2. \/ pc'[u] = "leaving"
          \/ /\ pc[u] \in (BeforeSend \ {"start"}) \union Exchanging
             /\ pc'[u] \in (BeforeSend \ {"start"}) \union Exchanging
      BY <2>6 DEF Passes, Quits, Aborts, Hears, Sends, BeforeSend, Exchanging, Blocked
    <3> QED
      BY <1>1, <1>2, <3>1, <3>2 DEF Referred, Outside, BeforeSend, Exchanging, Blocked
  <2> QED
    BY <2>1, <2>2, <2>3, <2>4, <2>5, <2>6 DEF CallerEffect
<1>6. ASSUME NEW k \in Controllers, Begin(k) \/ ControllerStep(k)
      PROVE  Referred(u)'
  <2>1. pc' = pc /\ call' = call /\ process' \in {None, process}
    BY <1>6, ControllerFrame, ControllerIs DEF Same, Terminate
  <2> QED
    BY <1>3, <2>1
<1>7. ASSUME NEW c \in Children, ChildStep(c)
      PROVE  Referred(u)'
  BY <1>3, <1>7, ChildFrame
<1> QED
  BY <1>4, <1>5, <1>6, <1>7 DEF Next

LEMMA ChildInvNext ==
    ASSUME TransportAssumption, Types, ChildInv, LockInv, Next
    PROVE  ChildInv'
<1>1. Types' /\ References'
  BY TypesNext, ReferredNext DEF References
<1>2. Current'
  <2>1. Current
    BY ChildInvParts
  <2>2. ASSUME NEW k \in Controllers, Begin(k) \/ ControllerStep(k)
        PROVE  Current'
    BY <2>1, <2>2, ControllerIs, CurrentSame, CurrentKilled
  <2> QED
    BY <2>2, CallerIs, CurrentCaller, CurrentChild DEF Next
<1>3. (Types /\ Current /\ References)' => ChildInv'
  BY ChildInvIs, PTL
<1> QED
  BY <1>1, <1>2, <1>3

-----------------------------------------------------------------------------
(* How much a pipe may hold *)

Before == \E t \in Callers : pc[t] \in BeforeSend
Fresh(c) == child[c].state \in {"unused", "starting"}
One(b) == IF b THEN 1 ELSE 0
Held(c) == Len(pipe[c].down) + Len(pipe[c].up)
Room(c) == Held(c) + (One(Fresh(c)) + One(Before)) <= requests + 1

LEMMA PipeInvIs == Types => (PipeInv <=> \A c \in Children : Room(c))
<1> SUFFICES ASSUME Types PROVE PipeInv <=> \A c \in Children : Room(c)
  OBVIOUS
<1>1. ASSUME NEW c \in Children
      PROVE  (Len(pipe[c].down) + Len(pipe[c].up) + SendsLeft(c) <= requests + 1) <=> Room(c)
  <2>1. /\ Len(pipe[c].down) \in Nat /\ Len(pipe[c].up) \in Nat
        /\ SendsLeft(c) = One(Fresh(c)) + One(Before)
    <3>1. pipe[c] \in PipeRecords
      BY TypesOf
    <3>2. pipe[c].down \in Seq(Nat) /\ pipe[c].up \in Seq([kind : Kinds, id : Nat])
      BY <3>1 DEF PipeRecords
    <3> QED
      BY <3>2 DEF SendsLeft, One, Fresh, Before
  <2> QED
    BY <2>1 DEF Room, Held
<1> QED
  BY <1>1 DEF PipeInv

(* The parts of the bound are numbers. *)
LEMMA HeldTypes ==
    ASSUME Types, NEW c \in Children
    PROVE  /\ pipe[c].down \in Seq(Nat) /\ pipe[c].up \in Seq([kind : Kinds, id : Nat])
           /\ Len(pipe[c].down) \in Nat /\ Len(pipe[c].up) \in Nat /\ Held(c) \in Nat
<1>1. pipe[c] \in PipeRecords
  BY TypesOf
<1>2. pipe[c].down \in Seq(Nat) /\ pipe[c].up \in Seq([kind : Kinds, id : Nat])
  BY <1>1 DEF PipeRecords
<1>3. Len(pipe[c].down) \in Nat /\ Len(pipe[c].up) \in Nat
  BY <1>2
<1>4. Held(c) \in Nat
  <2>1. \A a, b \in Nat : a + b \in Nat
    OBVIOUS
  <2> QED
    BY <1>3, <2>1, Zenon DEF Held
<1> QED
  BY <1>2, <1>3, <1>4

(* A sequence grows by one element and shrinks by one. *)
LEMMA Lengths ==
    ASSUME NEW S, NEW s \in Seq(S), NEW e \in S
    PROVE  /\ Append(s, e) \in Seq(S) /\ Len(Append(s, e)) = Len(s) + 1
           /\ s # <<>> => Len(Tail(s)) = Len(s) - 1
OBVIOUS

(* The room of a child of which nothing grew. *)
LEMMA RoomKept ==
    ASSUME Types, NEW c \in Children, Room(c), Held(c)' \in Nat, Held(c)' <= Held(c),
           Fresh(c)' => Fresh(c), Before' => Before, requests' = requests
    PROVE  Room(c)'
<1>1. /\ One(Fresh(c))' \in {0, 1} /\ One(Before)' \in {0, 1}
      /\ One(Fresh(c)) \in {0, 1} /\ One(Before) \in {0, 1}
      /\ One(Fresh(c))' <= One(Fresh(c)) /\ One(Before)' <= One(Before)
  BY DEF One
<1>2. requests \in Nat /\ Held(c) \in Nat
  BY TypesOf, HeldTypes
<1>3. \A h, g, f, e, b, a, r \in Nat :
        h + (f + b) <= r + 1 /\ g <= h /\ e <= f /\ a <= b => g + (e + a) <= r + 1
  OBVIOUS
<1> QED
  BY <1>1, <1>2, <1>3 DEF Room

LEMMA BeforeNext ==
    ASSUME NEW t \in Callers, CallerEffect(t), ~Marks(t)
    PROVE  (Before' => Before) /\ requests' = requests
<1>1. /\ pc'[t] \in BeforeSend => pc[t] \in BeforeSend
      /\ \A u \in Callers : u # t => pc'[u] = pc[u]
      /\ requests' = requests
  BY DEF CallerEffect, Enters, Admitted, Reuses, Passes, Quits, Aborts, Hears, Sends, Leaves,
     Launches, Others, BeforeSend
<1>2. \A u \in Callers : pc'[u] \in BeforeSend => pc[u] \in BeforeSend
  BY <1>1
<1> QED
  BY <1>1, <1>2, SMTT(40) DEF Before

LEMMA HeldSame == ASSUME NEW c, pipe'[c].down = pipe[c].down, pipe'[c].up = pipe[c].up
                  PROVE  Held(c)' = Held(c)
BY DEF Held

LEMMA FreshSame == ASSUME NEW c, child'[c].state = child[c].state PROVE Fresh(c)' = Fresh(c)
BY DEF Fresh

LEMMA RoomCaller ==
    ASSUME TransportAssumption, Types, ChildInv, LockInv, NEW t \in Callers, CallerEffect(t),
           NEW c \in Children, Room(c)
    PROVE  Room(c)'
<1>1. Held(c) \in Nat
  BY HeldTypes
<1> DEFINE m == call[t].child
<1>2. CASE Same /\ ~Marks(t)
  <2>1. Held(c)' = Held(c) /\ Fresh(c)' = Fresh(c)
    BY <1>2, HeldSame, FreshSame DEF Same
  <2> QED
    BY <1>1, <1>2, <2>1, BeforeNext, RoomKept
<1>3. CASE Marks(t)
  <2>1. Held(c)' = Held(c) /\ Fresh(c)' = Fresh(c)
    BY <1>3, HeldSame, FreshSame DEF Marks, Same
  <2>2. /\ One(Fresh(c)) \in {0, 1} /\ One(Before) \in {0, 1} /\ One(Before)' \in {0, 1}
        /\ One(Fresh(c))' = One(Fresh(c))
    BY <2>1 DEF One
  <2>3. requests \in Nat /\ requests' = requests + 1
    BY <1>3, TypesOf DEF Marks
  <2>4. \A h, f, b, a, r \in Nat :
          h + (f + b) <= r + 1 /\ a <= 1 => h + (f + a) <= (r + 1) + 1
    OBVIOUS
  <2>5. One(Before)' <= 1
    BY <2>2
  <2> QED
    BY <1>1, <2>1, <2>2, <2>3, <2>4, <2>5 DEF Room
<1>4. CASE Aborts(t)
  <2>1. ~Marks(t)
    BY <1>4 DEF Aborts, Marks
  <2>2. /\ pipe'[c].down = pipe[c].down /\ pipe'[c].up = pipe[c].up
        /\ child'[c].state \in {"dead", child[c].state}
    BY <1>4, Kills DEF Aborts
  <2>3. Held(c)' = Held(c) /\ (Fresh(c)' => Fresh(c))
    BY <2>2, HeldSame DEF Fresh
  <2> QED
    BY <1>1, <2>1, <2>3, BeforeNext, RoomKept
<1>5. CASE Hears(t)
  <2>1. ~Marks(t) /\ Fresh(c)' = Fresh(c)
    BY <1>5, FreshSame DEF Hears, Marks
  <2>2. /\ m \in Children /\ pipe[m].up # <<>>
        /\ pipe'[m].down = pipe[m].down /\ pipe'[m].up = Tail(pipe[m].up)
        /\ \A d \in Children : d # m => pipe'[d] = pipe[d]
    BY <1>5, HearingTakes
  <2>3. CASE c # m
    <3>1. Held(c)' = Held(c)
      BY <2>2, <2>3, HeldSame
    <3> QED
      BY <1>1, <2>1, <3>1, BeforeNext, RoomKept
  <2>4. CASE c = m
    <3>1. /\ pipe[c].up # <<>>
          /\ pipe'[c].down = pipe[c].down /\ pipe'[c].up = Tail(pipe[c].up)
      BY <2>2, <2>4
    <3>2. /\ Len(Tail(pipe[c].up)) = Len(pipe[c].up) - 1
          /\ Len(pipe[c].up) \in Nat /\ Len(pipe[c].down) \in Nat
          /\ Len(Tail(pipe[c].up)) \in Nat
      <4>1. pipe[c].up \in Seq([kind : Kinds, id : Nat]) /\ Len(pipe[c].down) \in Nat
        BY HeldTypes
      <4>2. Tail(pipe[c].up) \in Seq([kind : Kinds, id : Nat])
            /\ Len(Tail(pipe[c].up)) = Len(pipe[c].up) - 1 /\ Len(pipe[c].up) \in Nat
        BY <3>1, <4>1, FirstAndRest
      <4>3. Len(Tail(pipe[c].up)) \in Nat
        BY <4>2
      <4> QED
        BY <4>1, <4>2, <4>3
    <3>3. Held(c)' = Len(pipe[c].down) + Len(Tail(pipe[c].up))
      BY <3>1 DEF Held
    <3>4. \A a, b, x \in Nat : x = b - 1 => a + x \in Nat /\ a + x <= a + b
      OBVIOUS
    <3>5. Held(c)' \in Nat /\ Held(c)' <= Held(c)
      BY <3>2, <3>3, <3>4, Zenon DEF Held
    <3> QED
      BY <1>1, <2>1, <3>5, <1>5, BeforeNext, RoomKept DEF CallerEffect
  <2> QED
    BY <2>3, <2>4
<1>6. CASE Sends(t)
  <2>1. ~Marks(t) /\ Fresh(c)' = Fresh(c) /\ requests' = requests
    BY <1>6, FreshSame DEF Sends, Marks
  <2>2. Before /\ ~Before'
    <3>1. pc[t] \in BeforeSend /\ pc[t] \notin Outside /\ pc'[t] \notin BeforeSend
          /\ \A u \in Callers : u # t => pc'[u] = pc[u]
      BY <1>6 DEF Sends, BeforeSend, Outside, Others
    <3>2. \A u \in Callers : u # t => pc[u] \in Outside
      BY <3>1, OneInside
    <3>3. \A u \in Callers : pc'[u] \notin BeforeSend
      BY <3>1, <3>2 DEF Outside, BeforeSend
    <3> QED
      BY <3>1, <3>3 DEF Before
  <2>3. /\ m \in Children /\ call[t].id \in Nat
        /\ pipe'[m].down = Append(pipe[m].down, call[t].id) /\ pipe'[m].up = pipe[m].up
        /\ \A d \in Children : d # m => pipe'[d] = pipe[d]
    BY <1>6, SendingPuts
  <2>4. CASE c # m
    <3>1. Held(c)' = Held(c)
      BY <2>3, <2>4, HeldSame
    <3> QED
      BY <1>1, <2>1, <3>1, BeforeNext, RoomKept
  <2>5. CASE c = m
    <3>1. /\ Len(Append(pipe[c].down, call[t].id)) = Len(pipe[c].down) + 1
          /\ Len(pipe[c].up) \in Nat /\ Len(pipe[c].down) \in Nat
      BY <2>3, HeldTypes, Lengths
    <3>2. Held(c)' = (Len(pipe[c].down) + 1) + Len(pipe[c].up)
      BY <2>3, <2>5, <3>1 DEF Held
    <3>3. \A a, b \in Nat : (a + 1) + b = (a + b) + 1
      OBVIOUS
    <3>4. Held(c)' = Held(c) + 1
      BY <3>1, <3>2, <3>3, Zenon DEF Held
    <3>5. One(Before) = 1 /\ One(Before)' = 0 /\ One(Fresh(c)) \in {0, 1}
          /\ One(Fresh(c))' = One(Fresh(c))
      BY <2>1, <2>2 DEF One
    <3>6. \A h, f, r \in Nat : h + (f + 1) <= r + 1 => (h + 1) + (f + 0) <= r + 1
      OBVIOUS
    <3>7. requests \in Nat
      BY TypesOf
    <3>8. Held(c)' + (One(Fresh(c))' + One(Before)') <= requests' + 1
      BY <1>1, <2>1, <3>4, <3>5, <3>6, <3>7 DEF Room
    <3> QED
      BY <3>8, SMTT(40) DEF Room
  <2> QED
    BY <2>4, <2>5
<1>7. ASSUME NEW k \in Children, Launches(t, k)
      PROVE  Room(c)'
  <2>1. ~Marks(t)
    BY <1>7 DEF Launches, Marks
  <2>2. /\ pipe'[c].down = pipe[c].down /\ pipe'[c].up = pipe[c].up
        /\ child[k].state = "unused" /\ (c # k => child'[c] = child[c])
    BY <1>7, LaunchingAdds
  <2>3. Held(c)' = Held(c) /\ (Fresh(c)' => Fresh(c))
    BY <2>2, HeldSame DEF Fresh
  <2> QED
    BY <1>1, <2>1, <2>3, BeforeNext, RoomKept
<1> QED
  BY <1>2, <1>3, <1>4, <1>5, <1>6, <1>7 DEF CallerEffect, Enters, Admitted, Reuses, Passes,
     Quits, Leaves

LEMMA RoomChild ==
    ASSUME Types, ChildInv, NEW d \in Children, ChildStep(d), NEW c \in Children, Room(c)
    PROVE  Room(c)'
<1>1. /\ (Before' => Before) /\ requests' = requests /\ Held(c) \in Nat
      /\ Dies(d) \/ Takes(d) \/ Speaks(d) \/ Answers(d) \/ Fails(d)
  BY ChildFrame, ChildIs, HeldTypes DEF Before
<1>2. CASE c # d
  <2>1. child'[c] = child[c] /\ pipe'[c] = pipe[c]
    BY <1>1, <1>2 DEF Dies, Takes, Speaks, Answers, Fails, OnlyOf
  <2>2. Held(c)' = Held(c) /\ Fresh(c)' = Fresh(c)
    BY <2>1, HeldSame, FreshSame
  <2> QED
    BY <1>1, <2>2, RoomKept
<1>3. CASE c = d /\ (Dies(d) \/ Takes(d))
  <2>1. pipe' = pipe /\ child'[c].state \in {"dead", "busy"}
    BY <1>3 DEF Dies, Takes
  <2>2. Held(c)' = Held(c) /\ ~Fresh(c)'
    BY <2>1, HeldSame DEF Fresh
  <2> QED
    BY <1>1, <2>2, RoomKept
<1>4. CASE c = d /\ Speaks(d)
  <2>1. PICK e \in [kind : Kinds, id : Nat] : pipe'[c].up = Append(pipe[c].up, e)
    <3>1. /\ Message("ready", 0) \in [kind : Kinds, id : Nat]
          /\ Message("fatal", 0) \in [kind : Kinds, id : Nat]
      BY DEF Message, Kinds
    <3> QED
      BY <1>4, <3>1 DEF Speaks
  <2>2. /\ Fresh(c) /\ ~Fresh(c)' /\ pipe'[c].down = pipe[c].down
    BY <1>4 DEF Speaks, Fresh
  <2>3. Len(Append(pipe[c].up, e)) = Len(pipe[c].up) + 1
        /\ Len(pipe[c].up) \in Nat /\ Len(pipe[c].down) \in Nat
    BY HeldTypes, Lengths
  <2>4. Held(c)' = Len(pipe[c].down) + (Len(pipe[c].up) + 1)
    BY <2>1, <2>2, <2>3 DEF Held
  <2>5. \A a, b \in Nat : a + (b + 1) = (a + b) + 1
    OBVIOUS
  <2>6. Held(c)' = Held(c) + 1
    BY <2>3, <2>4, <2>5, Zenon DEF Held
  <2>7. /\ One(Fresh(c)) = 1 /\ One(Fresh(c))' = 0
        /\ One(Before) \in {0, 1} /\ One(Before)' \in {0, 1} /\ One(Before)' <= One(Before)
    BY <1>1, <2>2 DEF One
  <2>8. \A h, a, b, r \in Nat :
          h + (1 + b) <= r + 1 /\ a <= b => (h + 1) + (0 + a) <= r + 1
    OBVIOUS
  <2>9. requests \in Nat
    BY TypesOf
  <2>10. Held(c)' + (One(Fresh(c))' + One(Before)') <= requests' + 1
    BY <1>1, <2>6, <2>7, <2>8, <2>9 DEF Room
  <2> QED
    BY <2>10 DEF Room
<1>5. CASE c = d /\ (Answers(d) \/ Fails(d))
  <2>1. PICK e \in [kind : Kinds, id : Nat] :
          /\ pipe[c].down # <<>> /\ pipe'[c].down = Tail(pipe[c].down)
          /\ pipe'[c].up = Append(pipe[c].up, e)
    <3>1. CASE Answers(d)
      <4>1. PICK kind \in {"ok", "error"} :
              /\ pipe[c].down # <<>> /\ pipe'[c].down = Tail(pipe[c].down)
              /\ pipe'[c].up = Append(pipe[c].up, Message(kind, Head(pipe[c].down)))
        BY <1>5, <3>1 DEF Answers
      <4>2. Head(pipe[c].down) \in Nat
        BY <4>1, HeldTypes, FirstAndRest
      <4>3. Message(kind, Head(pipe[c].down)) \in [kind : Kinds, id : Nat]
        BY <4>2 DEF Message, Kinds
      <4> QED
        BY <4>1, <4>3
    <3>2. CASE Fails(d)
      <4>1. Message("fatal", 0) \in [kind : Kinds, id : Nat]
        BY DEF Message, Kinds
      <4> QED
        BY <1>5, <3>2, <4>1 DEF Fails
    <3> QED
      BY <1>5, <3>1, <3>2
  <2>2. /\ pipe[c].down \in Seq(Nat) /\ pipe[c].up \in Seq([kind : Kinds, id : Nat])
        /\ Len(pipe[c].up) \in Nat
    BY HeldTypes
  <2>3. /\ Len(Tail(pipe[c].down)) = Len(pipe[c].down) - 1
        /\ Len(pipe[c].down) \in Nat /\ Tail(pipe[c].down) \in Seq(Nat)
    BY <2>1, <2>2, FirstAndRest
  <2>5. Len(Append(pipe[c].up, e)) = Len(pipe[c].up) + 1
    BY <2>2, Lengths
  <2>6. Held(c)' = Len(Tail(pipe[c].down)) + (Len(pipe[c].up) + 1)
    BY <2>1, <2>5 DEF Held
  <2>7. Len(Tail(pipe[c].down)) \in Nat
    BY <2>3
  <2>8. \A a, b, x \in Nat : x = a - 1 => x + (b + 1) = a + b
    OBVIOUS
  <2>9. Held(c)' = Held(c)
    BY <2>2, <2>3, <2>6, <2>7, <2>8, Zenon DEF Held
  <2>10. ~Fresh(c)'
    BY <1>5 DEF Answers, Fails, Fresh
  <2> QED
    BY <1>1, <2>9, <2>10, RoomKept
<1> QED
  BY <1>1, <1>2, <1>3, <1>4, <1>5

LEMMA RoomController ==
    ASSUME TransportAssumption, Types, NEW k \in Controllers, Begin(k) \/ ControllerStep(k),
           NEW c \in Children, Room(c)
    PROVE  Room(c)'
<1>1. /\ (Before' => Before) /\ requests' = requests /\ Held(c) \in Nat
  BY ControllerFrame, HeldTypes DEF Before
<1>2. CASE Same
  <2>1. Held(c)' = Held(c) /\ Fresh(c)' = Fresh(c)
    BY <1>2, HeldSame, FreshSame DEF Same
  <2> QED
    BY <1>1, <2>1, RoomKept
<1>3. CASE Terminate
  <2>1. /\ pipe'[c].down = pipe[c].down /\ pipe'[c].up = pipe[c].up
        /\ child'[c].state \in {"dead", child[c].state}
    BY <1>3, Kills
  <2>2. Held(c)' = Held(c) /\ (Fresh(c)' => Fresh(c))
    BY <2>1, HeldSame DEF Fresh
  <2> QED
    BY <1>1, <2>2, RoomKept
<1> QED
  BY <1>2, <1>3, ControllerIs

Rooms == \A c \in Children : Room(c)

LEMMA PipesAre == Types => (PipeInv <=> Rooms)
BY PipeInvIs DEF Rooms

LEMMA PipeInvNext ==
    ASSUME TransportAssumption, Types, ChildInv, LockInv, PipeInv, Next
    PROVE  PipeInv'
<1>1. Rooms
  BY PipesAre
<1>2. Rooms'
  <2>1. ASSUME NEW c \in Children PROVE Room(c)'
    <3>1. Room(c)
      BY <1>1 DEF Rooms
    <3>2. ASSUME NEW t \in Callers, Enter(t) \/ CallerStep(t) \/ Receive(t) \/ DeadlinePasses(t)
          PROVE  Room(c)'
      BY <3>1, <3>2, CallerIs, RoomCaller
    <3>3. ASSUME NEW k \in Controllers, Begin(k) \/ ControllerStep(k)
          PROVE  Room(c)'
      BY <3>1, <3>3, RoomController
    <3>4. ASSUME NEW d \in Children, ChildStep(d)
          PROVE  Room(c)'
      BY <3>1, <3>4, RoomChild
    <3> QED
      BY <3>2, <3>3, <3>4 DEF Next
  <2> QED
    BY <2>1 DEF Rooms
<1>3. Types'
  BY TypesNext
<1>4. (Types /\ Rooms)' => PipeInv'
  BY PipesAre, PTL
<1> QED
  BY <1>2, <1>3, <1>4

(* The bounds of TypeOK are what is left of these. *)
LEMMA BoundsFrom ==
    Types /\ Samples /\ Epochs /\ PipeInv => Bounds
<1> SUFFICES ASSUME Types, Samples, Epochs, PipeInv PROVE Bounds
  OBVIOUS
<1>1. ASSUME NEW c \in Children
      PROVE  Len(pipe[c].down) + Len(pipe[c].up) <= requests + 1
  <2>1. Held(c) + (One(Fresh(c)) + One(Before)) <= requests + 1
    BY PipesAre DEF Rooms, Room
  <2>2. One(Fresh(c)) \in {0, 1} /\ One(Before) \in {0, 1} /\ Held(c) \in Nat
        /\ requests \in Nat
    BY HeldTypes, TypesOf DEF One
  <2>3. Held(c) <= requests + 1
    BY <2>1, <2>2
  <2> QED
    BY <2>3 DEF Held
<1> QED
  BY <1>1 DEF Bounds, Samples, Epochs

-----------------------------------------------------------------------------
(* The engine's use of the transport *)

(* What a teardown does to the engine's side. *)
LEMMA BeginIs ==
    ASSUME Engine, Types, NEW k \in Controllers, Begin(k)
    PROVE  /\ \A j \in Controllers : op[j] = NoOp /\ (j # k => op'[j] = NoOp)
           /\ \/ epoch' = epoch + 1
              \/ epoch' = epoch /\ phase' = phase /\ \A t \in Callers : pc[t] = "idle"
           /\ phase' # "running" /\ UNCHANGED <<cancelEvent, settled, pc, call>> /\ Same
<1>1. PICK name \in Ops :
        /\ MayBegin(name)
        /\ op' = [op EXCEPT ![k].name = name]
        /\ epoch' = IF name = "close" /\ Engine THEN epoch ELSE epoch + 1
        /\ phase' = CASE name = "reset"  -> "resetting"
                      [] name = "cancel" -> "stopping"
                      [] name = "close"  -> phase
  BY DEF Begin
<1>2. \A j \in Controllers : op[j] = NoOp
  BY <1>1 DEF MayBegin
<1>3. \A j \in Controllers : j # k => op'[j] = NoOp
  BY <1>1, <1>2, TypesOf
<1>4. CASE name = "close"
  <2>1. phase = "stopping" /\ \A t \in Callers : pc[t] = "idle"
    BY <1>1, <1>4 DEF MayBegin
  <2>2. epoch' = epoch /\ phase' = phase
    BY <1>1, <1>4
  <2> QED
    BY <1>2, <1>3, <2>1, <2>2 DEF Begin, Same, core
<1>5. CASE name # "close"
  <2>1. name \in {"reset", "cancel"}
    BY <1>5 DEF Ops
  <2>2. epoch' = epoch + 1 /\ phase' \in {"resetting", "stopping"}
    BY <1>1, <1>5, <2>1
  <2> QED
    BY <1>2, <1>3, <2>2 DEF Begin, Same, core
<1> QED
  BY <1>4, <1>5

LEMMA SignalIs ==
    ASSUME Types, NEW k \in Controllers, Signal(k)
    PROVE  /\ op[k] # NoOp /\ \A j \in Controllers : j # k => op'[j] = op[j]
           /\ UNCHANGED <<epoch, settled, phase, pc, call>> /\ Same
<1>1. op[k].name \in Ops /\ op' = [op EXCEPT ![k].signalled = TRUE]
  BY DEF Signal
<1>2. op[k] # NoOp
  BY <1>1 DEF Ops, NoOp
<1>3. \A j \in Controllers : j # k => op'[j] = op[j]
  BY <1>1, TypesOf
<1> QED
  BY <1>2, <1>3 DEF Signal, Same, core, engine

LEMMA TeardownIs ==
    ASSUME Types, NEW k \in Controllers, Cancel(k) \/ Reset(k) \/ Close(k)
    PROVE  /\ op[k] # NoOp /\ op'[k] = NoOp /\ \A j \in Controllers : j # k => op'[j] = op[j]
           /\ UNCHANGED <<epoch, cancelEvent, pc, call>>
           /\ \/ UNCHANGED <<settled, phase>> /\ (Terminate \/ Same)
              \/ settled' = epoch /\ phase' = "running" /\ Terminate
<1>1. op[k].name \in Ops /\ op' = [op EXCEPT ![k] = NoOp]
  BY DEF Cancel, Reset, Close, Locked, Settle, Ops
<1>2. op[k] # NoOp
  BY <1>1 DEF Ops, NoOp
<1>3. op'[k] = NoOp /\ \A j \in Controllers : j # k => op'[j] = op[j]
  BY <1>1, TypesOf
<1> QED
  BY <1>2, <1>3 DEF Cancel, Reset, Close, Settle, Same, core, engine

LEMMA PhaseNext ==
    ASSUME TransportAssumption, Types, ChildInv, Epochs, PhaseInv, Next
    PROVE  PhaseInv'
<1> SUFFICES ASSUME Engine PROVE PhaseInv'
  BY DEF PhaseInv
<1> USE DEF PhaseInv
<1>1. ASSUME NEW t \in Callers, Enter(t) \/ CallerStep(t) \/ Receive(t) \/ DeadlinePasses(t)
      PROVE  PhaseInv'
  <2>1. UNCHANGED <<op, epoch, settled, phase>> /\ CallerEffect(t)
    BY <1>1, CallerFrame, CallerIs
  <2>2. CASE Enters(t)
    <3>1. /\ phase = "running" /\ pc'[t] \in Outside /\ UNCHANGED cancelEvent
          /\ \A u \in Callers : u # t => pc'[u] = pc[u] /\ call'[u] = call[u]
      BY <2>2 DEF Enters, Others, Outside
    <3> QED
      BY <2>1, <3>1
  <2>3. CASE Admitted(t)
    <3>1. /\ pc[t] # "idle" /\ call'[t] = call[t] /\ ~cancelEvent'
          /\ \A u \in Callers : u # t => pc'[u] = pc[u] /\ call'[u] = call[u]
      BY <2>3 DEF Admitted, Others
    <3> QED
      BY <2>1, <3>1
  <2>4. CASE Leaves(t)
    <3>1. /\ pc'[t] = "idle" /\ pc'[t] \in Outside /\ UNCHANGED cancelEvent
          /\ \A u \in Callers : u # t => pc'[u] = pc[u] /\ call'[u] = call[u]
      BY <2>4 DEF Leaves, Others, Outside
    <3> QED
      BY <2>1, <3>1
  <2>5. CASE Within(t)
    <3>1. /\ pc[t] \notin Outside /\ pc[t] # "idle" /\ UNCHANGED cancelEvent
          /\ call'[t].epoch = call[t].epoch
          /\ \A u \in Callers : u # t => pc'[u] = pc[u] /\ call'[u] = call[u]
      BY <2>5, WithinIs DEF Others, Outside
    <3> QED
      BY <2>1, <3>1
  <2> QED
    BY <2>1, <2>2, <2>3, <2>4, <2>5 DEF CallerEffect, Within
<1>2. ASSUME NEW k \in Controllers, Begin(k)
      PROVE  PhaseInv'
  <2>1. /\ \A j \in Controllers : op[j] = NoOp /\ (j # k => op'[j] = NoOp)
        /\ \/ epoch' = epoch + 1
           \/ epoch' = epoch /\ phase' = phase /\ \A t \in Callers : pc[t] = "idle"
        /\ phase' # "running" /\ UNCHANGED <<cancelEvent, settled, pc, call>>
    BY <1>2, BeginIs
  <2>2. \A t \in Callers : pc'[t] # "idle" => call'[t].epoch < epoch'
    <3>1. ASSUME NEW t \in Callers, epoch' = epoch + 1 PROVE call'[t].epoch < epoch'
      <4>1. call'[t] = call[t] /\ call[t].epoch \in Nat /\ epoch \in Nat
            /\ call[t].epoch <= epoch
        BY <2>1, TypesOf DEF CallRecords, Epochs
      <4> QED
        BY <3>1, <4>1
    <3> QED
      BY <2>1, <3>1
  <2>3. \A t \in Callers : pc'[t] \notin Outside => call'[t].epoch < epoch'
    BY <2>2 DEF Outside
  <2> QED
    BY <2>1, <2>2, <2>3
<1>3. ASSUME NEW k \in Controllers, Signal(k)
      PROVE  PhaseInv'
  <2>1. /\ op[k] # NoOp /\ \A j \in Controllers : j # k => op'[j] = op[j]
        /\ UNCHANGED <<epoch, settled, phase, pc, call>>
    BY <1>3, SignalIs
  <2>2. \A j \in Controllers : op'[j] # NoOp => op[j] # NoOp
    BY <2>1
  <2>3. phase # "running" /\ \A t \in Callers : pc'[t] \notin Outside => call'[t].epoch < epoch'
    BY <2>1 DEF Outside
  <2> QED
    BY <2>1, <2>2, <2>3
<1>4. ASSUME NEW k \in Controllers, Cancel(k) \/ Reset(k) \/ Close(k)
      PROVE  PhaseInv'
  <2>1. /\ op[k] # NoOp /\ op'[k] = NoOp /\ \A j \in Controllers : j # k => op'[j] = op[j]
        /\ UNCHANGED <<epoch, cancelEvent, pc, call>>
        /\ \/ UNCHANGED <<settled, phase>>
           \/ settled' = epoch /\ phase' = "running"
    BY <1>4, TeardownIs
  <2>2. \A j \in Controllers : op'[j] = NoOp
    BY <2>1
  <2> QED
    BY <2>1, <2>2
<1>5. ASSUME NEW c \in Children, ChildStep(c)
      PROVE  PhaseInv'
  BY <1>5, ChildFrame
<1> QED
  BY <1>1, <1>2, <1>3, <1>4, <1>5 DEF Next, ControllerStep

-----------------------------------------------------------------------------
(* A child belongs to one epoch *)

(* A call that is not cancelled is of the newest epoch, whose teardown has    *)
(* returned.                                                                  *)
LEMMA UncancelledIsNew ==
    ASSUME Engine, Types, Epochs, PhaseInv, NEW t \in Callers, pc[t] # "idle", ~Cancelled(t)
    PROVE  call[t].epoch = epoch /\ settled = epoch
<1>1. call[t].epoch = epoch
  <2>1. ~(call[t].epoch < epoch) /\ call[t].epoch <= epoch
    BY DEF Cancelled, EventSet, Epochs
  <2>2. call[t].epoch \in Nat /\ epoch \in Nat
    BY TypesOf DEF CallRecords
  <2> QED
    BY <2>1, <2>2
<1>2. phase = "running"
  <2>1. ~(call[t].epoch < epoch)
    BY DEF Cancelled, EventSet
  <2> QED
    BY <2>1 DEF PhaseInv
<1> QED
  BY <1>1, <1>2 DEF PhaseInv

(* A child is started once, and only then is it given its epoch.              *)
LEMMA ChildrenNext ==
    ASSUME TransportAssumption, Types, ChildInv, Next, NEW c \in Children
    PROVE  \/ /\ child'[c].born = child[c].born
              /\ child'[c].state \in {"starting", "idle", "busy"}
                   => child[c].state \in {"starting", "idle", "busy"}
           \/ \E t \in Callers : Launches(t, c)
<1>1. CASE child' = child
  BY <1>1
<1>2. CASE Terminate
  BY <1>2, Kills, SMTT(40)
<1>3. ASSUME NEW t \in Callers, Enter(t) \/ CallerStep(t) \/ Receive(t) \/ DeadlinePasses(t)
      PROVE  \/ child' = child \/ Terminate
             \/ child'[c] = child[c]
             \/ Launches(t, c)
  <2>1. CallerEffect(t)
    BY <1>3, CallerIs
  <2>2. ASSUME NEW m \in Children, Launches(t, m)
        PROVE  child'[c] = child[c] \/ Launches(t, c)
    BY <2>2, LaunchingAdds
  <2> QED
    BY <2>1, <2>2 DEF CallerEffect, Enters, Admitted, Marks, Reuses, Passes, Quits, Aborts,
       Hears, Sends, Leaves, Same
<1>4. ASSUME NEW k \in Controllers, Begin(k) \/ ControllerStep(k)
      PROVE  child' = child \/ Terminate
  BY <1>4, ControllerIs DEF Same
<1>5. ASSUME NEW d \in Children, ChildStep(d)
      PROVE  /\ child'[c].born = child[c].born
             /\ child'[c].state \in {"starting", "idle", "busy"}
                   => child[c].state \in {"starting", "idle", "busy"}
  BY <1>5, ChildIs, AliveIs DEF Dies, Takes, Speaks, Answers, Fails, OnlyOf
<1> QED
  BY <1>1, <1>2, <1>3, <1>4, <1>5 DEF Next

LEMMA BornSame ==
    ASSUME TransportAssumption, Types, ChildInv, Next, NEW c \in Children,
           child[c].state # "unused"
    PROVE  child'[c].born = child[c].born
<1>1. ASSUME NEW t \in Callers, Launches(t, c) PROVE FALSE
  BY <1>1 DEF Launches
<1> QED
  BY <1>1, ChildrenNext

(* A kill leaves no child running. *)
LEMMA NoneLeft ==
    ASSUME TransportAssumption, Types, ChildInv, Terminate
    PROVE  \A c \in Children : child'[c].state \notin {"starting", "idle", "busy"}
<1>1. \A c \in Children : child'[c].state = IF c = process THEN "dead" ELSE child[c].state
  BY Kills
<1>2. Current
  BY ChildInvParts
<1> QED
  BY <1>1, <1>2 DEF Current

Fresher == \A c \in Children : child[c].state \in {"starting", "idle", "busy"}
                                 => child[c].born >= settled

LEMMA FresherIs == Types => (NoObsoleteChild <=> (Engine => Fresher))
BY AliveIs DEF NoObsoleteChild, Fresher

LEMMA FresherNext ==
    ASSUME Engine, TransportAssumption, Types, ChildInv, Epochs, PhaseInv, Fresher, Next
    PROVE  Fresher'
<1>1. ASSUME NEW c \in Children, child'[c].state \in {"starting", "idle", "busy"}
      PROVE  child'[c].born >= settled'
  <2>1. CASE settled' = settled
    <3>1. ASSUME NEW t \in Callers, Launches(t, c) PROVE child'[c].born >= settled
      <4>1. child'[c].born = call[t].epoch
        BY <3>1, LaunchingAdds
      <4>2. call[t].epoch = epoch
        BY <3>1, UncancelledIsNew DEF Launches
      <4>3. epoch \in Nat /\ settled \in Nat /\ settled <= epoch
        BY TypesOf DEF Epochs
      <4> QED
        BY <4>1, <4>2, <4>3
    <3> QED
      BY <1>1, <2>1, <3>1, ChildrenNext DEF Fresher
  <2>2. CASE settled' # settled
    <3>1. \E k \in Controllers : Begin(k) \/ ControllerStep(k)
      BY <2>2, CallerFrame, ChildFrame DEF Next
    <3>2. Terminate
      BY <2>2, <3>1, BeginIs, SignalIs, TeardownIs DEF ControllerStep
    <3> QED
      BY <1>1, <3>2, NoneLeft
  <2> QED
    BY <2>1, <2>2
<1> QED
  BY <1>1 DEF Fresher

OfEpoch(t) == call[t].child # None => child[call[t].child].born = call[t].epoch

LEMMA OfEpochNext ==
    ASSUME Engine, TransportAssumption, Types, ChildInv, LockInv, Epochs, PhaseInv, Fresher,
           Next, NEW u \in Callers, OfEpoch(u)
    PROVE  OfEpoch(u)'
<1>1. call[u].child # None =>
        /\ call[u].child \in Children /\ child[call[u].child].state # "unused"
        /\ child'[call[u].child].born = child[call[u].child].born
  <2>1. call[u].child \in Children \union {None}
    BY TypesOf DEF CallRecords
  <2> QED
    BY <2>1, BornSame DEF ChildInv
<1>2. CASE call'[u].child = call[u].child /\ call'[u].epoch = call[u].epoch
  BY <1>1, <1>2 DEF OfEpoch
<1>3. ASSUME NEW t \in Callers, Enter(t) \/ CallerStep(t) \/ Receive(t) \/ DeadlinePasses(t)
      PROVE  OfEpoch(u)'
  <2>1. CallerEffect(t)
    BY <1>3, CallerIs
  <2>2. CASE u # t
    <3>1. call'[u] = call[u]
      BY <2>1, <2>2, OthersKeep DEF Others
    <3> QED
      BY <1>2, <3>1, SMTT(40)
  <2>3. CASE u = t /\ (Enters(t) \/ Leaves(t))
    <3>1. call'[u].child = None
      BY <2>3, FreshCall DEF Enters, Leaves
    <3> QED
      BY <3>1 DEF OfEpoch
  <2>4. CASE u = t /\ (Admitted(t) \/ Marks(t) \/ Passes(t) \/ Quits(t) \/ Aborts(t)
                       \/ Hears(t) \/ Sends(t))
    BY <1>2, <2>4 DEF Admitted, Marks, Passes, Quits, Aborts, Hears, Sends, Request
  <2>5. CASE u = t /\ Reuses(t)
    <3>1. /\ call'[u].child = process /\ call'[u].epoch = call[u].epoch /\ child' = child
          /\ Alive(process) /\ process \in Children
      BY <2>5, TypesOf DEF Reuses, Same, Alive
    <3>2. call[u].epoch = epoch /\ settled = epoch
      BY <2>5, UncancelledIsNew DEF Reuses
    <3>3. child[process].born >= settled /\ child[process].born <= epoch
      BY <3>1, AliveIs DEF Fresher, Epochs
    <3>4. child[process].born \in Nat /\ epoch \in Nat
      BY <3>1, TypesOf DEF ChildRecords
    <3>5. child[process].born = epoch
      BY <3>2, <3>3, <3>4
    <3> QED
      BY <3>1, <3>2, <3>5 DEF OfEpoch
  <2>6. ASSUME NEW c \in Children, Launches(t, c), u = t PROVE OfEpoch(u)'
    <3>1. /\ call'[u].child = c /\ call'[u].epoch = call[u].epoch
          /\ child'[c].born = call[u].epoch
      BY <2>6, LaunchingAdds DEF Launches
    <3> QED
      BY <3>1 DEF OfEpoch
  <2> QED
    BY <2>1, <2>2, <2>3, <2>4, <2>5, <2>6 DEF CallerEffect
<1>4. ASSUME NEW k \in Controllers, Begin(k) \/ ControllerStep(k)
      PROVE  OfEpoch(u)'
  BY <1>2, <1>4, ControllerFrame
<1>5. ASSUME NEW c \in Children, ChildStep(c)
      PROVE  OfEpoch(u)'
  BY <1>2, <1>5, ChildFrame
<1> QED
  BY <1>3, <1>4, <1>5 DEF Next

-----------------------------------------------------------------------------
(* The child of a request is where the request is *)

Live == {"starting", "idle", "busy"}
Ready == {"started", "checking", "owning", "send"}
GivenUp(t, c) ==
    \/ child[c].state \notin Live
    \/ call[t].outcome \in {"ok", "error"} /\ Drained(c)
    \/ call[t].outcome = "cancelled" /\ call[t].epoch < epoch
ExchangeAt(t, c) ==
    /\ pc[t] = "waiting" => Starting(c)
    /\ pc[t] \in Ready /\ child[c].state \in Live => Drained(c)
    /\ pc[t] \in Exchanging => Asked(c, call[t].id)
    /\ pc[t] = "leaving" => GivenUp(t, c)
ExchangeOf(t) ==
    /\ call[t].child # None => ExchangeAt(t, call[t].child)
    /\ call[t].outcome = "mismatch" => pc[t] = "leaving"
Rests(c) == child[c].state \in Live /\ child[c].born = epoch => Drained(c)
Exchanges == \A t \in Callers : ExchangeOf(t)
Rest == (\A t \in Callers : call[t].child = None) => \A c \in Children : Rests(c)

LEMMA AliveOf ==
    ASSUME Types, NEW t \in Callers, call[t].child # None
    PROVE  /\ call[t].child \in Children
           /\ Alive(call[t].child) <=> child[call[t].child].state \in Live
<1>1. call[t].child \in Children \union {None}
  BY TypesOf DEF CallRecords
<1> QED
  BY <1>1, AliveIs DEF Live

LEMMA ExchangeIs == Types /\ ChildInv => (ExchangeInv <=> (Engine => Exchanges /\ Rest))
<1> SUFFICES ASSUME Types, ChildInv PROVE ExchangeInv <=> (Engine => Exchanges /\ Rest)
  OBVIOUS
<1> DEFINE Of(t) ==
             LET c == call[t].child IN
             /\ pc[t] = "waiting" => Starting(c)
             /\ pc[t] \in {"started", "checking", "owning", "send"} /\ Alive(c) => Drained(c)
             /\ pc[t] \in Exchanging => Asked(c, call[t].id)
             /\ pc[t] = "leaving" /\ c # None => Abandoned(t)
             /\ call[t].outcome = "mismatch" => pc[t] = "leaving"
<1>1. ASSUME NEW t \in Callers PROVE Of(t) <=> ExchangeOf(t)
  <2>1. CASE call[t].child = None
    <3>1. ~Alive(call[t].child) /\ pc[t] # "waiting" /\ pc[t] \notin Exchanging
      <4>1. pc[t] \notin (BeforeSend \ {"start"}) \union Exchanging
        BY <2>1 DEF ChildInv
      <4> QED
        BY <2>1, <4>1 DEF Alive, BeforeSend
    <3> QED
      BY <2>1, <3>1 DEF ExchangeOf
  <2>2. CASE call[t].child # None
    <3>1. Abandoned(t) <=> GivenUp(t, call[t].child)
      BY <2>2, AliveOf DEF Abandoned, GivenUp
    <3> QED
      BY <2>2, <3>1, AliveOf DEF ExchangeOf, ExchangeAt, Ready
  <2> QED
    BY <2>1, <2>2
<1>2. \A c \in Children : Idle(c) <=> Rests(c)
  BY AliveIs DEF Idle, Rests, Live
<1> QED
  BY <1>1, <1>2 DEF ExchangeInv, Exchanges, Rest

(* The sequences a pipe goes through. *)
LEMMA Singles ==
    ASSUME NEW e
    PROVE  /\ Append(<<>>, e) = <<e>> /\ Tail(<<e>>) = <<>> /\ Head(<<e>>) = e
           /\ <<e>> # <<>>
OBVIOUS

(* A step that changes nothing of the exchange. *)
LEMMA ExchangeKept ==
    ASSUME NEW u \in Callers, ExchangeOf(u), Same, epoch' = epoch, call'[u] = call[u],
           pc'[u] = pc[u]
    PROVE  ExchangeOf(u)'
BY DEF ExchangeOf, ExchangeAt, GivenUp, Starting, Drained, Asked, Same

LEMMA ExchangeOutside ==
    ASSUME NEW u \in Callers, call'[u].child = None,
           call'[u].outcome = "mismatch" => pc'[u] = "leaving"
    PROVE  ExchangeOf(u)'
BY DEF ExchangeOf

(* A call that quits has a dead child, or is of an epoch that is over. *)
LEMMA QuitsGivesUp ==
    ASSUME Engine, Types, ChildInv, PhaseInv, UNCHANGED epoch, NEW t \in Callers,
           ExchangeOf(t), Quits(t)
    PROVE  ExchangeOf(t)'
<1>1. /\ pc'[t] = "leaving" /\ call'[t].child = call[t].child /\ child' = child
      /\ call'[t].epoch = call[t].epoch
      /\ call'[t].outcome \in {"cancelled", "broken", "exited", "handle"}
  BY DEF Quits, Request, Same
<1>2. CASE call[t].child = None
  BY <1>1, <1>2 DEF ExchangeOf
<1>3. ASSUME NEW c, c = call[t].child, c # None
      PROVE  ExchangeOf(t)'
  <2>1. c \in Children /\ pc[t] # "start" /\ Current
        /\ (Alive(c) <=> child[c].state \in Live)
    BY <1>3, AliveOf, ChildInvParts DEF ChildInv
  <2>2. pc[t] \notin Outside
    BY DEF Quits, BeforeSend, Exchanging, Blocked, Outside
  <2>3. child[c].state \notin Live \/ (call'[t].outcome = "cancelled" /\ call[t].epoch < epoch)
    <3>1. CASE call'[t].outcome = "cancelled" /\ Cancelled(t)
      BY <2>2, <3>1 DEF Cancelled, EventSet, PhaseInv
    <3>2. CASE ~pipe[c].open \/ ~Alive(c) \/ process # c
      BY <2>1, <3>2 DEF Current, Live
    <3> QED
      BY <1>3, <2>1, <3>1, <3>2 DEF Quits
  <2>4. GivenUp(t, c)'
    BY <1>1, <2>3 DEF GivenUp
  <2>5. ExchangeAt(t, c)'
    BY <1>1, <2>4 DEF ExchangeAt, Ready, Exchanging, Blocked
  <2> QED
    BY <1>1, <1>3, <2>5 DEF ExchangeOf
<1> QED
  BY <1>2, <1>3

LEMMA AbortsGivesUp ==
    ASSUME TransportAssumption, Types, ChildInv, NEW t \in Callers, ExchangeOf(t), Aborts(t)
    PROVE  ExchangeOf(t)'
<1>1. /\ pc'[t] = "leaving" /\ call'[t].child = call[t].child /\ Terminate
  BY DEF Aborts, Request
<1>2. ASSUME NEW c, c = call[t].child, c # None
      PROVE  ExchangeAt(t, c)'
  <2>1. c \in Children
    BY <1>2, AliveOf
  <2>2. child'[c].state \notin Live
    BY <1>1, <2>1, NoneLeft DEF Live
  <2> QED
    BY <1>1, <2>2 DEF ExchangeAt, GivenUp, Ready, Exchanging, Blocked
<1> QED
  BY <1>1, <1>2 DEF ExchangeOf

LEMMA HearsAnswer ==
    ASSUME Engine, Types, ChildInv, PhaseInv, UNCHANGED epoch, NEW t \in Callers,
           ExchangeOf(t), Hears(t)
    PROVE  ExchangeOf(t)'
<1> SUFFICES ASSUME NEW c, c = call[t].child PROVE ExchangeOf(t)'
  OBVIOUS
<1>1. /\ c \in Children /\ pipe[c].up # <<>> /\ pipe'[c].down = pipe[c].down
      /\ pipe'[c].up = Tail(pipe[c].up) /\ child' = child /\ c # None
      /\ call'[t].child = c /\ call'[t].id = call[t].id /\ call'[t].epoch = call[t].epoch
  <2>1. /\ c \in Children /\ pipe[c].up # <<>> /\ pipe'[c].down = pipe[c].down
        /\ pipe'[c].up = Tail(pipe[c].up)
    BY HearingTakes
  <2>2. /\ child' = child /\ call'[t].child = c /\ call'[t].id = call[t].id
        /\ call'[t].epoch = call[t].epoch
    BY DEF Hears, Request
  <2>3. c # None
    BY <2>1 DEF Children, None
  <2> QED
    BY <2>1, <2>2, <2>3
<1>2. ExchangeAt(t, c)
  BY <1>1 DEF ExchangeOf
<1>3. CASE pc[t] = "waiting"
  <2>1. Starting(c)
    BY <1>2, <1>3 DEF ExchangeAt
  <2>2. CASE pc'[t] = "started" /\ call'[t].outcome = call[t].outcome
    <3>1. child[c].state = "idle" => pipe[c].up = <<Message("ready", 0)>>
      BY <2>1 DEF Starting
    <3>2. child'[c].state \in Live => Drained(c)'
      <4>1. child[c].state \in Live => child[c].state = "idle"
        BY <1>1, <2>1 DEF Starting, Live
      <4>2. child[c].state = "idle" => Tail(pipe[c].up) = <<>>
        BY <3>1, Singles
      <4> QED
        BY <1>1, <2>1, <4>1, <4>2 DEF Drained, Starting
    <3>3. ExchangeAt(t, c)'
      BY <1>1, <1>2, <2>2, <3>2 DEF ExchangeAt, Ready, Exchanging, Blocked
    <3>4. call[t].outcome # "mismatch"
      BY <1>3 DEF ExchangeOf
    <3> QED
      BY <1>1, <2>2, <3>3, <3>4 DEF ExchangeOf
  <2>3. CASE pc'[t] = "leaving" /\ call'[t].outcome = "cancelled" /\ cancelEvent
    <3>1. call[t].epoch < epoch
      BY <1>3, <2>3 DEF PhaseInv, Outside
    <3>2. ExchangeAt(t, c)'
      BY <1>1, <2>3, <3>1 DEF ExchangeAt, GivenUp, Ready, Exchanging, Blocked
    <3> QED
      BY <1>1, <2>3, <3>2 DEF ExchangeOf
  <2> QED
    BY <1>3, <2>2, <2>3 DEF Hears
<1>4. CASE pc[t] = "receiving"
  <2>1. Asked(c, call[t].id)
    BY <1>2, <1>4, SMTT(40) DEF ExchangeAt, Exchanging, Blocked
  <2>2. CASE pipe[c].down = <<>> /\ child[c].state = "dead"
    <3>1. child[c].state \notin Live /\ pc'[t] = "leaving"
      BY <1>4, <2>2 DEF Live, Hears
    <3>2. ExchangeAt(t, c)'
      BY <1>1, <3>1 DEF ExchangeAt, GivenUp, Ready, Exchanging, Blocked
    <3> QED
      BY <1>1, <3>1, <3>2 DEF ExchangeOf
  <2>3. ASSUME NEW kind \in {"ok", "error"}, pipe[c].down = <<>>,
               child[c].state \in {"idle", "dead"}, pipe[c].up = <<Message(kind, call[t].id)>>
        PROVE  ExchangeOf(t)'
    <3>1. Head(pipe[c].up) = Message(kind, call[t].id) /\ Tail(pipe[c].up) = <<>>
      BY <2>3, Singles
    <3>2. pc'[t] = "leaving" /\ call'[t].outcome = kind
      <4>1. Message(kind, call[t].id).id = call[t].id /\ Message(kind, call[t].id).kind = kind
        BY DEF Message
      <4> QED
        BY <1>4, <3>1, <4>1 DEF Hears
    <3>3. GivenUp(t, c)'
      BY <1>1, <2>3, <3>1, <3>2 DEF GivenUp, Drained, Live
    <3>4. ExchangeAt(t, c)'
      BY <3>2, <3>3 DEF ExchangeAt, Ready, Exchanging, Blocked
    <3> QED
      BY <1>1, <3>2, <3>4 DEF ExchangeOf
  <2> QED
    BY <1>1, <2>1, <2>2, <2>3 DEF Asked
<1> QED
  BY <1>3, <1>4 DEF Hears

LEMMA SendsRequest ==
    ASSUME Types, ChildInv, NEW t \in Callers, ExchangeOf(t), Sends(t)
    PROVE  ExchangeOf(t)'
<1> SUFFICES ASSUME NEW c, c = call[t].child PROVE ExchangeOf(t)'
  OBVIOUS
<1>1. /\ c \in Children /\ Alive(c) /\ c # None
      /\ pipe'[c].up = pipe[c].up /\ child' = child
      /\ pipe'[c].down = Append(pipe[c].down, call[t].id)
      /\ call'[t].child = c /\ call'[t].id = call[t].id
      /\ call'[t].outcome = call[t].outcome /\ pc[t] = "send" /\ pc'[t] \in {"sending", "loop"}
  <2>1. /\ c \in Children /\ Alive(c) /\ pipe'[c].up = pipe[c].up
        /\ pipe'[c].down = Append(pipe[c].down, call[t].id)
    BY SendingPuts
  <2>2. /\ child' = child /\ call'[t].child = c /\ call'[t].id = call[t].id
        /\ call'[t].outcome = call[t].outcome /\ pc[t] = "send"
        /\ pc'[t] \in {"sending", "loop"}
    BY DEF Sends, Request
  <2>3. c # None
    BY <2>1 DEF Children, None
  <2> QED
    BY <2>1, <2>2, <2>3
<1>2. ExchangeAt(t, c)
  BY <1>1 DEF ExchangeOf
<1>3. Drained(c)
  BY <1>1, <1>2, AliveIs DEF ExchangeAt, Ready, Live
<1>4. pipe'[c].down = <<call[t].id>> /\ pipe'[c].up = <<>> /\ child'[c].state # "starting"
  BY <1>1, <1>3, Singles DEF Drained
<1>5. ExchangeAt(t, c)'
  BY <1>1, <1>4 DEF ExchangeAt, Asked, Ready
<1>6. call[t].outcome # "mismatch"
  BY <1>1 DEF ExchangeOf
<1> QED
  BY <1>1, <1>5, <1>6 DEF ExchangeOf

LEMMA PassesOn ==
    ASSUME Types, ChildInv, UNCHANGED epoch, NEW t \in Callers, ExchangeOf(t), Passes(t)
    PROVE  ExchangeOf(t)'
<1> SUFFICES ASSUME NEW c, c = call[t].child PROVE ExchangeOf(t)'
  OBVIOUS
<1>1. /\ call'[t].child = call[t].child /\ call'[t].id = call[t].id
      /\ call'[t].outcome = call[t].outcome /\ child' = child /\ pipe' = pipe
      /\ \/ pc[t] \in Ready /\ pc'[t] \in Ready
         \/ pc[t] \in Exchanging /\ pc'[t] \in Exchanging
  BY DEF Passes, Request, Same, Ready, Exchanging, Blocked
<1>2. ExchangeAt(t, c) => ExchangeAt(t, c)'
  BY <1>1 DEF ExchangeAt, Ready, Exchanging, Blocked, Drained, Asked
<1>3. call[t].outcome # "mismatch"
  <2>1. pc[t] # "leaving"
    BY <1>1 DEF Ready, Exchanging, Blocked
  <2> QED
    BY <2>1 DEF ExchangeOf
<1> QED
  BY <1>1, <1>2, <1>3 DEF ExchangeOf

(* Nobody has a child while a call stands at its start. *)
LEMMA NoneHeld ==
    ASSUME ChildInv, LockInv, NEW t \in Callers, pc[t] = "start"
    PROVE  \A u \in Callers : call[u].child = None
<1>1. \A u \in Callers : u # t => pc[u] \in Outside
  BY OneInside DEF Outside
<1>2. \A u \in Callers : pc[u] \in Outside \union {"admitted", "start"}
  BY <1>1
<1> QED
  BY <1>2 DEF ChildInv

LEMMA ReusesIdle ==
    ASSUME Engine, TransportAssumption, Types, ChildInv, LockInv, Epochs, PhaseInv, Fresher,
           Rest, NEW t \in Callers, ExchangeOf(t), Reuses(t)
    PROVE  ExchangeOf(t)'
<1>1. /\ pc[t] = "start" /\ pc'[t] = "started" /\ ~Cancelled(t) /\ Alive(process)
      /\ child' = child /\ pipe' = pipe /\ process' = process
      /\ call'[t].child = process /\ call'[t].outcome = call[t].outcome
  BY DEF Reuses, Same
<1>2. process \in Children /\ child[process].state \in Live
  BY <1>1, TypesOf DEF Alive, Live
<1>3. settled = epoch
  BY <1>1, UncancelledIsNew
<1>4. child[process].born = epoch
  <2>1. child[process].born \in Nat /\ epoch \in Nat
    BY <1>2, TypesOf DEF ChildRecords
  <2>2. child[process].born >= settled /\ child[process].born <= epoch
    BY <1>2 DEF Fresher, Epochs, Live
  <2> QED
    BY <1>3, <2>1, <2>2
<1>5. Drained(process)
  BY <1>1, <1>2, <1>4, NoneHeld DEF Rest, Rests
<1>6. Drained(process)'
  BY <1>1, <1>5 DEF Drained
<1>7. ExchangeAt(t, process)'
  BY <1>1, <1>6 DEF ExchangeAt, Exchanging, Blocked
<1> QED
  BY <1>1, <1>7 DEF ExchangeOf

LEMMA LaunchesStarting ==
    ASSUME Types, ChildInv, NEW t \in Callers, NEW c \in Children, ExchangeOf(t), Launches(t, c)
    PROVE  ExchangeOf(t)'
<1>1. /\ pc'[t] = "waiting" /\ call'[t].child = c /\ call'[t].outcome = call[t].outcome
      /\ child[c].state = "unused" /\ child'[c].state = "starting"
      /\ pipe'[c].down = pipe[c].down /\ pipe'[c].up = pipe[c].up
  BY LaunchingAdds DEF Launches
<1>2. pipe[c].down = <<>> /\ pipe[c].up = <<>>
  BY <1>1 DEF ChildInv
<1>3. Starting(c)'
  BY <1>1, <1>2 DEF Starting
<1>4. ExchangeAt(t, c)'
  BY <1>1, <1>3 DEF ExchangeAt, Ready, Exchanging, Blocked
<1>5. call[t].outcome # "mismatch"
  <2>1. pc[t] = "start"
    BY DEF Launches
  <2> QED
    BY <2>1 DEF ExchangeOf
<1> QED
  BY <1>1, <1>4, <1>5 DEF ExchangeOf

LEMMA ExchangeCaller ==
    ASSUME Engine, TransportAssumption, Types, ChildInv, LockInv, Epochs, PhaseInv, Fresher,
           Exchanges, Rest, NEW t \in Callers,
           Enter(t) \/ CallerStep(t) \/ Receive(t) \/ DeadlinePasses(t), NEW u \in Callers
    PROVE  ExchangeOf(u)'
<1>1. CallerEffect(t) /\ epoch' = epoch /\ ExchangeOf(t) /\ ExchangeOf(u)
  BY CallerIs, CallerFrame DEF Exchanges
<1>2. CASE u # t
  <2>1. pc'[u] = pc[u] /\ call'[u] = call[u]
    BY <1>1, <1>2, OthersKeep DEF Others
  <2>2. CASE Same
    BY <1>1, <2>1, <2>2, ExchangeKept
  <2>3. CASE Within(t)
    <3>1. pc[u] \in Outside
      BY <1>2, <2>3, WithinIs, OneInside
    <3>2. call[u].child = None /\ call[u].outcome # "mismatch"
      BY <1>1, <3>1 DEF ChildInv, ExchangeOf, Outside
    <3> QED
      BY <2>1, <3>2, ExchangeOutside
  <2> QED
    BY <1>1, <2>2, <2>3, SMTT(40) DEF CallerEffect, Within, Enters, Admitted, Leaves
<1>3. CASE u = t
  <2>1. CASE Enters(t) \/ Leaves(t)
    <3>1. call'[t].child = None /\ call'[t].outcome = "none"
      BY <2>1, FreshCall DEF Enters, Leaves
    <3> QED
      BY <1>3, <3>1, ExchangeOutside
  <2>2. CASE Admitted(t) \/ Marks(t)
    <3>1. call[t].child = None
      BY <2>2 DEF Admitted, Marks, ChildInv, Outside
    <3>2. call'[t].child = None /\ call'[t].outcome # "mismatch"
      BY <1>1, <2>2, <3>1 DEF Admitted, Marks, ExchangeOf
    <3> QED
      BY <1>3, <3>2, ExchangeOutside
  <2> QED
    BY <1>1, <1>3, <2>1, <2>2, QuitsGivesUp, AbortsGivesUp, HearsAnswer, SendsRequest, PassesOn,
       ReusesIdle, LaunchesStarting DEF CallerEffect
<1> QED
  BY <1>2, <1>3

LEMMA RestCaller ==
    ASSUME Engine, TransportAssumption, Types, ChildInv, LockInv, Epochs, PhaseInv,
           Exchanges, Rest, NEW t \in Callers, OfEpoch(t),
           Enter(t) \/ CallerStep(t) \/ Receive(t) \/ DeadlinePasses(t)
    PROVE  Rest'
<1> SUFFICES ASSUME \A u \in Callers : call'[u].child = None, NEW c \in Children,
                    child'[c].state \in Live, child'[c].born = epoch'
             PROVE  Drained(c)'
  BY DEF Rest, Rests
<1>1. CallerEffect(t) /\ epoch' = epoch /\ ExchangeOf(t)
  BY CallerIs, CallerFrame, SMTT(40) DEF Exchanges
<1>2. \A u \in Callers : u # t => call[u].child = None
  BY <1>1, OthersKeep DEF Others
<1>3. CASE call[t].child = None /\ Same
  <2>1. Rests(c)
    BY <1>2, <1>3 DEF Rest
  <2> QED
    BY <1>1, <1>3, <2>1 DEF Rests, Same, Drained
<1>4. CASE Aborts(t)
  BY <1>4, NoneLeft DEF Aborts, Live
<1>5. CASE Leaves(t) /\ call[t].child # None
  <2>1. /\ call[t].child \in Children /\ process \in {None, call[t].child} /\ Current
        /\ pc[t] = "leaving" /\ child' = child /\ pipe' = pipe
    BY <1>5, AliveOf, ChildInvParts DEF ChildInv, Leaves, Same
  <2>2. c = call[t].child /\ child[c].state \in Live
    <3>1. child[c].state \in Live /\ c # None
      BY <2>1 DEF Children, None
    <3> QED
      BY <2>1, <3>1 DEF Current, Live
  <2>3. GivenUp(t, c)
    BY <1>1, <1>5, <2>1, <2>2 DEF ExchangeOf, ExchangeAt
  <2>4. ~(call[t].epoch < epoch)
    <3>1. child[c].born = call[t].epoch /\ child[c].born = epoch
      BY <1>1, <1>5, <2>1, <2>2 DEF OfEpoch
    <3>2. epoch \in Nat
      BY TypesOf
    <3> QED
      BY <3>1, <3>2
  <2>5. Drained(c)
    BY <2>2, <2>3, <2>4, SMTT(40) DEF GivenUp
  <2> QED
    BY <2>1, <2>5 DEF Drained
<1>6. CASE (Hears(t) \/ Sends(t))
  <2>1. call[t].child # None
    BY <1>6, HearingTakes, SendingPuts DEF Children, None
  <2> QED
    BY <1>6, <2>1 DEF Hears, Sends, Request
<1>7. ASSUME NEW m \in Children, Launches(t, m) PROVE FALSE
  BY <1>7, LaunchingAdds DEF Launches
<1>8. CASE Reuses(t)
  BY <1>8 DEF Reuses, Alive
<1>9. CASE (Enters(t) \/ Admitted(t) \/ Marks(t) \/ Passes(t) \/ Quits(t))
  <2>1. call[t].child = None /\ Same
    BY <1>9 DEF Enters, Admitted, Marks, Passes, Quits, Request, ChildInv, Outside
  <2> QED
    BY <1>3, <2>1
<1>10. CASE Leaves(t) /\ call[t].child = None
  BY <1>3, <1>10 DEF Leaves
<1> QED
  BY <1>1, <1>4, <1>5, <1>6, <1>7, <1>8, <1>9, <1>10 DEF CallerEffect

(* A kill leaves the exchanges where they are: the child of each is dead.     *)
LEMMA ExchangeKilled ==
    ASSUME TransportAssumption, Types, ChildInv, Terminate, epoch' = epoch,
           UNCHANGED <<pc, call>>, NEW u \in Callers, ExchangeOf(u)
    PROVE  ExchangeOf(u)'
<1> SUFFICES ASSUME NEW c, c = call[u].child PROVE ExchangeOf(u)'
  OBVIOUS
<1>1. ASSUME c # None
      PROVE  ExchangeAt(u, c)'
  <2>1. c \in Children /\ child'[c].state \notin Live
    BY <1>1, AliveOf, NoneLeft DEF Live
  <2>2. /\ pipe'[c].down = pipe[c].down /\ pipe'[c].up = pipe[c].up
        /\ child'[c].state = "dead" \/ child'[c].state = child[c].state
    BY <2>1, Kills
  <2>3. ExchangeAt(u, c)
    BY <1>1 DEF ExchangeOf
  <2>4. Starting(c) => Starting(c)'
    BY <2>1, <2>2, SMTT(40) DEF Starting, Live
  <2>5. Asked(c, call[u].id) => Asked(c, call[u].id)'
    <3>1. call'[u].id = call[u].id
      OBVIOUS
    <3>2. child[c].state \in {"idle", "dead"} => child'[c].state \in {"idle", "dead"}
      BY <2>2
    <3>3. child'[c].state # "starting"
      BY <2>1 DEF Live
    <3> QED
      BY <2>2, <3>1, <3>2, <3>3 DEF Asked
  <2> QED
    BY <2>1, <2>3, <2>4, <2>5 DEF ExchangeAt, GivenUp
<1> QED
  BY <1>1 DEF ExchangeOf

LEMMA ExchangeController ==
    ASSUME Engine, TransportAssumption, Types, ChildInv, Epochs, Exchanges, Rest,
           NEW k \in Controllers, Begin(k) \/ ControllerStep(k)
    PROVE  Exchanges' /\ Rest'
<1>1. UNCHANGED <<pc, call>>
  BY ControllerFrame
<1>2. CASE Begin(k)
  <2>1. Same /\ epoch' \in {epoch, epoch + 1}
    BY <1>2, BeginIs, ControllerRest
  <2>2. epoch \in Nat /\ \A t \in Callers : call[t].epoch \in Nat
    BY TypesOf DEF CallRecords
  <2>3. ASSUME NEW u \in Callers PROVE ExchangeOf(u)'
    <3>1. call[u].epoch < epoch => call[u].epoch < epoch'
      BY <2>1, <2>2
    <3>2. \A c : GivenUp(u, c) => GivenUp(u, c)'
      BY <1>1, <2>1, <3>1 DEF GivenUp, Drained, Same
    <3>3. \A c : ExchangeAt(u, c) => ExchangeAt(u, c)'
      BY <1>1, <2>1, <3>2 DEF ExchangeAt, Starting, Drained, Asked, Same
    <3> QED
      BY <1>1, <3>3 DEF ExchangeOf, Exchanges
  <2>4. ASSUME NEW c \in Children, Rests(c) PROVE Rests(c)'
    <3>1. child[c].born = epoch' => child[c].born = epoch
      <4>1. child[c].born <= epoch /\ child[c].born \in Nat
        BY TypesOf DEF Epochs, ChildRecords
      <4> QED
        BY <2>1, <2>2, <4>1
    <3> QED
      BY <2>1, <2>4, <3>1 DEF Rests, Drained, Same
  <2> QED
    BY <1>1, <2>3, <2>4 DEF Exchanges, Rest
<1>3. CASE Same /\ epoch' = epoch
  <2>1. ASSUME NEW u \in Callers PROVE ExchangeOf(u)'
    BY <1>1, <1>3, ExchangeKept DEF Exchanges
  <2>2. \A c \in Children : Rests(c) => Rests(c)'
    BY <1>3 DEF Rests, Drained, Same
  <2> QED
    BY <1>1, <2>1, <2>2 DEF Exchanges, Rest
<1>4. CASE Terminate /\ epoch' = epoch
  <2>1. ASSUME NEW u \in Callers PROVE ExchangeOf(u)'
    BY <1>1, <1>4, ExchangeKilled DEF Exchanges
  <2>2. \A c \in Children : Rests(c)'
    BY <1>4, NoneLeft DEF Rests, Live
  <2> QED
    BY <2>1, <2>2 DEF Exchanges, Rest
<1> QED
  BY <1>2, <1>3, <1>4, SignalIs, TeardownIs DEF ControllerStep

(* A step of a child keeps it where the request expects it. *)
LEMMA ExchangeChild ==
    ASSUME Types, ChildInv, NEW d \in Children, ChildStep(d), NEW u \in Callers, ExchangeOf(u)
    PROVE  ExchangeOf(u)'
<1>1. /\ call' = call /\ pc' = pc /\ epoch' = epoch
      /\ Dies(d) \/ Takes(d) \/ Speaks(d) \/ Answers(d) \/ Fails(d)
  BY ChildFrame, ChildIs
<1> SUFFICES ASSUME NEW c, c = call[u].child, c # None, ExchangeAt(u, c)
             PROVE  ExchangeAt(u, c)'
  BY <1>1 DEF ExchangeOf
<1>2. c \in Children
  BY AliveOf
<1> DEFINE i == call[u].id
<1>3. i' = i
  BY <1>1
<1>4. CASE c # d
  <2>1. child'[c] = child[c] /\ pipe'[c] = pipe[c]
    BY <1>1, <1>2, <1>4 DEF Dies, Takes, Speaks, Answers, Fails, OnlyOf
  <2> QED
    BY <1>1, <1>3, <2>1 DEF ExchangeAt, Starting, Drained, Asked, GivenUp
<1>5. CASE c = d /\ Dies(d)
  <2>1. child'[c].state = "dead" /\ pipe'[c] = pipe[c]
    BY <1>5 DEF Dies
  <2>2. (Starting(c) => Starting(c)') /\ (Asked(c, i) => Asked(c, i)')
    BY <1>3, <2>1 DEF Starting, Asked
  <2> QED
    BY <1>1, <2>1, <2>2 DEF ExchangeAt, GivenUp, Live
<1>6. CASE c = d /\ Takes(d)
  <2>1. /\ child[c].state = "idle" /\ pipe[c].down # <<>> /\ child'[c].state = "busy"
        /\ pipe'[c] = pipe[c]
    BY <1>6 DEF Takes
  <2>2. ~Starting(c) /\ ~Drained(c)
    BY <2>1 DEF Starting, Drained
  <2>3. Asked(c, i) => Asked(c, i)'
    BY <1>3, <2>1 DEF Asked
  <2> QED
    BY <1>1, <2>1, <2>2, <2>3 DEF ExchangeAt, GivenUp, Live
<1>7. CASE c = d /\ Speaks(d)
  <2>1. /\ child[c].state = "starting" /\ pipe'[c].down = pipe[c].down
        /\ \/ child'[c].state = "idle" /\ pipe'[c].up = Append(pipe[c].up, Message("ready", 0))
           \/ child'[c].state = "dead"
    BY <1>7, SMTT(40) DEF Speaks
  <2>2. ~Asked(c, i) /\ ~Drained(c)
    BY <2>1, SMTT(40) DEF Asked, Drained
  <2>3. Starting(c) => Starting(c)'
    <3>1. ASSUME Starting(c), child'[c].state = "idle"
          PROVE  pipe'[c].up = <<Message("ready", 0)>>
      <4>1. pipe[c].up = <<>>
        BY <2>1, <3>1 DEF Starting
      <4> QED
        BY <2>1, <3>1, <4>1, Singles
    <3> QED
      BY <2>1, <3>1 DEF Starting
  <2> QED
    BY <1>1, <2>1, <2>2, <2>3 DEF ExchangeAt, GivenUp, Live
<1>8. CASE c = d /\ Answers(d)
  <2>1. PICK kind \in {"ok", "error"} :
          /\ child[c].state = "busy" /\ child'[c].state = "idle"
          /\ pipe'[c].up = Append(pipe[c].up, Message(kind, Head(pipe[c].down)))
          /\ pipe'[c].down = Tail(pipe[c].down)
    BY <1>8 DEF Answers
  <2>2. ~Starting(c) /\ ~Drained(c)
    BY <2>1, SMTT(40) DEF Starting, Drained
  <2>3. Asked(c, i) => Asked(c, i)'
    <3> SUFFICES ASSUME Asked(c, i) PROVE Asked(c, i)'
      BY SMTT(40)
    <3>1. pipe[c].down = <<i>> /\ pipe[c].up = <<>>
      BY <2>1 DEF Asked
    <3>2. pipe'[c].down = <<>> /\ pipe'[c].up = <<Message(kind, i)>>
      BY <2>1, <3>1, Singles
    <3> QED
      BY <1>3, <2>1, <3>2, Zenon DEF Asked
  <2> QED
    BY <1>1, <2>1, <2>2, <2>3 DEF ExchangeAt, GivenUp, Live
<1>9. CASE c = d /\ Fails(d)
  <2>1. /\ child[c].state = "idle" /\ child'[c].state = "dead" /\ pipe[c].down # <<>>
        /\ pipe'[c].up = Append(pipe[c].up, Message("fatal", 0))
        /\ pipe'[c].down = Tail(pipe[c].down)
    BY <1>9 DEF Fails
  <2>2. ~Starting(c) /\ ~Drained(c)
    BY <2>1, SMTT(40) DEF Starting, Drained
  <2>3. Asked(c, i) => Asked(c, i)'
    <3> SUFFICES ASSUME Asked(c, i) PROVE Asked(c, i)'
      BY SMTT(40)
    <3>1. pipe[c].down = <<i>> /\ pipe[c].up = <<>>
      BY <2>1 DEF Asked
    <3>2. pipe'[c].down = <<>> /\ pipe'[c].up = <<Message("fatal", 0)>>
      BY <2>1, <3>1, Singles
    <3>3. Message("fatal", 0)' = Message("fatal", 0)
      BY DEF Message
    <3> QED
      BY <2>1, <3>2, <3>3, Zenon DEF Asked
  <2> QED
    BY <1>1, <2>1, <2>2, <2>3 DEF ExchangeAt, GivenUp, Live
<1> QED
  BY <1>1, <1>4, <1>5, <1>6, <1>7, <1>8, <1>9

LEMMA RestChild ==
    ASSUME Types, ChildInv, NEW d \in Children, ChildStep(d), Rest
    PROVE  Rest'
<1>1. /\ call' = call /\ epoch' = epoch
      /\ Dies(d) \/ Takes(d) \/ Speaks(d) \/ Answers(d) \/ Fails(d)
  BY ChildFrame, ChildIs
<1>2. ASSUME NEW c \in Children, Rests(c) PROVE Rests(c)'
  <2>1. CASE c # d
    <3>1. child'[c] = child[c] /\ pipe'[c] = pipe[c]
      BY <1>1, <2>1 DEF Dies, Takes, Speaks, Answers, Fails, OnlyOf
    <3> QED
      BY <1>1, <1>2, <3>1 DEF Rests, Drained
  <2>2. CASE c = d /\ (Dies(d) \/ Fails(d))
    BY <2>2 DEF Dies, Fails, Rests, Live
  <2>3. CASE c = d /\ (Takes(d) \/ Speaks(d) \/ Answers(d))
    <3>1. child[c].state \in Live /\ ~Drained(c) /\ child'[c].born = child[c].born
      BY <2>3 DEF Takes, Speaks, Answers, Live, Drained, OnlyOf
    <3> QED
      BY <1>1, <1>2, <3>1 DEF Rests
  <2> QED
    BY <1>1, <2>1, <2>2, <2>3
<1> QED
  BY <1>1, <1>2 DEF Rest

-----------------------------------------------------------------------------
(* The invariant *)

LEMMA BoundsGive ==
    Types /\ Bounds /\ SamplesAfterReset => Samples /\ Epochs
BY DEF Bounds, Samples, Epochs

LEMMA FresherGives == Types /\ Fresher => NoObsoleteChild
BY FresherIs

LEMMA ExchangeGives == Types /\ ChildInv /\ Exchanges /\ Rest => ExchangeInv
BY ExchangeIs

LEMMA TransportInit ==
    ASSUME TransportAssumption, Init
    PROVE  TransportInv
<1>1. Types
  BY TypesInit
<1>2. /\ \A t \in Callers : pc[t] = "idle" /\ call[t] = NoCall
      /\ \A c \in Children : /\ child[c].state = "unused" /\ child[c].born = 0
                             /\ pipe[c] = [open |-> FALSE, down |-> <<>>, up |-> <<>>]
      /\ \A k \in Controllers : op[k] = NoOp
      /\ lock = Free /\ process = None /\ cancelEvent = FALSE
      /\ epoch = 1 /\ settled = 1 /\ phase = "running" /\ requests = 0
      /\ generation = 0 /\ resetGen = 0 /\ startSample = NoSample /\ requestSample = NoSample
  BY DEF Init
<1>3. /\ NoCall.epoch = 0 /\ NoCall.gen = 0 /\ NoCall.child = None
      /\ NoCall.outcome = "none"
  BY FreshCall
<1>4. LockInv
  BY <1>2 DEF LockInv, Outside, TransportAssumption, Free
<1>5. ChildInv
  BY <1>2, <1>3 DEF ChildInv, Alive, BeforeSend, Exchanging, Blocked
<1>6. Samples /\ Epochs
  <2>1. Samples
    BY <1>2 DEF Samples, SamplesAfterReset, NoSample
  <2>2. Epochs
    BY <1>2, <1>3 DEF Epochs
  <2> QED
    BY <2>1, <2>2
<1>7. PipeInv
  <2>1. ASSUME NEW c \in Children PROVE Room(c)
    <3>1. Held(c) = 0
      <4>1. pipe[c].down = <<>> /\ pipe[c].up = <<>>
        BY <1>2
      <4>2. Len(pipe[c].down) = 0 /\ Len(pipe[c].up) = 0
        BY <4>1
      <4>3. 0 + 0 = 0
        OBVIOUS
      <4> QED
        BY <4>2, <4>3, Zenon DEF Held
    <3>2. One(Before) = 0 /\ One(Fresh(c)) = 1
      BY <1>2 DEF One, Before, Fresh, BeforeSend
    <3> QED
      BY <1>2, <3>1, <3>2 DEF Room
  <2> QED
    BY <1>1, <2>1, PipesAre DEF Rooms
<1>8. PhaseInv
  BY <1>2 DEF PhaseInv, Outside
<1>9. ExchangeInv
  <2>1. Exchanges /\ Rest
    BY <1>2, <1>3 DEF Exchanges, ExchangeOf, Rest, Rests, Live
  <2> QED
    BY <1>1, <1>5, <2>1, ExchangeIs
<1>10. NoObsoleteChild /\ ChildOfEpoch
  BY <1>2, <1>3 DEF NoObsoleteChild, ChildOfEpoch, Alive
<1> QED
  BY <1>1, <1>4, <1>5, <1>6, <1>7, <1>8, <1>9, <1>10, BoundsFrom
  DEF TransportInv, TypeOK, Samples

LEMMA TransportNext ==
    ASSUME TransportAssumption, TransportInv, Next
    PROVE  TransportInv'
<1>1. /\ Types /\ Samples /\ Epochs /\ LockInv /\ ChildInv /\ PipeInv /\ PhaseInv
      /\ ExchangeInv /\ NoObsoleteChild /\ ChildOfEpoch
  BY BoundsGive DEF TransportInv, TypeOK
<1>2. Types' /\ Samples' /\ Epochs' /\ LockInv' /\ ChildInv' /\ PipeInv' /\ PhaseInv'
  BY <1>1, TypesNext, SamplesNext, EpochsNext, LockNext, ChildInvNext, PipeInvNext, PhaseNext
<1>3. Bounds' /\ SamplesAfterReset'
  <2>1. (Types /\ Samples /\ Epochs /\ PipeInv)' => Bounds'
    BY BoundsFrom, PTL
  <2> QED
    BY <1>2, <2>1 DEF Samples
<1>4. NoObsoleteChild' /\ ChildOfEpoch' /\ ExchangeInv'
  <2>1. CASE Engine
    <3>1. Fresher /\ Exchanges /\ Rest /\ \A t \in Callers : OfEpoch(t)
      BY <1>1, <2>1, FresherIs, ExchangeIs DEF ChildOfEpoch, OfEpoch
    <3>2. Fresher'
      BY <1>1, <2>1, <3>1, FresherNext
    <3>3. \A t \in Callers : OfEpoch(t)'
      BY <1>1, <2>1, <3>1, OfEpochNext
    <3>4. Exchanges'
      <4>1. ASSUME NEW t \in Callers, Enter(t) \/ CallerStep(t) \/ Receive(t) \/ DeadlinePasses(t)
            PROVE  Exchanges'
        BY <1>1, <2>1, <3>1, <4>1, ExchangeCaller DEF Exchanges
      <4>2. ASSUME NEW k \in Controllers, Begin(k) \/ ControllerStep(k)
            PROVE  Exchanges'
        BY <1>1, <2>1, <3>1, <4>2, ExchangeController
      <4>3. ASSUME NEW c \in Children, ChildStep(c)
            PROVE  Exchanges'
        BY <1>1, <3>1, <4>3, ExchangeChild DEF Exchanges
      <4> QED
        BY <4>1, <4>2, <4>3 DEF Next
    <3>5. Rest'
      <4>1. ASSUME NEW t \in Callers, Enter(t) \/ CallerStep(t) \/ Receive(t) \/ DeadlinePasses(t)
            PROVE  Rest'
        BY <1>1, <2>1, <3>1, <4>1, RestCaller
      <4>2. ASSUME NEW k \in Controllers, Begin(k) \/ ControllerStep(k)
            PROVE  Rest'
        BY <1>1, <2>1, <3>1, <4>2, ExchangeController
      <4> QED
        BY <1>1, <3>1, <4>1, <4>2, RestChild DEF Next
    <3>6. (Types /\ Fresher)' => NoObsoleteChild'
      BY FresherGives, PTL
    <3>7. ChildOfEpoch'
      BY <3>3 DEF ChildOfEpoch, OfEpoch
    <3>8. (Types /\ ChildInv /\ Exchanges /\ Rest)' => ExchangeInv'
      BY ExchangeGives, PTL
    <3> QED
      BY <1>2, <3>2, <3>4, <3>5, <3>6, <3>7, <3>8
  <2>2. CASE ~Engine
    BY <2>2 DEF NoObsoleteChild, ChildOfEpoch, ExchangeInv
  <2> QED
    BY <2>1, <2>2
<1> QED
  BY <1>2, <1>3, <1>4 DEF TransportInv, TypeOK

-----------------------------------------------------------------------------
(* The theorems *)

(* A step of the transport, or none, keeps the invariant.                     *)
LEMMA TransportKeeps ==
    ASSUME TransportAssumption
    PROVE  TransportInv /\ [Next]_vars => TransportInv'
<1> SUFFICES ASSUME TransportInv, [Next]_vars PROVE TransportInv'
  OBVIOUS
<1>1. CASE Next
  BY <1>1, TransportNext
<1>2. CASE UNCHANGED vars
  <2>1. /\ UNCHANGED <<lock, cancelEvent, inflight, generation, process, child, pipe>>
        /\ UNCHANGED <<startSample, requestSample, resetGen, requests, pc, call, op>>
        /\ UNCHANGED <<epoch, settled, phase>>
    BY <1>2 DEF vars, core, samples, engine
  <2>2. Types' /\ Bounds' /\ SamplesAfterReset'
    BY <2>1 DEF TransportInv, TypeOK, Types, Bounds, SamplesAfterReset
  <2>3. LockInv' /\ ChildInv' /\ PipeInv' /\ PhaseInv'
    BY <2>1 DEF TransportInv, LockInv, ChildInv, Alive, PipeInv, SendsLeft, PhaseInv
  <2>4. ExchangeInv'
    BY <2>1 DEF TransportInv, ExchangeInv, Drained, Starting, Asked, Abandoned, Idle, Alive
  <2>5. NoObsoleteChild' /\ ChildOfEpoch'
    BY <2>1 DEF TransportInv, NoObsoleteChild, ChildOfEpoch, Alive
  <2> QED
    BY <2>2, <2>3, <2>4, <2>5 DEF TransportInv, TypeOK
<1> QED
  BY <1>1, <1>2

(* The whole invariant: only the holder of _request_lock is inside a request, *)
(* a child that runs is _process with its pipe open, the pipe's traffic fits  *)
(* the place of the request, and nothing outlives a teardown that returned.   *)
THEOREM TransportInvariant ==
    ASSUME TransportAssumption
    PROVE  Spec => []TransportInv
<1>1. Init => TransportInv
  BY TransportInit
<1>2. TransportInv /\ [Next]_vars => TransportInv'
  BY TransportKeeps
<1> QED
  BY <1>1, <1>2, PTL DEF Spec

(* The variables keep their types, nothing is stamped with a generation or an *)
(* epoch to come, and a pipe holds at most one message more than requests     *)
(* were made, whatever is killed or abandoned when.                           *)
THEOREM TransportTypes ==
    ASSUME TransportAssumption
    PROVE  Spec => []TypeOK
<1>1. TransportInv => TypeOK
  BY DEF TransportInv
<1> QED
  BY <1>1, TransportInvariant, PTL

(* Whoever is alive is _process. *)
LEMMA OneLives == TransportInv => OneChild
<1> SUFFICES ASSUME TransportInv PROVE OneChild
  OBVIOUS
<1> DEFINE running == {c \in Children : Alive(c)}
<1>1. running \subseteq {process}
  BY DEF TransportInv, ChildInv
<1>2. CASE running = {}
  <2>1. Cardinality(running) = 0
    BY <1>2, FS_EmptySet, Zenon
  <2> QED
    BY <2>1 DEF OneChild
<1>3. CASE running = {process}
  <2>1. Cardinality(running) = 1
    BY <1>3, FS_Singleton, Zenon
  <2> QED
    BY <2>1 DEF OneChild
<1> QED
  BY <1>1, <1>2, <1>3

(* At most one child runs (the class promises one persistent, restartable     *)
(* child), also without the engine's discipline: start, kill, crash and the   *)
(* loss of a start race each other freely.                                    *)
THEOREM OneChildRuns ==
    ASSUME TransportAssumption
    PROVE  Spec => []OneChild
<1>1. TransportInv => OneChild
  BY OneLives
<1> QED
  BY <1>1, TransportInvariant, PTL

(* Once a teardown has returned no child is left, or started, that a request  *)
(* from before it asked for (lifecycle_contract.md).                          *)
THEOREM NothingObsolete ==
    ASSUME TransportAssumption
    PROVE  Spec => []NoObsoleteChild
<1>1. TransportInv => NoObsoleteChild
  BY DEF TransportInv
<1> QED
  BY <1>1, TransportInvariant, PTL

(* A request is put only to a child started in the epoch of the request.      *)
THEOREM ChildIsOfTheEpoch ==
    ASSUME TransportAssumption
    PROVE  Spec => []ChildOfEpoch
<1>1. TransportInv => ChildOfEpoch
  BY DEF TransportInv
<1> QED
  BY <1>1, TransportInvariant, PTL

(* The exchange part is more than what is promised. *)
LEMMA InStep == TransportInv => Synchronised
<1> SUFFICES ASSUME TransportInv, Engine, NEW t \in Callers
             PROVE  /\ pc[t] = "send" /\ Alive(process) => Drained(process)
                    /\ call[t].outcome = "mismatch" => ~Alive(call[t].child)
  BY DEF Synchronised, Drained
<1>1. call[t].outcome = "mismatch" => ~Alive(call[t].child)
  <2>1. call[t].outcome = "mismatch" /\ call[t].child # None => Abandoned(t)
    BY DEF TransportInv, ExchangeInv
  <2> QED
    BY <2>1 DEF Abandoned, Alive
<1>2. ASSUME pc[t] = "send", Alive(process) PROVE Drained(process)
  <2>1. process # None
    BY <1>2 DEF Alive
  <2>2. call[t].child # None /\ process \in {None, call[t].child}
    BY <1>2 DEF TransportInv, ChildInv, BeforeSend
  <2>3. process = call[t].child
    BY <2>1, <2>2
  <2>4. Alive(call[t].child) => Drained(call[t].child)
    BY <1>2 DEF TransportInv, ExchangeInv
  <2> QED
    BY <1>2, <2>3, <2>4
<1> QED
  BY <1>1, <1>2

(* A request finds its child idle and the pipe drained, so that no request    *)
(* reads the answer of another: an answer with another id comes only from a   *)
(* child that could not read the request and is dead.                         *)
THEOREM AnswersInStep ==
    ASSUME TransportAssumption
    PROVE  Spec => []Synchronised
<1>1. TransportInv => Synchronised
  BY InStep
<1> QED
  BY <1>1, TransportInvariant, PTL

(* A late completion writes no latency sample from before the last reset.     *)
THEOREM SamplesAreNew ==
    ASSUME TransportAssumption
    PROVE  Spec => []SamplesAfterReset
<1>1. TransportInv => SamplesAfterReset
  BY DEF TransportInv
<1> QED
  BY <1>1, TransportInvariant, PTL

-----------------------------------------------------------------------------
(* The transport implements the isolated provider *)

Runs == {c \in Children : Alive(c)}
Borns == [c \in Children |-> child[c].born]

(* A step that starts no child ends the one that runs, or leaves it running.  *)
LEMMA RunsNext ==
    ASSUME TransportAssumption, TransportInv,
           child' = child \/ Terminate \/ \E d \in Children : ChildStep(d)
    PROVE  Borns' = Borns /\ (Runs' = Runs \/ Runs' = {})
<1>1. Types /\ ChildInv
  BY DEF TransportInv, TypeOK
<1>3. \A c \in Children : /\ child'[c].born = child[c].born
                          /\ child'[c].state \in Live => child[c].state \in Live
  <2>1. CASE child' = child
    BY <2>1
  <2>2. CASE Terminate
    BY <1>1, <2>2, Kills DEF Live
  <2>3. ASSUME NEW d \in Children, ChildStep(d), NEW c \in Children
        PROVE  /\ child'[c].born = child[c].born
               /\ child'[c].state \in Live => child[c].state \in Live
    BY <1>1, <2>3, ChildIs, AliveIs DEF Dies, Takes, Speaks, Answers, Fails, OnlyOf, Live
  <2> QED
    BY <2>1, <2>2, <2>3
<1>4. Borns' = Borns
  BY <1>3 DEF Borns
<1>5. /\ Runs = {c \in Children : child[c].state \in Live}
      /\ Runs' = {c \in Children : child'[c].state \in Live}
  <2>1. \A c \in Children : /\ Alive(c) <=> child[c].state \in Live
                            /\ Alive(c)' <=> child'[c].state \in Live
    BY DEF Alive, Live, Children, None
  <2> QED
    BY <2>1 DEF Runs
<1>6. \A c \in Runs : c = process
  BY <1>1 DEF Runs, ChildInv
<1>7. Runs' \subseteq Runs
  BY <1>3, <1>5
<1> QED
  BY <1>4, <1>6, <1>7

LEMMA LaunchStartsProvider ==
    ASSUME Engine, TransportAssumption, TransportInv, NEW t \in Callers,
           Enter(t) \/ CallerStep(t) \/ Receive(t) \/ DeadlinePasses(t), NEW c \in Children, Launches(t, c)
    PROVE  /\ Runs = {} /\ Runs' = {c} /\ Borns[c] = 0 /\ call[t].epoch \in settled..epoch
           /\ Borns' = [Borns EXCEPT ![c] = call[t].epoch]
<1>1. Types /\ ChildInv /\ Epochs /\ PhaseInv /\ Current
  BY BoundsGive, ChildInvParts DEF TransportInv, TypeOK
<1>2. /\ child[c].state = "unused" /\ child'[c].state = "starting"
      /\ child'[c].born = call[t].epoch
      /\ \A d \in Children : d # c => child'[d] = child[d]
  BY <1>1, LaunchingAdds
<1>3. \A d \in Children : child[d].state \notin Live
  <2>1. ~Alive(process)
    BY DEF Launches
  <2> QED
    BY <1>1, <2>1, AliveIs DEF Current, Live
<1>4. Runs = {} /\ Runs' = {c}
  <2>1. \A d \in Children : /\ Alive(d) <=> child[d].state \in Live
                            /\ Alive(d)' <=> child'[d].state \in Live
    BY DEF Alive, Live, Children, None
  <2>2. Runs = {}
    BY <1>3, <2>1 DEF Runs
  <2>3. Runs' = {d \in Children : child'[d].state \in Live}
    BY <2>1 DEF Runs
  <2>4. \A d \in Children : child'[d].state \in Live <=> d = c
    BY <1>2, <1>3 DEF Live
  <2> QED
    BY <2>2, <2>3, <2>4
<1>5. Borns[c] = 0 /\ Borns' = [Borns EXCEPT ![c] = call[t].epoch]
  <2>1. child[c].born = 0
    BY <1>1, <1>2 DEF ChildInv
  <2> QED
    BY <1>2, <2>1 DEF Borns
<1>6. call[t].epoch \in settled..epoch
  <2>1. call[t].epoch = epoch /\ settled = epoch
    BY <1>1, UncancelledIsNew DEF Launches
  <2>2. epoch \in Nat
    BY <1>1, TypesOf
  <2> QED
    BY <2>1, <2>2
<1> QED
  BY <1>4, <1>5, <1>6

LEMMA ProviderStep ==
    ASSUME Engine, TransportAssumption, TransportInv, Next
    PROVE  [Provider!Next]_(Provider!vars)
<1> USE DEF Provider!Next, Provider!vars
<1>1. Types /\ ChildInv
  BY DEF TransportInv, TypeOK
<1>2. Runs = {c \in Children : Alive(c)} /\ Borns = [c \in Children |-> child[c].born]
  BY DEF Runs, Borns
<1>3. CASE /\ Borns' = Borns /\ (Runs' = Runs \/ Runs' = {}) /\ UNCHANGED <<epoch, settled>>
  BY <1>2, <1>3 DEF Provider!End, Runs, Borns
<1>4. ASSUME NEW t \in Callers, NEW c \in Children, Launches(t, c),
             Enter(t) \/ CallerStep(t) \/ Receive(t) \/ DeadlinePasses(t)
      PROVE  [Provider!Next]_(Provider!vars)
  <2>1. /\ Runs = {} /\ Runs' = {c} /\ Borns[c] = 0 /\ call[t].epoch \in settled..epoch
        /\ Borns' = [Borns EXCEPT ![c] = call[t].epoch]
    BY <1>4, LaunchStartsProvider
  <2>2. epoch' = epoch /\ settled' = settled
    BY <1>4, CallerFrame
  <2>3. Provider!Start
    BY <2>1, <2>2 DEF Provider!Start, Runs, Borns
  <2> QED
    BY <2>3
<1>5. ASSUME NEW t \in Callers, Enter(t) \/ CallerStep(t) \/ Receive(t) \/ DeadlinePasses(t)
      PROVE  [Provider!Next]_(Provider!vars)
  <2>1. CallerEffect(t) /\ UNCHANGED <<epoch, settled>>
    BY <1>1, <1>5, CallerIs, CallerFrame
  <2>2. CASE \E c \in Children : Launches(t, c)
    BY <1>4, <1>5, <2>2
  <2>3. CASE ~\E c \in Children : Launches(t, c)
    <3>1. child' = child \/ Terminate
      BY <2>1, <2>3 DEF CallerEffect, Enters, Admitted, Marks, Reuses, Passes, Quits, Aborts,
         Hears, Sends, Leaves, Same
    <3> QED
      BY <1>3, <2>1, <3>1, RunsNext, SMTT(40)
  <2> QED
    BY <2>2, <2>3
<1>6. ASSUME NEW k \in Controllers, Begin(k)
      PROVE  [Provider!Next]_(Provider!vars)
  <2>1. /\ child' = child /\ settled' = settled
        /\ epoch' = epoch + 1 \/ epoch' = epoch
    BY <1>1, <1>6, BeginIs DEF Same
  <2>2. Runs' = Runs /\ Borns' = Borns
    BY <2>1 DEF Runs, Borns, Alive
  <2>3. CASE epoch' = epoch + 1
    <3>1. Provider!Invalidate
      BY <2>1, <2>2, <2>3 DEF Provider!Invalidate, Runs, Borns
    <3> QED
      BY <3>1
  <2>4. CASE epoch' = epoch
    BY <1>3, <2>1, <2>2, <2>4
  <2> QED
    BY <2>1, <2>3, <2>4
<1>7. ASSUME NEW k \in Controllers, Signal(k)
      PROVE  [Provider!Next]_(Provider!vars)
  <2>1. child' = child /\ UNCHANGED <<epoch, settled>>
    BY <1>1, <1>7, SignalIs DEF Same
  <2> QED
    BY <1>3, <2>1, RunsNext
<1>8. ASSUME NEW k \in Controllers, Cancel(k) \/ Reset(k) \/ Close(k)
      PROVE  [Provider!Next]_(Provider!vars)
  <2>1. /\ epoch' = epoch
        /\ \/ settled' = settled /\ (Terminate \/ Same)
           \/ settled' = epoch /\ Terminate
    BY <1>1, <1>8, TeardownIs
  <2>2. CASE settled' = settled /\ (Terminate \/ Same)
    BY <1>3, <2>1, <2>2, RunsNext DEF Same
  <2>3. CASE settled' = epoch /\ Terminate
    <3>1. Borns' = Borns
      BY <2>3, RunsNext
    <3>2. Runs' = {}
      <4>1. \A c \in Children : child'[c].state \notin {"starting", "idle", "busy"}
        BY <1>1, <2>3, NoneLeft
      <4> QED
        BY <4>1 DEF Runs, Alive
    <3>3. Provider!Settle
      BY <2>1, <2>3, <3>1, <3>2 DEF Provider!Settle, Runs, Borns
    <3> QED
      BY <3>3
  <2> QED
    BY <2>1, <2>2, <2>3
<1>9. ASSUME NEW c \in Children, ChildStep(c)
      PROVE  [Provider!Next]_(Provider!vars)
  <2>1. UNCHANGED <<epoch, settled>>
    BY <1>9, ChildFrame
  <2> QED
    BY <1>3, <1>9, <2>1, RunsNext
<1> QED
  BY <1>5, <1>6, <1>7, <1>8, <1>9 DEF Next, ControllerStep

(* No child has been started. *)
LEMMA ProviderInit == Init => Provider!Init
  BY DEF Init, Provider!Init, Alive

(* A step of the transport, or none, is one of the provider, or none. *)
LEMMA ProviderKeeps ==
    ASSUME TransportAssumption, Engine
    PROVE  TransportInv /\ [Next]_vars => [Provider!Next]_(Provider!vars)
<1>1. CASE Next
  BY <1>1, ProviderStep
<1>2. CASE UNCHANGED vars
  BY <1>2 DEF Provider!vars, vars, core, engine, Alive
<1> QED
  BY <1>1, <1>2

(* Seen through the children that run, the transport does what                *)
(* IsolatedProvider allows: at most one provider, started for an epoch whose  *)
(* teardown has not returned, gone when a teardown returns.                   *)
THEOREM TransportImplementsProvider ==
    ASSUME TransportAssumption, Engine
    PROVE  Spec => ImplementsProvider
<1>1. Init => Provider!Init
  BY ProviderInit
<1>2. TransportInv /\ [Next]_vars => [Provider!Next]_(Provider!vars)
  BY ProviderKeeps
<1> QED
  BY <1>1, <1>2, TransportInvariant, PTL DEF Spec, ImplementsProvider, Provider!Spec
=============================================================================
