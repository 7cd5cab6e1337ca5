----------------------------- MODULE RpcProofs -----------------------------
(***************************************************************************)
(* Proofs about RpcSystem for every number of threads, connections, resets *)
(* and requests, with faults, foreign replies and a close of the server.   *)
(***************************************************************************)
EXTENDS RpcSystem, TLAPS

-----------------------------------------------------------------------------
(* Type correctness *)

LEMMA TypeInit == Init => TypeOK
<1> SUFFICES ASSUME Init PROVE TypeOK
  OBVIOUS
<1>1. WireTypeOK
  BY DEF Init, WireInit, WireTypeOK
<1>2. ClientTypeOK
  BY ClientAssumption DEF Init, ClientInit, ClientTypeOK, Pcs, Calls, NoCall, Failures, NoConn
<1>3. ServerTypeOK
  <2> USE DEF Init, ServerInit, ServerTypeOK
  <2>1. jobs \in Seq(Jobs \union {Sentinel}) /\ executor \in Jobs \union {Idle, Exited}
    OBVIOUS
  <2>2. policy \in [ep : Nat, clean : BOOLEAN]
    OBVIOUS
  <2>3. /\ request \in [Conns -> Frames \union {NoRequest}]
        /\ answer \in [Conns -> Replies \union {Pending, Dropped}]
    OBVIOUS
  <2> QED
    BY <2>1, <2>2, <2>3
<1> QED
  BY <1>1, <1>2, <1>3 DEF TypeOK

(* What a connection's queue becomes. *)
LEMMA QueueTypes ==
  ASSUME NEW T, NEW q \in [Conns -> Seq(T)], NEW c
  PROVE  /\ [q EXCEPT ![c] = <<>>] \in [Conns -> Seq(T)]
         /\ c \in Conns /\ q[c] # <<>> => [q EXCEPT ![c] = Tail(@)] \in [Conns -> Seq(T)]
         /\ \A m \in T : [q EXCEPT ![c] = Append(@, m)] \in [Conns -> Seq(T)]
<1>1. [q EXCEPT ![c] = <<>>] \in [Conns -> Seq(T)]
  <2>1. <<>> \in Seq(T)
    OBVIOUS
  <2> QED
    BY <2>1, Zenon
<1>2. c \in Conns /\ q[c] # <<>> => [q EXCEPT ![c] = Tail(@)] \in [Conns -> Seq(T)]
  OBVIOUS
<1>3. ASSUME NEW m \in T PROVE [q EXCEPT ![c] = Append(@, m)] \in [Conns -> Seq(T)]
  <2>1. CASE c \in Conns
    BY <2>1
  <2>2. CASE c \notin Conns
    BY <2>2, Zenon
  <2> QED
    BY <2>1, <2>2
<1> QED
  BY <1>1, <1>2, <1>3

(* Who writes which variable of the wire. *)
LEMMA ClientWrites ==
    ClientNext =>
      /\ UNCHANGED listening
      /\ UNCHANGED clientEnd \/ (\E t \in Threads : Connect(t)) \/ \E c : ClientCloses(c)
      /\ UNCHANGED eof \/ \E c : ClientCloses(c)
      /\ UNCHANGED serverEnd \/ \E t \in Threads : Connect(t)
      /\ UNCHANGED toServer \/ \E t \in Threads : Send(t)
      /\ UNCHANGED toClient \/ (\E t \in Threads : Receive(t)) \/ \E c : ClientCloses(c)
  BY ZenonT(60) DEF wire, ClientNext, Proceed, Exchange, BeginInfer, AdmitInfer, LockReset,
     LockTimesOut, EnsureSocket, Connect, ConnectFails, Publish, Send, SendFails, Receive,
     ReceiveFails, Validate, DeadlinePasses, EventSeen, CommitInfer, ConfirmReset, BeginReset,
     FailInfer, FailReset, Cancel

LEMMA ServerWrites ==
    ServerNext =>
      /\ UNCHANGED <<clientEnd, eof>>
      /\ UNCHANGED listening \/ StopServer
      /\ \/ UNCHANGED serverEnd \/ StopServer \/ ShutConnections
         \/ \E c \in Conns : Accept(c) \/ Register(c) \/ End(c)
      /\ \/ UNCHANGED toServer \/ StopServer \/ ShutConnections
         \/ \E c \in Conns : HandlerReads(c) \/ End(c)
      /\ UNCHANGED toClient \/ \E c \in Conns : HandlerReplies(c)
  BY Zenon DEF wire, executorFrame, ServerNext, Listen, Accept, Register, Execute,
     ExecutorDrops, ExecutorStarts, ExecutorFinishes, ExecutorExits, StopServer, Close,
     ShutConnections, JoinHandlers, JoinExecutor, Handle, HandlerReads, HandlerSubmits,
     HandlerInjectsError, HandlerLosesPeer, HandlerDisconnects, HandlerGivesUp,
     HandlerDropsReply, HandlerTakesAnswer, HandlerReplyFails, HandlerReplies

LEMMA NetworkWrites ==
    Network =>
      /\ UNCHANGED <<listening, clientEnd, serverEnd, toServer>>
      /\ UNCHANGED eof \/ \E c \in Conns : EofArrives(c)
      /\ UNCHANGED toClient \/ \E c \in Conns : Garble(c)
  BY Zenon DEF Network, EofArrives, Garble

LEMMA WireTypeNext == TypeOK /\ [Next]_vars => WireTypeOK'
<1> SUFFICES ASSUME TypeOK, [Next]_vars PROVE WireTypeOK'
  OBVIOUS
<1>1. WireTypeOK /\ ClientTypeOK /\ ServerTypeOK
  BY DEF TypeOK
<1>2. ClientNext \/ ServerNext \/ Network \/ UNCHANGED vars
  BY DEF Next
<1> USE <1>1 DEF WireTypeOK
<1>3. listening' \in BOOLEAN
  BY <1>2, ClientWrites, ServerWrites, NetworkWrites, Zenon
     DEF StopServer, vars, wire
<1>4. clientEnd' \in [Conns -> {"unused", "open", "closed"}]
  <2>1. ASSUME NEW c, ClientCloses(c) PROVE clientEnd' \in [Conns -> {"unused", "open", "closed"}]
    BY <2>1 DEF ClientCloses
  <2>2. ASSUME NEW t \in Threads, Connect(t)
        PROVE  clientEnd' \in [Conns -> {"unused", "open", "closed"}]
    BY <2>2 DEF Connect
  <2> QED
    BY <1>2, <2>1, <2>2, ClientWrites, ServerWrites, NetworkWrites, Zenon
     DEF vars, wire
<1>5. serverEnd' \in [Conns -> {"none", "backlog", "open", "closed"}]
  <2>1. ASSUME NEW t \in Threads, Connect(t)
        PROVE  serverEnd' \in [Conns -> {"none", "backlog", "open", "closed"}]
    BY <2>1 DEF Connect
  <2>2. ASSUME NEW c \in Conns, Accept(c) \/ Register(c) \/ End(c)
        PROVE  serverEnd' \in [Conns -> {"none", "backlog", "open", "closed"}]
    BY <2>2 DEF Accept, Register, End
  <2>3. CASE StopServer \/ ShutConnections
    BY <2>3 DEF StopServer, ShutConnections
  <2> QED
    BY <1>2, <2>1, <2>2, <2>3, ClientWrites, ServerWrites, NetworkWrites, Zenon
     DEF vars, wire
<1>6. eof' \in [Conns -> BOOLEAN]
  <2>1. ASSUME NEW c, ClientCloses(c) PROVE eof' \in [Conns -> BOOLEAN]
    BY <2>1 DEF ClientCloses
  <2>2. ASSUME NEW c \in Conns, EofArrives(c) PROVE eof' \in [Conns -> BOOLEAN]
    BY <2>2 DEF EofArrives
  <2> QED
    BY <1>2, <2>1, <2>2, ClientWrites, ServerWrites, NetworkWrites, Zenon
     DEF vars, wire
<1>7. toServer' \in [Conns -> Seq(Frames)]
  <2>1. ASSUME NEW t \in Threads, Send(t) PROVE toServer' \in [Conns -> Seq(Frames)]
    <3>1. Request(t) \in Frames
      BY DEF Request, ClientTypeOK, Calls, Frames, Kinds
    <3> QED
      BY <2>1, <3>1, QueueTypes DEF Send
  <2>2. ASSUME NEW c \in Conns, HandlerReads(c) PROVE toServer' \in [Conns -> Seq(Frames)]
    BY <2>2 DEF HandlerReads
  <2>3. ASSUME NEW c \in Conns, End(c) PROVE toServer' \in [Conns -> Seq(Frames)]
    BY <2>3 DEF End
  <2>4. CASE StopServer
    BY <2>4 DEF StopServer
  <2>5. CASE ShutConnections
    BY <2>5 DEF ShutConnections
  <2> QED
    BY <1>2, <2>1, <2>2, <2>3, <2>4, <2>5, ClientWrites, ServerWrites, NetworkWrites, Zenon
     DEF vars, wire
<1>8. toClient' \in [Conns -> Seq(Replies \union {Junk})]
  <2> DEFINE T == Seq(Replies \union {Junk})
  <2>1. ASSUME NEW c, ClientCloses(c) PROVE toClient' \in [Conns -> T]
    <3>1. UNCHANGED toClient \/ toClient' = [toClient EXCEPT ![c] = <<>>]
      BY <2>1, Zenon DEF ClientCloses
    <3>2. [toClient EXCEPT ![c] = <<>>] \in [Conns -> T]
      BY QueueTypes
    <3> QED
      BY <3>1, <3>2
  <2>2. ASSUME NEW t \in Threads, Receive(t) PROVE toClient' \in [Conns -> T]
    BY <2>2, QueueTypes DEF Receive, ClientTypeOK, Calls
  <2>3. ASSUME NEW c \in Conns, HandlerReplies(c) PROVE toClient' \in [Conns -> T]
    <3>1. answer[c] \in Replies
      BY <2>3 DEF HandlerReplies, ServerTypeOK
    <3> QED
      BY <2>3, <3>1, QueueTypes DEF HandlerReplies
  <2>4. ASSUME NEW c \in Conns, Garble(c) PROVE toClient' \in [Conns -> T]
    BY <2>4 DEF Garble
  <2> QED
    BY <1>2, <2>1, <2>2, <2>3, <2>4, ClientWrites, ServerWrites, NetworkWrites, Zenon
     DEF vars, wire
<1> QED
  BY <1>3, <1>4, <1>5, <1>6, <1>7, <1>8

(* What the client's actions write. *)
LEMMA ClientSteps ==
    ClientNext =>
      /\ generation' \in {generation, generation + 1}
      /\ wanted' = wanted \/ (wanted' = wanted + 1 /\ wanted < MaxResets)
      /\ nextId' \in {nextId, nextId + 1}
      /\ UNCHANGED resetRequired \/ resetRequired' = TRUE \/ resetRequired' = FALSE
      /\ lock' = lock \/ lock' = Free \/ \E t \in Threads : lock' = t
      /\ UNCHANGED pc \/ \E t \in Threads, p \in Pcs : pc' = [pc EXCEPT ![t] = p]
<1> USE DEF clientFrame, ClientNext, Proceed, Exchange, BeginInfer, AdmitInfer, LockReset,
     LockTimesOut, EnsureSocket, Connect, ConnectFails, Publish, Send, SendFails, Receive,
     ReceiveFails, Validate, DeadlinePasses, EventSeen, CommitInfer, ConfirmReset, BeginReset,
     FailInfer, FailReset, Cancel, Raise
<1>1. ClientNext => generation' \in {generation, generation + 1}
  BY ZenonT(60)
<1>2. ClientNext => wanted' = wanted \/ (wanted' = wanted + 1 /\ wanted < MaxResets)
  BY ZenonT(60)
<1>3. ClientNext => nextId' \in {nextId, nextId + 1}
  BY ZenonT(60)
<1>4. ClientNext => UNCHANGED resetRequired \/ resetRequired' = TRUE \/ resetRequired' = FALSE
  BY ZenonT(60)
<1>5. ClientNext => lock' = lock \/ lock' = Free \/ \E t \in Threads : lock' = t
  BY ZenonT(60)
<1>6. ClientNext => UNCHANGED pc \/ \E t \in Threads, p \in Pcs : pc' = [pc EXCEPT ![t] = p]
  BY ZenonT(60) DEF Goto, Leave, Fails, Pcs
<1> QED
  BY <1>1, <1>2, <1>3, <1>4, <1>5, <1>6, ZenonT(60)

LEMMA CallTypeNext ==
  ASSUME WireTypeOK, ClientTypeOK, ClientNext
  PROVE  call' \in [Threads -> Calls]
<1> USE DEF ClientTypeOK
<1>1. ASSUME NEW t \in Threads, UNCHANGED call \/ Leave(t) \/ \E w \in Failures : Fails(t, w)
      PROVE  call' \in [Threads -> Calls]
  <2>1. NoCall \in Calls
    BY DEF NoCall, Calls, NoConn, Failures
  <2>2. \A w \in Failures : [call[t] EXCEPT !.why = w] \in Calls
    BY DEF Calls
  <2> QED
    BY <1>1, <2>1, <2>2, Zenon DEF Leave, Fails
<1>2. ASSUME NEW t \in Threads, BeginInfer(t) PROVE call' \in [Threads -> Calls]
  <2>1. generation \in Nat /\ wanted \in Nat
    BY ClientAssumption
  <2>2. [NoCall EXCEPT !.gen = generation, !.ep = wanted] \in Calls
    BY <2>1 DEF NoCall, Calls, NoConn, Failures
  <2> QED
    BY <1>2, <2>2, Zenon DEF BeginInfer
<1>3. ASSUME NEW t \in Threads, BeginReset(t) PROVE call' \in [Threads -> Calls]
  <2>1. generation + 1 \in Nat /\ wanted + 1 \in Nat
    BY ClientAssumption
  <2>2. [NoCall EXCEPT !.gen = generation + 1, !.ep = wanted + 1] \in Calls
    BY <2>1 DEF NoCall, Calls, NoConn, Failures
  <2> QED
    BY <1>3, <2>2, Zenon DEF BeginReset
<1>4. ASSUME NEW t \in Threads, NEW c \in Conns \union {NoConn},
             call' = [call EXCEPT ![t].conn = c]
      PROVE  call' \in [Threads -> Calls]
  BY <1>4 DEF Calls
<1>5. ASSUME NEW t \in Threads, Send(t) PROVE call' \in [Threads -> Calls]
  BY <1>5, ZenonT(60) DEF Send, Calls
<1>6. ASSUME NEW t \in Threads, Receive(t) PROVE call' \in [Threads -> Calls]
  <2> DEFINE r == Head(toClient[call[t].conn])
  <2>1. /\ call[t].conn \in Conns /\ toClient[call[t].conn] # <<>>
        /\ call' = [call EXCEPT ![t].reply = r]
    BY <1>6 DEF Receive
  <2>2. r \in Replies \union {Junk}
    BY <2>1 DEF WireTypeOK
  <2> QED
    BY <2>1, <2>2 DEF Calls
<1>7. ASSUME NEW t \in Threads, Connect(t) PROVE call' \in [Threads -> Calls]
  BY <1>4, <1>7 DEF Connect, Unused
<1>8. ASSUME NEW t \in Threads, Publish(t) PROVE call' \in [Threads -> Calls]
  <2>1. CASE ~Current(t)
    BY <1>1, <1>8, <2>1, Zenon DEF Publish, Raise, Failures
  <2>2. CASE Current(t)
    <3>1. call[t].conn \in Conns \union {NoConn}
      BY DEF Calls
    <3>2. sock' \in Conns \union {NoConn}
      BY <1>8, <3>1, Zenon DEF Publish
    <3> QED
      BY <1>4, <1>8, <2>2, <3>2, Zenon DEF Publish
  <2> QED
    BY <2>1, <2>2
<1>9. ASSUME NEW t \in Threads, EnsureSocket(t) PROVE call' \in [Threads -> Calls]
  BY <1>1, <1>4, <1>9, Zenon DEF EnsureSocket, Raise, Failures
<1>10. ASSUME NEW t \in Threads,
              \/ AdmitInfer(t) \/ LockReset(t) \/ LockTimesOut(t) \/ ConnectFails(t)
              \/ SendFails(t) \/ ReceiveFails(t) \/ Validate(t) \/ DeadlinePasses(t)
              \/ EventSeen(t) \/ CommitInfer(t) \/ ConfirmReset(t) \/ FailInfer(t) \/ FailReset(t)
       PROVE  call' \in [Threads -> Calls]
  BY <1>1, <1>10, Zenon DEF AdmitInfer, LockReset, LockTimesOut, ConnectFails, SendFails,
     ReceiveFails, Validate, DeadlinePasses, EventSeen, CommitInfer, ConfirmReset, FailInfer,
     FailReset, Raise, Failures
<1>11. CASE Cancel
  BY <1>11, Zenon DEF Cancel
<1> QED
  BY <1>2, <1>3, <1>5, <1>6, <1>7, <1>8, <1>9, <1>10, <1>11 DEF ClientNext, Proceed, Exchange

(* What the thread t does.                                                   *)
Step(t) == BeginInfer(t) \/ BeginReset(t) \/ Proceed(t) \/ EventSeen(t)

(* A thread only moves itself, and a call changes its generation or its     *)
(* episode only where it begins or ends.                                     *)
LEMMA OnlyItself ==
  ASSUME ClientTypeOK, NEW t \in Threads, Step(t), NEW u \in Threads, u # t
  PROVE  pc'[u] = pc[u] /\ call'[u] = call[u]
<1> USE DEF ClientTypeOK, Step, Proceed, Exchange, BeginInfer, AdmitInfer, LockReset,
     LockTimesOut, EnsureSocket, Connect, ConnectFails, Publish, Send, SendFails, Receive,
     ReceiveFails, Validate, DeadlinePasses, EventSeen, CommitInfer, ConfirmReset, BeginReset,
     FailInfer, FailReset, Raise, Goto, Leave, Fails
<1>1. pc' = pc \/ \E p : pc' = [pc EXCEPT ![t] = p]
  BY Zenon
<1>2. \/ call' = call \/ (\E r : call' = [call EXCEPT ![t] = r])
      \/ (\E w : call' = [call EXCEPT ![t].why = w])
      \/ (\E c : call' = [call EXCEPT ![t].conn = c])
      \/ (\E i : call' = [call EXCEPT ![t].id = i])
      \/ (\E r : call' = [call EXCEPT ![t].reply = r])
  BY Zenon
<1>3. pc'[u] = pc[u]
  BY <1>1, Zenon
<1>4. call'[u] = call[u]
  BY <1>2, Zenon
<1> QED
  BY <1>3, <1>4

(* A call keeps its generation and episode from beginning to end.            *)
LEMMA GenerationKept ==
  ASSUME ClientTypeOK, NEW t \in Threads, Step(t)
  PROVE  \/ call'[t].gen = call[t].gen /\ call'[t].ep = call[t].ep /\ pc[t] # "idle"
         \/ call'[t] = NoCall /\ pc'[t] = "idle"
         \/ /\ pc[t] = "idle" /\ pc'[t] = "queued"
            /\ call'[t] = [NoCall EXCEPT !.gen = generation', !.ep = wanted']
<1> USE DEF ClientTypeOK
<1>1. CASE BeginInfer(t) \/ BeginReset(t)
  BY <1>1 DEF BeginInfer, BeginReset, Goto
<1>2. CASE Leave(t)
  BY <1>2 DEF Leave, Goto
<1>3. CASE \E w : Fails(t, w) /\ pc[t] # "idle"
  BY <1>3 DEF Fails, Calls
<1>4. ASSUME \/ UNCHANGED call \/ (\E c : call' = [call EXCEPT ![t].conn = c])
             \/ (\E i : call' = [call EXCEPT ![t].id = i])
             \/ (\E r : call' = [call EXCEPT ![t].reply = r]),
             pc[t] # "idle"
      PROVE call'[t].gen = call[t].gen /\ call'[t].ep = call[t].ep
  BY <1>4 DEF Calls
<1> QED
  BY <1>1, <1>2, <1>3, <1>4, Zenon DEF Step, Proceed, Exchange, AdmitInfer, LockReset,
     LockTimesOut, EnsureSocket, Connect, ConnectFails, Publish, Send, SendFails, Receive,
     ReceiveFails, Validate, DeadlinePasses, EventSeen, CommitInfer, ConfirmReset,
     FailInfer, FailReset, Raise

LEMMA ClientTypeNext == TypeOK /\ [Next]_vars => ClientTypeOK'
<1> SUFFICES ASSUME TypeOK, [Next]_vars PROVE ClientTypeOK'
  OBVIOUS
<1>1. WireTypeOK /\ ClientTypeOK /\ ServerTypeOK
  BY DEF TypeOK
<1>2. CASE UNCHANGED clientVars
  BY <1>1, <1>2 DEF ClientTypeOK, clientVars, Current
<1>3. CASE ClientNext
  <2> USE DEF ClientTypeOK
  <2>1. generation' \in Nat /\ generation <= generation'
    BY <1>1, <1>3, ClientSteps
  <2>2. wanted' \in 0..MaxResets
    BY <1>1, <1>3, ClientSteps, ClientAssumption
  <2>3. nextId' \in Nat
    BY <1>1, <1>3, ClientSteps
  <2>4. resetRequired' \in BOOLEAN /\ lock' \in Threads \union {Free} /\ pc' \in [Threads -> Pcs]
    BY <1>1, <1>3, ClientSteps
  <2>5. call' \in [Threads -> Calls]
    BY <1>1, <1>3, CallTypeNext
  <2>6. sock' \in Conns \union {NoConn}
    <3>1. ASSUME NEW t \in Threads, Publish(t) PROVE sock' \in Conns \union {NoConn}
      BY <1>1, <3>1 DEF Publish
    <3> QED
      BY <1>1, <1>3, <3>1, Zenon DEF clientFrame, ClientNext, Proceed, Exchange, BeginInfer,
         AdmitInfer, LockReset, LockTimesOut, EnsureSocket, Connect, ConnectFails, Send,
         SendFails, Receive, ReceiveFails, Validate, DeadlinePasses, EventSeen, CommitInfer,
         ConfirmReset, BeginReset, FailInfer, FailReset, Cancel
  <2>7. CASE Cancel
    <3>1. pc' = pc /\ call' = call
      BY <2>7 DEF Cancel
    <3>2. \A t \in Threads : call[t].gen \in Nat /\ call[t].gen <= generation
      BY <1>1 DEF Calls
    <3>3. \A t \in Threads : call[t].gen <= generation'
      BY <1>1, <2>1, <3>2
    <3> QED
      BY <1>1, <2>1, <2>2, <2>3, <2>4, <2>5, <2>6, <3>1, <3>3
  <2>8. ASSUME NEW t \in Threads, Step(t), NEW u \in Threads
        PROVE  /\ call'[u].gen <= generation'
               /\ pc'[u] \in {"publish", "send", "receive", "received", "valid"} =>
                    call'[u].conn \in Conns
    <3>1. CASE u # t
      BY <1>1, <2>1, <2>8, <3>1, OnlyItself DEF Calls
    <3>2. call'[t].gen <= generation'
      <4>0. NoCall.gen = 0 /\ [NoCall EXCEPT !.gen = generation', !.ep = wanted'].gen = generation'
        BY DEF NoCall
      <4>1. call'[t].gen \in {call[t].gen, 0, generation'}
        BY <1>1, <2>8, <4>0, GenerationKept, Zenon
      <4> QED
        <5>1. call[t].gen \in Nat /\ call[t].gen <= generation /\ generation \in Nat
          BY <1>1 DEF Calls
        <5>2. call[t].gen <= generation'
          BY <2>1, <5>1
        <5>3. 0 <= generation'
          BY <2>1
        <5> QED
          BY <2>1, <4>1, <5>2, <5>3
    <3>3. pc'[t] \in {"publish", "send", "receive", "received", "valid"} => call'[t].conn \in Conns
      <4>1. CASE Connect(t)
        <5>1. PICK c \in Conns : call' = [call EXCEPT ![t].conn = c]
          BY <4>1, Zenon DEF Connect, Unused
        <5>2. call'[t].conn = c
          BY <1>1, <5>1 DEF Calls
        <5> QED
          BY <5>2
      <4>2. CASE Publish(t)
        <5>1. CASE ~Current(t)
          BY <1>1, <4>2, <5>1 DEF Publish, Raise, Fails, Goto
        <5>2. CASE Current(t)
          <6>1. sock' \in Conns
            BY <1>1, <4>2, <5>2 DEF Publish, NoConn
          <6> QED
            BY <1>1, <4>2, <5>2, <6>1 DEF Publish, Calls
        <5> QED
          BY <5>1, <5>2
      <4>3. CASE EnsureSocket(t)
        <5>1. CASE Raise(t, "cancelled")
          BY <1>1, <5>1 DEF Raise, Fails, Goto
        <5>2. CASE sock # NoConn /\ call' = [call EXCEPT ![t].conn = sock]
          <6>1. call'[t].conn = sock
            BY <1>1, <5>2 DEF Calls
          <6> QED
            BY <1>1, <5>2, <6>1 DEF NoConn
        <5>3. CASE Goto(t, "connecting")
          BY <1>1, <5>3 DEF Goto
        <5> QED
          BY <4>3, <5>1, <5>2, <5>3 DEF EnsureSocket
      <4>4. CASE Send(t) \/ Receive(t) \/ Validate(t)
        <5>1. CASE Send(t) \/ Receive(t)
          BY <1>1, <5>1 DEF Send, Receive, Calls
        <5>2. CASE Validate(t)
          BY <1>1, <5>2 DEF Validate, Raise, Fails, Goto
        <5> QED
          BY <4>4, <5>1, <5>2
      <4>5. CASE \/ LockTimesOut(t) \/ ConnectFails(t) \/ SendFails(t) \/ ReceiveFails(t)
                 \/ DeadlinePasses(t) \/ EventSeen(t) \/ FailInfer(t) \/ FailReset(t)
                 \/ AdmitInfer(t) \/ LockReset(t) \/ BeginInfer(t) \/ BeginReset(t)
                 \/ CommitInfer(t) \/ ConfirmReset(t)
        BY <1>1, <4>5 DEF LockTimesOut, ConnectFails, SendFails, ReceiveFails, DeadlinePasses,
           EventSeen, FailInfer, FailReset, AdmitInfer, LockReset, BeginInfer, BeginReset,
           CommitInfer, ConfirmReset, Raise, Fails, Goto, Leave
      <4> QED
        BY <2>8, <4>1, <4>2, <4>3, <4>4, <4>5 DEF Step, Proceed, Exchange
    <3> QED
      BY <3>1, <3>2, <3>3
  <2> QED
    BY <1>3, <2>1, <2>2, <2>3, <2>4, <2>5, <2>6, <2>7, <2>8 DEF ClientNext, Step
<1> QED
  BY <1>2, <1>3, Zenon DEF Next, vars

(* Who writes which variable of the server.                                  *)
LEMMA HandlerWrites ==
    ServerNext =>
      /\ \/ UNCHANGED hpc
         \/ \E c \in Conns : \E p \in {"recv", "run"} :
              hpc' = [hpc EXCEPT ![c] = p] /\ (HandlerSubmits(c) \/ Register(c) \/ HandlerReplies(c))
         \/ \E c \in Conns : End(c) \/ HandlerReads(c) \/ HandlerTakesAnswer(c) \/ HandlerInjectsError(c)
      /\ \/ UNCHANGED request
         \/ \E c \in Conns : HandlerReads(c) \/ request' = [request EXCEPT ![c] = NoRequest]
      /\ \/ UNCHANGED answer
         \/ \E c \in Conns : \/ answer' = [answer EXCEPT ![c] = Dropped]
                             \/ answer' = [answer EXCEPT ![c] = Pending]
                             \/ HandlerInjectsError(c)
         \/ ExecutorDrops \/ ExecutorFinishes
      /\ \/ UNCHANGED jobs \/ (jobs # <<>> /\ jobs' = Tail(jobs)) \/ jobs' = Append(jobs, Sentinel)
         \/ \E c \in Conns : HandlerSubmits(c)
      /\ \/ UNCHANGED executor \/ executor' \in {Idle, Exited} \/ ExecutorStarts
      /\ \/ UNCHANGED policy \/ ExecutorStarts \/ ExecutorFinishes
<1> USE DEF handlerFrame, executorFrame, closeFrame, ServerNext, Listen, Accept, Register, Execute,
     ExecutorDrops, ExecutorStarts, ExecutorFinishes, ExecutorExits, StopServer, Close,
     ShutConnections, JoinHandlers, JoinExecutor, Handle, HandlerReads, HandlerSubmits,
     HandlerInjectsError, HandlerLosesPeer, HandlerDisconnects, HandlerGivesUp,
     HandlerDropsReply, HandlerTakesAnswer, HandlerReplyFails, HandlerReplies
<1> QED
  BY ZenonT(60) DEF End

(* A handler only touches its own connection.                                *)
LEMMA OwnConnection ==
  ASSUME WireTypeOK, ServerTypeOK, NEW d \in Conns, Handle(d), NEW c \in Conns, c # d
  PROVE  /\ hpc'[c] = hpc[c] /\ request'[c] = request[c] /\ answer'[c] = answer[c]
         /\ serverEnd'[c] = serverEnd[c] /\ toServer'[c] = toServer[c]
         /\ toClient'[c] = toClient[c]
<1> USE DEF WireTypeOK, ServerTypeOK, handlerFrame, Handle, HandlerReads, HandlerSubmits,
     HandlerInjectsError, HandlerLosesPeer, HandlerDisconnects, HandlerGivesUp,
     HandlerDropsReply, HandlerTakesAnswer, HandlerReplyFails, HandlerReplies, End, wire
<1>1. /\ hpc' = hpc \/ \E p : hpc' = [hpc EXCEPT ![d] = p]
      /\ request' = request \/ \E p : request' = [request EXCEPT ![d] = p]
      /\ answer' = answer \/ \E p : answer' = [answer EXCEPT ![d] = p]
      /\ serverEnd' = serverEnd \/ \E p : serverEnd' = [serverEnd EXCEPT ![d] = p]
      /\ toServer' = toServer \/ \E p : toServer' = [toServer EXCEPT ![d] = p]
      /\ toClient' = toClient \/ \E p : toClient' = [toClient EXCEPT ![d] = p]
  BY Zenon
<1>2. hpc'[c] = hpc[c]
  BY <1>1, Zenon
<1>3. request'[c] = request[c]
  BY <1>1, Zenon
<1>4. answer'[c] = answer[c]
  BY <1>1, Zenon
<1>5. serverEnd'[c] = serverEnd[c]
  BY <1>1, Zenon
<1>6. toServer'[c] = toServer[c]
  BY <1>1, Zenon
<1>7. toClient'[c] = toClient[c]
  BY <1>1, Zenon
<1> QED
  BY <1>2, <1>3, <1>4, <1>5, <1>6, <1>7

(* What a step of the server does to a connection that is not its handler's. *)
LEMMA NotItsHandler ==
  ASSUME WireTypeOK, ServerTypeOK, ServerNext, NEW c \in Conns, ~Handle(c), ~Register(c)
  PROVE  /\ hpc'[c] = hpc[c] /\ request'[c] = request[c] /\ toClient'[c] = toClient[c]
         /\ hpc[c] # "run" => answer'[c] = answer[c]
<1> USE DEF WireTypeOK, ServerTypeOK
<1>1. CASE \E d \in Conns : Handle(d)
  BY <1>1, OwnConnection
<1>2. CASE \E d \in Conns : Accept(d) \/ Register(d)
  BY <1>2 DEF Accept, Register, wire
<1>3. ASSUME NEW job \in Jobs, NEW r, Finish(job, r), hpc[c] # "run"
      PROVE  answer'[c] = answer[c]
  BY <1>3 DEF Finish, Jobs
<1>4. CASE Execute
  <2>1. UNCHANGED <<hpc, request, toClient>>
    BY <1>4, Zenon DEF Execute, ExecutorDrops, ExecutorStarts, ExecutorFinishes, ExecutorExits,
       executorFrame, wire
  <2>2. CASE ExecutorDrops
    <3>1. Head(jobs) \in Jobs
      BY <2>2 DEF ExecutorDrops
    <3> QED
      BY <1>3, <2>1, <2>2, <3>1, Zenon DEF ExecutorDrops
  <2>3. CASE ExecutorFinishes
    <3>1. executor \in Jobs
      BY <2>3 DEF ExecutorFinishes, Kinds, Idle, Exited
    <3> QED
      BY <1>3, <2>1, <2>3, <3>1, Zenon DEF ExecutorFinishes
  <2> QED
    BY <1>4, <2>1, <2>2, <2>3, Zenon DEF Execute, ExecutorStarts, ExecutorExits
<1>5. CASE StopServer \/ Close
  BY <1>5, Zenon DEF StopServer, Close, ShutConnections, JoinHandlers, JoinExecutor,
     closeFrame, wire
<1> QED
  BY <1>1, <1>2, <1>4, <1>5 DEF ServerNext, Listen

LEMMA ServerTypeNext == TypeOK /\ [Next]_vars => ServerTypeOK'
<1> SUFFICES ASSUME TypeOK, [Next]_vars PROVE ServerTypeOK'
  OBVIOUS
<1>1. WireTypeOK /\ ClientTypeOK /\ ServerTypeOK
  BY DEF TypeOK
<1>2. CASE UNCHANGED serverVars
  BY <1>1, <1>2 DEF ServerTypeOK, serverVars
<1>3. CASE ServerNext
  <2> USE DEF ServerTypeOK
  <2>1. /\ stop' \in BOOLEAN /\ accepting' \in Conns \union {NoConn}
        /\ closer' \in {"no", "stopping", "joining", "executor", "closed"}
    BY <1>1, <1>3, ZenonT(60) DEF handlerFrame, executorFrame, closeFrame, ServerNext, Listen, Accept,
       Register, Execute, ExecutorDrops, ExecutorStarts, ExecutorFinishes, ExecutorExits,
       StopServer, Close, ShutConnections, JoinHandlers, JoinExecutor, Handle, HandlerReads,
       HandlerSubmits, HandlerInjectsError, HandlerLosesPeer, HandlerDisconnects,
       HandlerGivesUp, HandlerDropsReply, HandlerTakesAnswer, HandlerReplyFails,
       HandlerReplies
  <2>2. joinSet' \subseteq Conns
    <3>1. joinSet' = joinSet \/ joinSet' = Serving
      BY <1>3, Zenon DEF handlerFrame, executorFrame, closeFrame, ServerNext, Listen, Accept,
         Register, Execute, ExecutorDrops, ExecutorStarts, ExecutorFinishes, ExecutorExits,
         StopServer, Close, ShutConnections, JoinHandlers, JoinExecutor, Handle, HandlerReads,
         HandlerSubmits, HandlerInjectsError, HandlerLosesPeer, HandlerDisconnects,
         HandlerGivesUp, HandlerDropsReply, HandlerTakesAnswer, HandlerReplyFails,
         HandlerReplies
    <3> QED
      BY <1>1, <3>1 DEF Serving
  <2>3. hpc' \in [Conns -> {"none", "recv", "got", "run", "reply", "ended"}]
    <3>1. ASSUME NEW c \in Conns, End(c) \/ HandlerReads(c) \/ HandlerTakesAnswer(c)
                                         \/ HandlerInjectsError(c)
          PROVE  hpc' \in [Conns -> {"none", "recv", "got", "run", "reply", "ended"}]
      BY <1>1, <3>1 DEF End, HandlerReads, HandlerTakesAnswer, HandlerInjectsError
    <3> QED
      BY <1>1, <1>3, <3>1, HandlerWrites
  <2>4. request' \in [Conns -> Frames \union {NoRequest}]
    <3>1. ASSUME NEW c \in Conns, HandlerReads(c)
          PROVE  request' \in [Conns -> Frames \union {NoRequest}]
      <4>1. Head(toServer[c]) \in Frames
        BY <1>1, <3>1 DEF HandlerReads, WireTypeOK
      <4> QED
        BY <1>1, <3>1, <4>1, Zenon DEF HandlerReads
    <3> QED
      BY <1>1, <1>3, <3>1, HandlerWrites, Zenon
  <2>5. answer' \in [Conns -> Replies \union {Pending, Dropped}]
    <3> DEFINE A == Replies \union {Pending, Dropped}
    <3>1. ASSUME NEW c \in Conns, HandlerInjectsError(c) PROVE answer' \in [Conns -> A]
      <4>1. [id |-> request[c].id, kind |-> "error"] \in Replies
        BY <1>1, <3>1 DEF HandlerInjectsError, Frames, Replies
      <4> QED
        BY <1>1, <3>1, <4>1, Zenon DEF HandlerInjectsError
    <3>2. CASE ExecutorDrops
      BY <1>1, <3>2, Zenon DEF ExecutorDrops, Finish
    <3>3. CASE ExecutorFinishes
      <4>1. \A failed : Response(failed) \in Replies
        <5>1. executor \in Jobs
          BY <1>1, <3>3 DEF ExecutorFinishes, Kinds, Idle, Exited
        <5> QED
          BY <5>1 DEF Response, Replies, Jobs
      <4>2. \E r \in A : Finish(executor, r)
        BY <3>3, <4>1, Zenon DEF ExecutorFinishes
      <4> QED
        BY <1>1, <4>2, Zenon DEF Finish
    <3> QED
      BY <1>1, <1>3, <3>1, <3>2, <3>3, HandlerWrites, Zenon
  <2>6. ASSUME NEW c \in Conns, hpc'[c] = "got" PROVE request'[c] \in Frames
    <3>1. CASE HandlerReads(c)
      BY <1>1, <3>1 DEF HandlerReads, WireTypeOK
    <3>2. Handle(c) => HandlerReads(c)
      <4>1. Handle(c) => HandlerReads(c)
                 \/ \E p \in {"recv", "run", "reply", "ended"} : hpc' = [hpc EXCEPT ![c] = p]
        BY Zenon DEF Handle, End, HandlerSubmits, HandlerInjectsError,
           HandlerLosesPeer, HandlerDisconnects, HandlerGivesUp, HandlerDropsReply,
           HandlerTakesAnswer, HandlerReplyFails, HandlerReplies
      <4> QED
        BY <1>1, <2>6, <4>1
    <3>3. CASE Register(c)
      BY <1>1, <2>6, <3>3 DEF Register
    <3> QED
      BY <1>1, <1>3, <2>6, <3>1, <3>2, <3>3, NotItsHandler
  <2>7. ASSUME NEW c \in Conns, hpc'[c] = "reply" PROVE answer'[c] \in Replies
    <3>1. CASE HandlerInjectsError(c)
      BY <1>1, <3>1 DEF HandlerInjectsError, Frames, Replies
    <3>2. CASE HandlerTakesAnswer(c)
      BY <1>1, <2>7, <3>2 DEF HandlerTakesAnswer, End
    <3>3. Handle(c) => HandlerInjectsError(c) \/ HandlerTakesAnswer(c)
      <4>1. Handle(c) => \/ HandlerInjectsError(c) \/ HandlerTakesAnswer(c)
                         \/ \E p \in {"recv", "run", "got", "ended"} : hpc' = [hpc EXCEPT ![c] = p]
        BY Zenon DEF Handle, End, HandlerReads, HandlerSubmits, HandlerLosesPeer,
           HandlerDisconnects, HandlerGivesUp, HandlerDropsReply, HandlerReplyFails,
           HandlerReplies
      <4> QED
        BY <1>1, <2>7, <4>1
    <3>4. CASE Register(c)
      BY <1>1, <2>7, <3>4 DEF Register
    <3> QED
      BY <1>1, <1>3, <2>7, <3>1, <3>2, <3>3, <3>4, NotItsHandler
  <2>8. jobs' \in Seq(Jobs \union {Sentinel})
    <3>1. ASSUME NEW c \in Conns, HandlerSubmits(c) PROVE jobs' \in Seq(Jobs \union {Sentinel})
      <4>1. JobOf(c) \in Jobs
        BY <1>1, <3>1 DEF HandlerSubmits, JobOf, Jobs, Frames
      <4> QED
        BY <1>1, <3>1, <4>1 DEF HandlerSubmits
    <3>2. Append(jobs, Sentinel) \in Seq(Jobs \union {Sentinel})
      BY <1>1
    <3>3. jobs # <<>> => Tail(jobs) \in Seq(Jobs \union {Sentinel})
      BY <1>1
    <3> QED
      BY <1>1, <1>3, <3>1, <3>2, <3>3, HandlerWrites, Zenon
  <2>9. executor' \in Jobs \union {Idle, Exited}
    <3>1. CASE ExecutorStarts
      BY <1>1, <3>1 DEF ExecutorStarts
    <3> QED
      BY <1>1, <1>3, <3>1, HandlerWrites
  <2>10. policy' \in [ep : Nat, clean : BOOLEAN]
    <3>1. CASE ExecutorStarts
      <4>1. Head(jobs) \in Jobs
        BY <1>1, <3>1 DEF ExecutorStarts
      <4> QED
        BY <1>1, <3>1, <4>1 DEF ExecutorStarts, Jobs
    <3>2. CASE ExecutorFinishes
      BY <1>1, <3>2, ServerAssumption DEF ExecutorFinishes
    <3> QED
      BY <1>1, <1>3, <3>1, <3>2, HandlerWrites
  <2> QED
    BY <2>1, <2>2, <2>3, <2>4, <2>5, <2>6, <2>7, <2>8, <2>9, <2>10
<1> QED
  BY <1>2, <1>3, Zenon DEF Next, vars

THEOREM TypeCorrect == Spec => []TypeOK
<1>1. TypeOK /\ [Next]_vars => TypeOK'
  BY WireTypeNext, ClientTypeNext, ServerTypeNext DEF TypeOK
<1> QED
  BY <1>1, TypeInit, PTL DEF Spec

-----------------------------------------------------------------------------
(* The request lock *)

(* What LockInv says of one thread, and what a thread does to the lock.       *)
LockMine(t) ==
    /\ Holds(t) <=> lock = t
    /\ pc[t] = "valid" => t \in Inferers
    /\ pc[t] = "acked" => t \in Resetters
    /\ pc[t] = "failing" => call[t].why # "none"
LockPassed(t) == lock' = lock \/ (lock = Free /\ lock' = t) \/ (lock = t /\ lock' = Free)

LEMMA LockStep ==
  ASSUME ClientTypeOK, LockInv, NEW t \in Threads, Step(t)
  PROVE  LockMine(t)' /\ LockPassed(t)
<1>1. LockMine(t) /\ t # Free /\ (t \in Resetters <=> t \notin Inferers)
  BY ClientAssumption DEF LockInv, LockMine, Threads, Free
<1> USE <1>1 DEF ClientTypeOK, LockMine, LockPassed, Holds, Goto
<1>2. CASE BeginInfer(t) \/ BeginReset(t)
  BY <1>2 DEF BeginInfer, BeginReset
<1>3. CASE AdmitInfer(t) \/ LockReset(t)
  BY <1>3 DEF AdmitInfer, LockReset, Leave
<1>4. CASE Connect(t) \/ Send(t) \/ Receive(t)
  BY <1>4 DEF Connect, Send, Receive
<1>5. CASE CommitInfer(t) \/ ConfirmReset(t)
  BY <1>5 DEF CommitInfer, ConfirmReset, Leave, Raise, Fails, Calls
<1>6. CASE FailInfer(t) \/ FailReset(t)
  BY <1>6 DEF FailInfer, FailReset, Leave
<1>7. ASSUME NEW w \in Failures \ {"none"}, Raise(t, w), Holds(t)
      PROVE  LockMine(t)' /\ LockPassed(t)
  BY <1>7 DEF Raise, Fails, Calls
<1>8. CASE LockTimesOut(t)
  BY <1>8 DEF LockTimesOut, Fails, Calls
<1>9. CASE EnsureSocket(t)
  <2>1. CASE Raise(t, "cancelled")
    BY <1>7, <1>9, <2>1 DEF EnsureSocket, Failures
  <2> QED
    BY <1>9, <2>1 DEF EnsureSocket
<1>10. CASE Publish(t)
  <2>1. CASE Raise(t, "cancelled")
    BY <1>7, <1>10, <2>1 DEF Publish, Failures
  <2> QED
    BY <1>10, <2>1 DEF Publish
<1>11. CASE Validate(t)
  <2>1. CASE \E w \in {"cancelled", "protocol", "remote"} : Raise(t, w)
    BY <1>7, <1>11, <2>1 DEF Validate, Failures
  <2>2. CASE Goto(t, "valid") /\ Current(t) /\ ~Wrong(t) /\ call[t].reply.kind = "ok"
             /\ UNCHANGED <<call, lock>>
    BY <1>11, <2>2 DEF Validate, Wrong
  <2>3. CASE Goto(t, "acked") /\ Current(t) /\ ~Wrong(t) /\ call[t].reply.kind = "ack"
             /\ lock' = Free /\ UNCHANGED call
    BY <1>11, <2>3 DEF Validate, Wrong
  <2> QED
    BY <1>11, <2>1, <2>2, <2>3, Zenon DEF Validate
<1>12. CASE \/ ConnectFails(t) \/ SendFails(t) \/ ReceiveFails(t) \/ DeadlinePasses(t)
            \/ EventSeen(t)
  <2>1. Holds(t) /\ \E w \in {"broken", "deadline", "cancelled"} : Raise(t, w)
    BY <1>12 DEF ConnectFails, SendFails, ReceiveFails, DeadlinePasses, EventSeen
  <2> QED
    BY <1>7, <2>1 DEF Failures
<1> QED
  BY <1>2, <1>3, <1>4, <1>5, <1>6, <1>8, <1>9, <1>10, <1>11, <1>12
     DEF Step, Proceed, Exchange

LEMMA LockNext == TypeOK /\ LockInv /\ [Next]_vars => LockInv'
<1> SUFFICES ASSUME TypeOK, LockInv, [Next]_vars PROVE LockInv'
  OBVIOUS
<1>1. ClientTypeOK
  BY DEF TypeOK
<1>2. CASE UNCHANGED clientVars \/ Cancel
  BY <1>2 DEF LockInv, Holds, clientVars, Cancel
<1>3. ASSUME NEW t \in Threads, Step(t) PROVE LockInv'
  <2> SUFFICES ASSUME NEW u \in Threads PROVE LockMine(u)'
    BY DEF LockInv, LockMine
  <2>1. CASE u = t
    BY <1>1, <1>3, <2>1, LockStep
  <2>2. CASE u # t
    <3>1. pc'[u] = pc[u] /\ call'[u] = call[u]
      BY <1>1, <1>3, <2>2, OnlyItself
    <3>2. lock' = u <=> lock = u
      BY <1>1, <1>3, <2>2, LockStep, ClientAssumption DEF LockPassed, Threads, Free
    <3> QED
      BY <3>1, <3>2 DEF LockInv, LockMine, Holds
  <2> QED
    BY <2>1, <2>2
<1> QED
  BY <1>2, <1>3, Zenon DEF Next, vars, ClientNext, Step

-----------------------------------------------------------------------------
(* The generation *)

(* Who changes the generation, the episode asked for and whether inference   *)
(* is open.                                                                  *)
LEMMA GenerationStep ==
  ASSUME ClientTypeOK, NEW t \in Threads, Step(t)
  PROVE  \/ BeginReset(t) \/ BeginInfer(t) \/ ConfirmReset(t)
         \/ /\ generation' = generation + 1 /\ pc'[t] = "idle" /\ wanted' = wanted
            /\ sock' = NoConn /\ resetRequired' \in {resetRequired, TRUE}
         \/ /\ UNCHANGED <<generation, wanted, resetRequired>> /\ pc[t] # "idle"
<1> USE DEF ClientTypeOK
<1>1. CASE FailInfer(t)
  <2>1. pc[t] # "idle" /\ pc'[t] = "idle" /\ UNCHANGED <<wanted, resetRequired>>
    BY <1>1 DEF FailInfer, Leave, Goto
  <2>2. Invalidates(t) => Disconnects(t)
    BY Zenon DEF Invalidates, Disconnects
  <2> QED
    BY <1>1, <2>1, <2>2 DEF FailInfer
<1>2. CASE FailReset(t)
  BY <1>2 DEF FailReset, Leave, Goto
<1>3. CASE AdmitInfer(t) \/ LockReset(t) \/ LockTimesOut(t) \/ CommitInfer(t) \/ EventSeen(t)
  BY <1>3 DEF AdmitInfer, LockReset, LockTimesOut, CommitInfer, EventSeen, clientFrame
<1>4. CASE Exchange(t)
  BY <1>4, Zenon DEF Exchange, EnsureSocket, Connect, ConnectFails, Publish, Send, SendFails,
     Receive, ReceiveFails, Validate, DeadlinePasses, clientFrame
<1> QED
  BY <1>1, <1>2, <1>3, <1>4 DEF Step, Proceed

LEMMA GenerationNext == TypeOK /\ GenerationInv /\ [Next]_vars => GenerationInv'
<1> SUFFICES ASSUME TypeOK, GenerationInv, [Next]_vars PROVE GenerationInv'
  OBVIOUS
<1>1. /\ ClientTypeOK /\ ClientTypeOK'
      /\ \A u \in Threads : call[u].gen \in Nat /\ call[u].gen <= generation
  BY ClientTypeNext DEF TypeOK, ClientTypeOK, Calls
<1>2. CASE UNCHANGED clientVars
  BY <1>2, Zenon DEF GenerationInv, Calling, Current, clientVars
<1>3. CASE Cancel
  <2>1. \A u \in Threads : call'[u].gen # generation'
    BY <1>1, <1>3 DEF Cancel, ClientTypeOK
  <2> QED
    BY <2>1, Zenon DEF GenerationInv, Calling, Current, Threads
<1>4. ASSUME NEW t \in Threads, Step(t) PROVE GenerationInv'
  <2>1. \A u \in Threads : u # t => call'[u] = call[u] /\ pc'[u] = pc[u]
    BY <1>1, <1>4, OnlyItself
  <2>2. CASE BeginReset(t)
    <3>1. /\ \A u \in Threads : u # t => call'[u].gen # generation'
          /\ t \in Resetters /\ call'[t].ep = wanted' /\ resetRequired' = TRUE
      BY <1>1, <2>1, <2>2 DEF BeginReset, ClientTypeOK, NoCall
    <3> QED
      BY <3>1, ClientAssumption DEF GenerationInv, Calling, Current, Threads
  <2>3. CASE BeginInfer(t)
    <3>1. /\ UNCHANGED <<generation, wanted, resetRequired>>
          /\ t \in Inferers /\ call'[t].ep = wanted /\ ~resetRequired
      BY <1>1, <2>3 DEF BeginInfer, ClientTypeOK, NoCall
    <3> QED
      BY <2>1, <3>1, ClientAssumption DEF GenerationInv, Calling, Current, Threads
  <2>4. CASE ConfirmReset(t)
    <3>1. /\ UNCHANGED <<generation, wanted>> /\ t \in Resetters /\ pc[t] # "idle"
          /\ (call'[t].gen = call[t].gen /\ call'[t].ep = call[t].ep) \/ pc'[t] = "idle"
      BY <1>1, <2>4 DEF ConfirmReset, ClientTypeOK, Leave, Fails, Goto, Calls
    <3>2. CASE Current(t)
      <4>1. resetRequired' = FALSE /\ pc'[t] = "idle" /\ Calling(t)
        BY <1>1, <2>4, <3>2 DEF ConfirmReset, ClientTypeOK, Leave, Goto, Calling
      <4>2. \A u \in Threads : Calling(u)' => Calling(u) /\ u # t
        BY <2>1, <3>1, <4>1 DEF Calling, Current
      <4> QED
        BY <2>1, <3>1, <4>1, <4>2, Zenon DEF GenerationInv, Threads
    <3>3. CASE ~Current(t)
      <4>1. UNCHANGED resetRequired /\ ~Calling(t)'
        BY <2>4, <3>1, <3>3 DEF ConfirmReset, Calling, Current
      <4>2. \A u \in Threads : Calling(u)' => Calling(u) /\ u # t
        BY <2>1, <3>1, <4>1 DEF Calling, Current
      <4> QED
        BY <2>1, <3>1, <4>1, <4>2, Zenon DEF GenerationInv, Threads
    <3> QED
      BY <3>2, <3>3
  <2>5. CASE generation' = generation + 1 /\ pc'[t] = "idle" /\ wanted' = wanted
    <3>1. \A u \in Threads : ~Calling(u)'
      BY <1>1, <2>1, <2>5 DEF Calling, Current, ClientTypeOK
    <3> QED
      BY <3>1, Zenon DEF GenerationInv, Threads
  <2>6. CASE UNCHANGED <<generation, wanted, resetRequired>> /\ pc[t] # "idle"
    <3>1. (call'[t].gen = call[t].gen /\ call'[t].ep = call[t].ep) \/ pc'[t] = "idle"
      BY <1>1, <1>4, <2>6, GenerationKept
    <3>2. \A u \in Threads : Calling(u)' => Calling(u) /\ call'[u].ep = call[u].ep
      BY <2>1, <2>6, <3>1 DEF Calling, Current
    <3> QED
      BY <2>6, <3>2, Zenon DEF GenerationInv, Threads
  <2> QED
    BY <1>1, <1>4, <2>2, <2>3, <2>4, <2>5, <2>6, GenerationStep
<1> QED
  BY <1>2, <1>3, <1>4, Zenon DEF Next, vars, ClientNext, Step

-----------------------------------------------------------------------------
(* The connections of the client *)

(* What ConnectionInv says of one thread.                                     *)
ConnectionMine(t) ==
    /\ pc[t] \in {"queued", "socket", "connecting"} => call[t].conn = NoConn
    /\ pc[t] = "publish" => call[t].conn # sock /\ clientEnd[call[t].conn] = "open"
    /\ Talking(t) \/ pc[t] \in {"acked", "failing"} =>
         \/ call[t].conn = NoConn \/ clientEnd[call[t].conn] = "closed"
         \/ Current(t) /\ call[t].conn = sock

LEMMA Closes ==
  ASSUME WireTypeOK, NEW c \in Conns \union {NoConn}, ClientCloses(c)
  PROVE  /\ \A d \in Conns : clientEnd'[d] = IF d = c THEN "closed" ELSE clientEnd[d]
         /\ \A d \in Conns : toClient'[d] = IF d = c THEN <<>> ELSE toClient[d]
<1>1. \A d \in Conns : clientEnd'[d] = IF d = c THEN "closed" ELSE clientEnd[d]
  <2>1. CASE c = NoConn
    BY <2>1 DEF ClientCloses, NoConn, Conns
  <2>2. CASE c # NoConn
    BY <2>2, Zenon DEF WireTypeOK, ClientCloses
  <2> QED
    BY <2>1, <2>2
<1>2. \A d \in Conns : toClient'[d] = IF d = c THEN <<>> ELSE toClient[d]
  <2>1. CASE c = NoConn
    BY <2>1 DEF ClientCloses, NoConn, Conns
  <2>2. CASE c # NoConn
    BY <2>2, Zenon DEF WireTypeOK, ClientCloses
  <2> QED
    BY <2>1, <2>2
<1> QED
  BY <1>1, <1>2

(* How a step of a thread changes the connections.                           *)
LEMMA ConnectionStep ==
  ASSUME ClientTypeOK, NEW t \in Threads, Step(t)
  PROVE  \/ /\ ClientCloses(sock) /\ sock' = NoConn
            /\ pc'[t] = "idle" \/ (pc'[t] = "queued" /\ call'[t].conn = NoConn)
         \/ UNCHANGED <<clientEnd, sock, generation>>
         \/ Connect(t) \/ Publish(t)
<1> USE DEF ClientTypeOK
<1>1. CASE FailInfer(t)
  <2>1. pc'[t] = "idle"
    BY <1>1 DEF FailInfer, Leave, Goto
  <2>2. Invalidates(t) => Disconnects(t)
    BY Zenon DEF Invalidates, Disconnects
  <2> QED
    <3>1. CASE Disconnects(t)
      BY <1>1, <2>1, <3>1, Zenon DEF FailInfer
    <3>2. CASE ~Disconnects(t)
      BY <1>1, <2>2, <3>2, Zenon DEF FailInfer
    <3> QED
      BY <3>1, <3>2
<1>2. CASE FailReset(t)
  <2>1. pc'[t] = "idle"
    BY <1>2 DEF FailReset, Leave, Goto
  <2> QED
    <3>1. CASE Current(t)
      BY <1>2, <2>1, <3>1, Zenon DEF FailReset
    <3>2. CASE ~Current(t)
      BY <1>2, <3>2, Zenon DEF FailReset
    <3> QED
      BY <3>1, <3>2
<1>3. CASE BeginReset(t)
  <2>1. pc'[t] = "queued" /\ call'[t].conn = NoConn
    BY <1>3 DEF BeginReset, Goto, NoCall
  <2> QED
    BY <1>3, <2>1, Zenon DEF BeginReset
<1>4. CASE \/ BeginInfer(t) \/ AdmitInfer(t) \/ LockReset(t) \/ LockTimesOut(t) \/ CommitInfer(t)
           \/ ConfirmReset(t) \/ EventSeen(t)
  BY <1>4, Zenon DEF BeginInfer, AdmitInfer, LockReset, LockTimesOut, CommitInfer, ConfirmReset,
     EventSeen, clientFrame, wire
<1>5. CASE Exchange(t)
  BY <1>5, Zenon DEF Exchange, EnsureSocket, ConnectFails, Send, SendFails,
     Receive, ReceiveFails, Validate, DeadlinePasses, clientFrame, wire
<1> QED
  BY <1>1, <1>2, <1>3, <1>4, <1>5, Zenon DEF Step, Proceed

(* A step that leaves the connections alone keeps its own in order.           *)
LEMMA ConnectionKept ==
  ASSUME ClientTypeOK, NEW t \in Threads, ConnectionMine(t), Step(t),
         UNCHANGED <<clientEnd, sock, generation>>, ~Connect(t), ~Publish(t)
  PROVE  ConnectionMine(t)'
<1> USE DEF ClientTypeOK, ConnectionMine, Talking, Current
<1>1. CASE pc'[t] = "idle"
  BY <1>1
<1>2. CASE \E w : Fails(t, w) /\ pc[t] \notin {"idle", "publish"}
  <2>1. /\ pc'[t] = "failing" /\ call'[t].conn = call[t].conn /\ call'[t].gen = call[t].gen
        /\ pc[t] \notin {"idle", "publish"}
    BY <1>2 DEF Fails, Goto, Calls
  <2>2. Talking(t) \/ pc[t] \in {"acked", "failing", "queued", "socket", "connecting"}
    BY <2>1 DEF Pcs
  <2> QED
    BY <2>1, <2>2
<1>3. CASE UNCHANGED call /\ \E p : Goto(t, p) /\
              \/ pc[t] \in {"queued", "socket"} /\ p \in {"socket", "connecting"}
              \/ pc[t] = "received" /\ p \in {"valid", "acked"}
  BY <1>3 DEF Goto
<1>4. CASE BeginInfer(t) \/ BeginReset(t)
  BY <1>4 DEF BeginInfer, BeginReset, Goto, NoCall
<1>5. CASE Send(t) \/ Receive(t)
  BY <1>5 DEF Send, Receive, Goto, Calls
<1>6. CASE Current(t) /\ call' = [call EXCEPT ![t].conn = sock] /\ Goto(t, "send")
  BY <1>6 DEF Goto, Calls
<1>7. Leave(t) => pc'[t] = "idle"
  BY DEF Leave, Goto
<1> QED
  BY <1>1, <1>2, <1>3, <1>4, <1>5, <1>6, <1>7
     DEF Step, Proceed, Exchange, AdmitInfer, LockReset,
     LockTimesOut, EnsureSocket, Connect, ConnectFails, SendFails, ReceiveFails, Validate,
     DeadlinePasses, EventSeen, CommitInfer, ConfirmReset, FailInfer, FailReset, Raise

LEMMA AtPublish ==
  ASSUME NEW t \in Threads, Step(t), pc[t] = "publish"
  PROVE  Publish(t)
BY DEF Step, Proceed, Exchange, BeginInfer, AdmitInfer, LockReset,
   LockTimesOut, EnsureSocket, Connect, ConnectFails, Send, SendFails, Receive,
   ReceiveFails, Validate, DeadlinePasses, EventSeen, CommitInfer, ConfirmReset, BeginReset,
   FailInfer, FailReset

LEMMA ConnectionNext ==
    TypeOK /\ LockInv /\ ConnectionInv /\ NoStrayConnection /\ [Next]_vars
      => ConnectionInv' /\ NoStrayConnection'
<1> SUFFICES ASSUME TypeOK, LockInv, ConnectionInv, NoStrayConnection, [Next]_vars
             PROVE  ConnectionInv' /\ NoStrayConnection'
  OBVIOUS
<1>1. /\ WireTypeOK /\ ClientTypeOK /\ \A u \in Threads : ConnectionMine(u)
      /\ sock # NoConn => sock \in Conns /\ clientEnd[sock] = "open"
      /\ \A u \in Threads : call[u].conn \in Conns \union {NoConn}
      /\ \A u \in Threads : pc[u] = "publish" => call[u].conn \in Conns
  BY DEF TypeOK, ClientTypeOK, Calls, ConnectionInv, ConnectionMine
<1>2. ASSUME \A u \in Threads : ConnectionMine(u)',
             sock' # NoConn => clientEnd'[sock'] = "open"
      PROVE  ConnectionInv'
  BY <1>2 DEF ConnectionInv, ConnectionMine
<1>3. CASE UNCHANGED <<clientVars, clientEnd>>
  BY <1>1, <1>3, Zenon DEF ConnectionInv, NoStrayConnection, Talking, Current, clientVars
<1>4. ASSUME ClientCloses(sock), sock' = NoConn,
             NEW u \in Threads, pc'[u] = pc[u], call'[u] = call[u]
      PROVE  ConnectionMine(u)'
  <2>1. \A d \in Conns : clientEnd'[d] = IF d = sock THEN "closed" ELSE clientEnd[d]
    BY <1>1, <1>4, Closes DEF NoConn, ClientTypeOK
  <2>2. NoConn \notin Conns
    BY DEF NoConn, Conns
  <2> QED
    BY <1>1, <1>4, <2>1, <2>2 DEF ConnectionMine, Talking
<1>5. ASSUME ClientCloses(sock), sock' = NoConn,
             \A u \in Threads : pc[u] = "publish" => pc'[u] = pc[u] /\ call'[u] = call[u]
      PROVE  NoStrayConnection'
  <2>1. \A d \in Conns : clientEnd'[d] = IF d = sock THEN "closed" ELSE clientEnd[d]
    BY <1>1, <1>5, Closes DEF NoConn, ClientTypeOK
  <2> QED
    BY <1>5, <2>1 DEF NoStrayConnection
<1>6. CASE Cancel
  <2>1. ClientCloses(sock) /\ sock' = NoConn /\ UNCHANGED <<pc, call>>
    BY <1>6, Zenon DEF Cancel
  <2> QED
    BY <1>2, <1>4, <1>5, <2>1
<1>7. ASSUME NEW t \in Threads, Step(t) PROVE ConnectionInv' /\ NoStrayConnection'
  <2>1. \A u \in Threads : u # t => call'[u] = call[u] /\ pc'[u] = pc[u]
    BY <1>1, <1>7, OnlyItself
  <2>2. CASE /\ ClientCloses(sock) /\ sock' = NoConn
             /\ pc'[t] = "idle" \/ (pc'[t] = "queued" /\ call'[t].conn = NoConn)
             /\ ~Publish(t)
    <3>1. ConnectionMine(t)'
      BY <2>2 DEF ConnectionMine, Talking
    <3>2. \A u \in Threads : ConnectionMine(u)'
      BY <1>4, <2>1, <2>2, <3>1
    <3>3. pc[t] # "publish"
      BY <1>7, <2>2, AtPublish
    <3> QED
      BY <1>2, <1>5, <2>1, <2>2, <3>2, <3>3
  <2>3. CASE UNCHANGED <<clientEnd, sock, generation>> /\ ~Connect(t) /\ ~Publish(t)
    <3>1. ConnectionMine(t)'
      BY <1>1, <1>7, <2>3, ConnectionKept
    <3>2. \A u \in Threads : ConnectionMine(u)'
      BY <1>1, <2>1, <2>3, <3>1 DEF ConnectionMine, Talking, Current
    <3>3. pc[t] # "publish"
      BY <1>7, <2>3, AtPublish
    <3> QED
      BY <1>1, <1>2, <2>1, <2>3, <3>2, <3>3 DEF NoStrayConnection
  <2>4. CASE Connect(t)
    <3>1. PICK c \in Conns : /\ clientEnd[c] = "unused"
                             /\ clientEnd' = [clientEnd EXCEPT ![c] = "open"]
                             /\ call' = [call EXCEPT ![t].conn = c]
      BY <2>4, Zenon DEF Connect, Unused
    <3>2. /\ UNCHANGED <<sock, generation>> /\ pc[t] = "connecting"
          /\ pc'[t] = "publish" /\ call'[t].conn = c
          /\ \A d \in Conns : clientEnd'[d] = IF d = c THEN "open" ELSE clientEnd[d]
      BY <1>1, <2>4, <3>1 DEF Connect, Goto, ClientTypeOK, Calls, WireTypeOK, clientFrame
    <3>3. ConnectionMine(t)' /\ \A u \in Threads : u # t => ConnectionMine(u)'
      BY <1>1, <2>1, <3>1, <3>2 DEF ConnectionMine, Talking, Current, NoConn, Conns
    <3> QED
      BY <1>1, <1>2, <2>1, <3>1, <3>2, <3>3 DEF NoStrayConnection
  <2>5. CASE Publish(t)
    <3>1. pc[t] = "publish" /\ UNCHANGED generation /\ call[t].conn \in Conns
      BY <1>1, <2>5, Zenon DEF Publish, clientFrame
    <3>2. \A u \in Threads : pc[u] = "publish" => u = t
      BY <3>1 DEF LockInv, Holds
    <3>3. NoConn \notin Conns
      BY DEF NoConn, Conns
    <3>4. CASE Current(t) /\ sock = NoConn
      <4>1. /\ sock' = call[t].conn /\ UNCHANGED clientEnd /\ pc'[t] = "send"
            /\ call'[t].conn = sock' /\ call'[t].gen = call[t].gen
        BY <1>1, <2>5, <3>4 DEF Publish, Goto, ClientTypeOK, Calls
      <4>2. \A u \in Threads : ConnectionMine(u)'
        BY <1>1, <2>1, <3>1, <3>2, <3>3, <3>4, <4>1 DEF ConnectionMine, Talking, Current
      <4>3. clientEnd'[sock'] = "open"
        BY <1>1, <3>1, <4>1 DEF ConnectionMine
      <4>4. NoStrayConnection'
        BY <2>1, <3>1, <3>2, <3>3, <3>4, <4>1 DEF NoStrayConnection
      <4> QED
        BY <1>2, <4>2, <4>3, <4>4
    <3>5. CASE Current(t) /\ sock # NoConn
      <4>1. /\ sock' = sock /\ ClientCloses(call[t].conn) /\ pc'[t] = "send"
            /\ call'[t].conn = sock /\ call'[t].gen = call[t].gen
        BY <1>1, <2>5, <3>5 DEF Publish, Goto, ClientTypeOK, Calls
      <4>2. \A d \in Conns : clientEnd'[d] = IF d = call[t].conn THEN "closed" ELSE clientEnd[d]
        BY <1>1, <3>1, <4>1, Closes
      <4>3. sock \in Conns /\ sock # call[t].conn
        BY <1>1, <3>1, <3>5 DEF ConnectionMine
      <4>4. \A u \in Threads : ConnectionMine(u)'
        BY <1>1, <2>1, <3>1, <3>2, <3>5, <4>1, <4>2, <4>3 DEF ConnectionMine, Talking, Current
      <4>5. NoStrayConnection'
        BY <2>1, <3>2, <4>1, <4>2 DEF NoStrayConnection
      <4> QED
        BY <1>1, <1>2, <3>5, <4>1, <4>2, <4>3, <4>4, <4>5
    <3>6. CASE ~Current(t)
      <4>1. /\ sock' = sock /\ ClientCloses(call[t].conn) /\ pc'[t] = "failing"
            /\ call'[t].conn = call[t].conn
        BY <1>1, <2>5, <3>6 DEF Publish, Raise, Fails, Goto, ClientTypeOK, Calls
      <4>2. \A d \in Conns : clientEnd'[d] = IF d = call[t].conn THEN "closed" ELSE clientEnd[d]
        BY <1>1, <3>1, <4>1, Closes
      <4>3. sock # call[t].conn
        BY <1>1, <3>1 DEF ConnectionMine
      <4>4. \A u \in Threads : ConnectionMine(u)'
        BY <1>1, <2>1, <3>1, <3>2, <4>1, <4>2, <4>3 DEF ConnectionMine, Talking, Current
      <4>5. NoStrayConnection'
        BY <2>1, <3>2, <4>1, <4>2 DEF NoStrayConnection
      <4> QED
        BY <1>1, <1>2, <4>1, <4>2, <4>3, <4>4, <4>5
    <3> QED
      BY <3>4, <3>5, <3>6
  <2> QED
    BY <1>1, <1>7, <2>2, <2>3, <2>4, <2>5, ConnectionStep
<1> QED
  BY <1>3, <1>6, <1>7, ServerWrites, NetworkWrites, Zenon DEF Next, vars, wire, ClientNext, Step

-----------------------------------------------------------------------------
(* What the client promises *)

ClientInv == TypeOK /\ LockInv /\ GenerationInv /\ ConnectionInv /\ NoStrayConnection

LEMMA ClientInvInit == Init => ClientInv
<1> SUFFICES ASSUME Init PROVE ClientInv
  OBVIOUS
<1>1. /\ \A t \in Threads : pc[t] = "idle" /\ t # Free
      /\ lock = Free /\ sock = NoConn /\ \A c \in Conns : clientEnd[c] = "unused"
  BY ClientAssumption DEF Init, ClientInit, WireInit, Threads, Free
<1>2. LockInv
  BY <1>1 DEF LockInv, Holds
<1>3. GenerationInv
  BY <1>1 DEF GenerationInv, Calling, Threads
<1>4. ConnectionInv /\ NoStrayConnection
  BY <1>1 DEF ConnectionInv, NoStrayConnection, Talking
<1> QED
  BY <1>2, <1>3, <1>4, TypeInit DEF ClientInv

LEMMA ClientInvNext == ClientInv /\ [Next]_vars => ClientInv'
<1>1. TypeOK /\ [Next]_vars => TypeOK'
  BY WireTypeNext, ClientTypeNext, ServerTypeNext DEF TypeOK
<1> QED
  BY <1>1, LockNext, GenerationNext, ConnectionNext DEF ClientInv

(* After cancel(), close(), reset() or a failure, no request begun before it *)
(* keeps a connection and no connection is left open behind the client.      *)
THEOREM ConnectionsCutOff == Spec => []ConnectionsAreCutOff
<1>1. ClientInv => ConnectionsAreCutOff
  <2> SUFFICES ASSUME ClientInv, NEW t \in Threads,
                      pc[t] \in {"send", "receive", "received", "valid"}, ~Current(t)
               PROVE  clientEnd[call[t].conn] = "closed"
    BY DEF ClientInv, ConnectionsAreCutOff, InvalidatedAreCutOff
  <2>1. call[t].conn \in Conns /\ NoConn \notin Conns
    BY DEF ClientInv, TypeOK, ClientTypeOK, NoConn, Conns
  <2> QED
    BY <2>1 DEF ClientInv, ConnectionInv, Talking
<1> QED
  BY <1>1, ClientInvInit, ClientInvNext, PTL DEF Spec

(* infer() never returns the answer of an episode that a reset has ended, in *)
(* whatever state the reset is.                                              *)
THEOREM OnlyCurrentAnswers == Spec => AnswersAreCurrent
<1>1. ClientInv /\ [Next]_vars =>
        [\A t \in Inferers : pc[t] = "valid" /\ pc'[t] = "idle" =>
           call[t].ep = wanted /\ ~resetRequired]_vars
  <2> SUFFICES ASSUME ClientInv, [Next]_vars, NEW t \in Inferers,
                      pc[t] = "valid", pc'[t] = "idle"
               PROVE  call[t].ep = wanted /\ ~resetRequired
    OBVIOUS
  <2>1. ClientTypeOK /\ t \in Threads
    BY DEF ClientInv, TypeOK, Threads
  <2>2. ~UNCHANGED clientVars /\ ~Cancel
    BY Zenon DEF clientVars, Cancel
  <2>3. PICK u \in Threads : Step(u)
    BY <2>2, Zenon DEF Next, vars, ClientNext, Step
  <2>4. Step(t)
    BY <2>1, <2>3, OnlyItself
  <2>5. Current(t)
    BY <2>1, <2>4 DEF Step, Proceed, Exchange, BeginInfer, AdmitInfer, LockReset,
       LockTimesOut, EnsureSocket, Connect, ConnectFails, Publish, Send, SendFails, Receive,
       ReceiveFails, Validate, DeadlinePasses, EventSeen, CommitInfer, ConfirmReset, BeginReset,
       FailInfer, FailReset, Raise, Fails, Goto, ClientTypeOK
  <2> QED
    BY <2>1, <2>5 DEF ClientInv, GenerationInv, Calling
<1>2. Spec => [][ClientInv /\ [Next]_vars]_vars
  BY ClientInvInit, ClientInvNext, PTL DEF Spec
<1> QED
  BY <1>1, <1>2, ClientInvInit, ClientInvNext, PTL DEF Spec, AnswersAreCurrent

-----------------------------------------------------------------------------
(* The server, and what client and server promise together: replies are    *)
(* paired with their requests, a close is quiet, and no inference runs on a *)
(* policy that is not the one the last acknowledged reset left.             *)

-----------------------------------------------------------------------------
(* The wire, action by action *)

LEMMA StepWire ==
  ASSUME ClientTypeOK, NEW t \in Threads, Step(t)
  PROVE  \/ UNCHANGED wire
         \/ Connect(t) \/ Send(t) \/ Receive(t)
         \/ /\ UNCHANGED <<listening, serverEnd, toServer>>
            /\ \E c \in Conns \union {NoConn} : ClientCloses(c)
<1>1. sock \in Conns \union {NoConn} /\ call[t].conn \in Conns \union {NoConn}
  BY DEF ClientTypeOK, Calls
<1>2. BeginReset(t) \/ FailInfer(t) \/ FailReset(t) \/ Publish(t) =>
        \/ UNCHANGED wire
        \/ /\ UNCHANGED <<listening, serverEnd, toServer>>
           /\ \E c \in Conns \union {NoConn} : ClientCloses(c)
  BY <1>1, Zenon DEF BeginReset, FailInfer, FailReset, Publish, wire
<1>3. \/ UNCHANGED wire
      \/ Connect(t) \/ Send(t) \/ Receive(t)
      \/ BeginReset(t) \/ FailInfer(t) \/ FailReset(t) \/ Publish(t)
  BY Zenon DEF wire, Step, Proceed, Exchange, BeginInfer, AdmitInfer, LockReset,
     LockTimesOut, EnsureSocket, ConnectFails, SendFails, ReceiveFails, Validate,
     DeadlinePasses, EventSeen, CommitInfer, ConfirmReset
<1> QED
  BY <1>2, <1>3, Zenon

LEMMA ClientWire ==
  ASSUME ClientTypeOK, ClientNext
  PROVE  \/ UNCHANGED wire
         \/ \E t \in Threads : Connect(t) \/ Send(t) \/ Receive(t)
         \/ /\ UNCHANGED <<listening, serverEnd, toServer>>
            /\ \E c \in Conns \union {NoConn} : ClientCloses(c)
<1>1. CASE Cancel
  BY <1>1, Zenon DEF Cancel, ClientTypeOK
<1> QED
  BY <1>1, StepWire, Zenon DEF ClientNext, Step

LEMMA HandlerServes ==
  ASSUME NEW c \in Conns, Handle(c)
  PROVE  hpc[c] \in {"recv", "got", "run", "reply"}
BY DEF Handle, HandlerReads, HandlerSubmits, HandlerInjectsError, HandlerLosesPeer,
   HandlerDisconnects, HandlerGivesUp, HandlerDropsReply, HandlerTakesAnswer,
   HandlerReplyFails, HandlerReplies

-----------------------------------------------------------------------------
(* Accepting *)

AcceptOf(c) ==
    /\ clientEnd[c] = "unused" => serverEnd[c] = "none" /\ toServer[c] = <<>>
    /\ clientEnd[c] # "open" => toClient[c] = <<>>
    /\ serverEnd[c] \in {"none", "backlog"} => hpc[c] = "none"
    /\ accepting = c => serverEnd[c] \notin {"none", "backlog"} /\ hpc[c] = "none"

LEMMA AcceptClient ==
  ASSUME TypeOK, NEW c \in Conns, AcceptOf(c), ClientNext, UNCHANGED serverVars
  PROVE  AcceptOf(c)'
<1> USE DEF AcceptOf
<1>1. /\ WireTypeOK /\ ClientTypeOK /\ UNCHANGED <<hpc, accepting>>
  BY DEF TypeOK, serverVars
<1>2. CASE UNCHANGED wire
  BY <1>1, <1>2 DEF wire
<1>3. ASSUME NEW d \in Conns \union {NoConn}, ClientCloses(d), UNCHANGED <<serverEnd, toServer>>
      PROVE  AcceptOf(c)'
  BY <1>1, <1>3, Closes
<1>4. ASSUME NEW t \in Threads, Connect(t) PROVE AcceptOf(c)'
  <2>1. PICK d \in Conns : /\ clientEnd[d] = "unused"
                           /\ clientEnd' = [clientEnd EXCEPT ![d] = "open"]
                           /\ serverEnd' = [serverEnd EXCEPT ![d] = "backlog"]
    BY <1>4, Zenon DEF Connect, Unused
  <2>2. UNCHANGED <<toServer, toClient>>
    BY <1>4 DEF Connect
  <2>3. /\ clientEnd'[c] = IF c = d THEN "open" ELSE clientEnd[c]
        /\ serverEnd'[c] = IF c = d THEN "backlog" ELSE serverEnd[c]
    BY <1>1, <2>1 DEF WireTypeOK
  <2> QED
    BY <1>1, <2>1, <2>2, <2>3
<1>5. ASSUME NEW t \in Threads, Send(t) PROVE AcceptOf(c)'
  <2>1. /\ UNCHANGED <<clientEnd, serverEnd, toClient>>
        /\ toServer' = toServer \/ (\E q : toServer' = [toServer EXCEPT ![call[t].conn] = q])
        /\ clientEnd[call[t].conn] = "open"
    BY <1>5, Zenon DEF Send
  <2>2. toServer'[c] = toServer[c] \/ clientEnd[c] = "open"
    BY <1>1, <2>1, Zenon DEF WireTypeOK
  <2> QED
    BY <1>1, <2>1, <2>2
<1>6. ASSUME NEW t \in Threads, Receive(t) PROVE AcceptOf(c)'
  <2>1. /\ UNCHANGED <<clientEnd, serverEnd, toServer>>
        /\ toClient[call[t].conn] # <<>>
        /\ \E q : toClient' = [toClient EXCEPT ![call[t].conn] = q]
    BY <1>6, Zenon DEF Receive
  <2>2. toClient'[c] = toClient[c] \/ toClient[c] # <<>>
    BY <1>1, <2>1, Zenon DEF WireTypeOK
  <2> QED
    BY <1>1, <2>1, <2>2
<1> QED
  BY <1>1, <1>2, <1>3, <1>4, <1>5, <1>6, ClientWire, Zenon

LEMMA AcceptNetwork ==
  ASSUME TypeOK, NEW c \in Conns, AcceptOf(c), Network, UNCHANGED serverVars
  PROVE  AcceptOf(c)'
<1>1. WireTypeOK /\ UNCHANGED <<hpc, accepting, clientEnd, serverEnd, toServer>>
  BY NetworkWrites DEF TypeOK, serverVars
<1>2. toClient'[c] = toClient[c] \/ toClient[c] # <<>>
  <2>1. ASSUME NEW d \in Conns, Garble(d) PROVE toClient'[c] = toClient[c] \/ toClient[c] # <<>>
    <3>1. toClient[d] # <<>> /\ \E q : toClient' = [toClient EXCEPT ![d] = q]
      BY <2>1, Zenon DEF Garble
    <3> QED
      BY <1>1, <3>1, Zenon DEF WireTypeOK
  <2> QED
    BY <2>1, NetworkWrites
<1> QED
  BY <1>1, <1>2 DEF AcceptOf

LEMMA AcceptServer ==
  ASSUME TypeOK, NEW c \in Conns, AcceptOf(c), ServerNext
  PROVE  AcceptOf(c)'
<1> USE DEF AcceptOf
<1>1. WireTypeOK /\ ServerTypeOK /\ UNCHANGED clientEnd /\ NoConn \notin Conns
  BY ServerWrites DEF TypeOK, Conns, NoConn
<1>2. CASE Handle(c)
  <2>1. hpc[c] \in {"recv", "got", "run", "reply"}
    BY <1>2, HandlerServes
  <2>2. /\ UNCHANGED accepting
        /\ UNCHANGED serverEnd \/ End(c)
        /\ UNCHANGED toClient \/ HandlerReplies(c)
    BY <1>2, Zenon DEF Handle, HandlerReads, HandlerSubmits, HandlerInjectsError,
       HandlerLosesPeer, HandlerDisconnects, HandlerGivesUp, HandlerDropsReply,
       HandlerTakesAnswer, HandlerReplyFails, HandlerReplies, handlerFrame, wire
  <2>3. serverEnd'[c] \notin {"none", "backlog"}
    BY <1>1, <2>1, <2>2 DEF End, WireTypeOK
  <2>4. clientEnd[c] # "open" => toClient'[c] = toClient[c]
    BY <1>1, <2>2 DEF HandlerReplies, WireTypeOK
  <2> QED
    BY <1>1, <2>1, <2>2, <2>3, <2>4
<1>3. ASSUME NEW d \in Conns, Handle(d), d # c PROVE AcceptOf(c)'
  <2>1. UNCHANGED accepting
    BY <1>3, Zenon DEF Handle, HandlerReads, HandlerSubmits, HandlerInjectsError,
       HandlerLosesPeer, HandlerDisconnects, HandlerGivesUp, HandlerDropsReply,
       HandlerTakesAnswer, HandlerReplyFails, HandlerReplies, handlerFrame
  <2> QED
    BY <1>1, <1>3, <2>1, OwnConnection
<1>4. ASSUME NEW d \in Conns, Accept(d) PROVE AcceptOf(c)'
  <2>1. /\ accepting' = d /\ serverEnd[d] = "backlog" /\ UNCHANGED <<hpc, toServer, toClient>>
        /\ serverEnd'[c] = IF c = d THEN "open" ELSE serverEnd[c]
    BY <1>1, <1>4 DEF Accept, Backlog, WireTypeOK
  <2> QED
    BY <1>1, <2>1
<1>8. ASSUME NEW d \in Conns, Register(d) PROVE AcceptOf(c)'
  <2>1. /\ accepting = d /\ accepting' = NoConn /\ UNCHANGED <<toServer, toClient>>
        /\ hpc'[c] = hpc[c] \/ c = d
        /\ serverEnd'[c] = serverEnd[c] \/ (c = d /\ serverEnd'[c] = "closed")
    BY <1>1, <1>8 DEF Register, WireTypeOK, ServerTypeOK
  <2> QED
    BY <1>1, <2>1
<1>5. CASE Execute \/ JoinHandlers \/ JoinExecutor
  BY <1>5, Zenon DEF Execute, ExecutorDrops, ExecutorStarts, ExecutorFinishes, ExecutorExits,
     JoinHandlers, JoinExecutor, closeFrame, executorFrame, wire
<1>6. CASE StopServer
  BY <1>1, <1>6 DEF StopServer, Backlog, closeFrame
<1>7. CASE ShutConnections
  BY <1>1, <1>7 DEF ShutConnections, Serving, closeFrame
<1> QED
  BY <1>2, <1>3, <1>4, <1>5, <1>6, <1>7, <1>8 DEF ServerNext, Listen, Close

LEMMA AcceptNext == TypeOK /\ AcceptInv /\ [Next]_vars => AcceptInv'
<1> SUFFICES ASSUME TypeOK, AcceptInv, [Next]_vars PROVE AcceptInv'
  OBVIOUS
<1>1. accepting' \in Conns \union {NoConn}
  BY ServerTypeNext DEF ServerTypeOK
<1>2. \A c \in Conns : AcceptOf(c)
  BY DEF AcceptInv, AcceptOf, NoConn, Conns
<1>3. ASSUME NEW c \in Conns PROVE AcceptOf(c)'
  <2>1. CASE UNCHANGED vars
    BY <1>2, <2>1 DEF AcceptOf, vars, wire, serverVars
  <2> QED
    BY <1>2, <2>1, AcceptClient, AcceptServer, AcceptNetwork DEF Next
<1> QED
  BY <1>1, <1>3 DEF AcceptInv, AcceptOf
-----------------------------------------------------------------------------
(* The jobs of the executor *)

(* What JobInv says of one job.                                               *)
JobOk(job) == hpc[job.conn] \in {"run", "ended"} /\ Waiting(job)
(* The same after the step.                                                   *)
JobStays(job) == /\ hpc'[job.conn] \in {"run", "ended"}
                 /\ hpc'[job.conn] = "run" => answer'[job.conn] = Pending

(* Only the executor, at the job itself, ends the wait of its handler.        *)
LEMMA JobKept ==
  ASSUME TypeOK, AcceptInv, ServerNext, NEW job \in Jobs, JobOk(job),
         ExecutorDrops => Head(jobs).conn # job.conn,
         ExecutorFinishes => executor.conn # job.conn
  PROVE  JobStays(job)
<1> USE DEF JobOk, JobStays, Waiting
<1>1. WireTypeOK /\ ServerTypeOK /\ job.conn \in Conns /\ NoConn \notin Conns
  BY DEF TypeOK, Jobs, Conns, NoConn
<1>2. CASE Handle(job.conn)
  <2>1. hpc[job.conn] = "run" /\ answer[job.conn] = Pending
    BY <1>1, <1>2, HandlerServes
  <2>2. HandlerGivesUp(job.conn)
    BY <1>2, <2>1 DEF Handle, HandlerReads, HandlerSubmits, HandlerInjectsError,
       HandlerLosesPeer, HandlerDisconnects, HandlerDropsReply,
       HandlerTakesAnswer, HandlerReplyFails, HandlerReplies
  <2> QED
    BY <1>1, <2>2 DEF HandlerGivesUp, End, ServerTypeOK
<1>3. CASE Register(job.conn)
  BY <1>1, <1>3 DEF Register, AcceptInv
<1>4. CASE ~Handle(job.conn) /\ ~Register(job.conn)
  <2>1. hpc'[job.conn] = hpc[job.conn]
    BY <1>1, <1>4, NotItsHandler
  <2>2. answer'[job.conn] = answer[job.conn]
    <3>1. CASE \E d \in Conns : Handle(d)
      BY <1>1, <1>4, <3>1, OwnConnection
    <3>2. ASSUME NEW j, j.conn # job.conn, NEW r, Finish(j, r) PROVE answer'[job.conn] = answer[job.conn]
      <4>1. UNCHANGED answer \/ (j.conn # job.conn /\ answer' = [answer EXCEPT ![j.conn] = r])
        BY <3>2, Zenon DEF Finish
      <4> QED
        BY <1>1, <4>1, Zenon DEF ServerTypeOK
    <3>3. CASE ExecutorDrops
      BY <3>2, <3>3, Zenon DEF ExecutorDrops
    <3>4. CASE ExecutorFinishes
      BY <3>2, <3>4, Zenon DEF ExecutorFinishes
    <3>5. \/ UNCHANGED answer \/ ExecutorDrops \/ ExecutorFinishes
          \/ \E d \in Conns : Handle(d)
      BY Zenon DEF ServerNext, Listen, Accept, Register, Execute, ExecutorStarts,
         ExecutorExits, StopServer, Close, ShutConnections, JoinHandlers, JoinExecutor,
         closeFrame
    <3> QED
      BY <3>1, <3>3, <3>4, <3>5, Zenon
  <2> QED
    BY <1>1, <2>1, <2>2
<1> QED
  BY <1>2, <1>3, <1>4

(* What becomes of the queue and of the executor.                            *)
LEMMA QueueStep ==
    ServerNext =>
      \/ ExecutorDrops \/ ExecutorStarts \/ ExecutorFinishes \/ ExecutorExits
      \/ jobs' = Append(jobs, Sentinel) /\ UNCHANGED <<executor, hpc, answer>>
      \/ \E c \in Conns : HandlerSubmits(c) /\ Handle(c) /\ UNCHANGED executor
      \/ UNCHANGED <<jobs, executor>> /\ ~ExecutorDrops /\ ~ExecutorFinishes
  BY Zenon DEF ServerNext, Listen, Accept, Register, Execute, StopServer, Close,
     ShutConnections, JoinHandlers, JoinExecutor, Handle, HandlerReads, HandlerSubmits,
     HandlerInjectsError, HandlerLosesPeer, HandlerDisconnects, HandlerGivesUp,
     HandlerDropsReply, HandlerTakesAnswer, HandlerReplyFails, HandlerReplies, handlerFrame,
     closeFrame, executorFrame

(* The jobs that are queued or in the executor after a step were before it,  *)
(* or have just been submitted.                                              *)
LEMMA JobNext == TypeOK /\ AcceptInv /\ JobInv /\ [Next]_vars => JobInv'
<1> SUFFICES ASSUME TypeOK, AcceptInv, JobInv, [Next]_vars PROVE JobInv'
  OBVIOUS
<1>1. /\ ServerTypeOK /\ ServerTypeOK' /\ jobs \in Seq(Jobs \union {Sentinel})
      /\ \A j \in Jobs : j # Sentinel /\ j # Idle /\ j # Exited /\ j.conn \in Conns
      /\ Sentinel.conn \notin Conns
  <2>1. \A j \in Jobs : j # Sentinel /\ j # Idle /\ j # Exited /\ j.conn \in Conns
    BY DEF Jobs, Sentinel, Idle, Exited, Kinds
  <2>2. Sentinel.conn \notin Conns
    BY DEF Sentinel, Conns
  <2> QED
    BY <2>1, <2>2, ServerTypeNext DEF TypeOK, ServerTypeOK
<1>2. CASE UNCHANGED serverVars
  BY <1>2, Zenon DEF JobInv, Waiting, serverVars
<1>3. CASE ServerNext
  <2>1. \A i \in DOMAIN jobs : jobs[i] # Sentinel => jobs[i] \in Jobs /\ JobOk(jobs[i])
    BY <1>1 DEF JobInv, JobOk
  <2>2. ASSUME NEW i \in DOMAIN jobs, jobs[i] # Sentinel, ExecutorDrops => i # 1
        PROVE  JobStays(jobs[i])
    <3>1. ExecutorDrops => Head(jobs).conn # jobs[i].conn
      <4>1. ExecutorDrops => /\ 1 \in DOMAIN jobs /\ Head(jobs) = jobs[1] /\ Head(jobs) # Sentinel
        BY <1>1 DEF ExecutorDrops
      <4> QED
        BY <2>2, <4>1 DEF JobInv
    <3>2. ExecutorFinishes => executor.conn # jobs[i].conn
      <4>1. ExecutorFinishes => executor \in Jobs
        BY <1>1 DEF ExecutorFinishes, Kinds, Idle, Exited, ServerTypeOK
      <4> QED
        BY <4>1, <2>2 DEF JobInv
    <3> QED
      BY <1>3, <2>1, <2>2, <3>1, <3>2, JobKept
  <2>3. executor \in Jobs /\ ~ExecutorFinishes => JobStays(executor)
    <3>1. executor \in Jobs => ~ExecutorDrops /\ JobOk(executor)
      BY <1>1 DEF ExecutorDrops, JobInv, JobOk
    <3> QED
      BY <1>3, <3>1, JobKept
  <2>a. /\ \A i \in DOMAIN jobs' : jobs'[i] # Sentinel => JobStays(jobs'[i])
        /\ executor' \in Jobs => JobStays(executor')
        /\ \A i, j \in DOMAIN jobs' :
             jobs'[i] # Sentinel /\ jobs'[i].conn = jobs'[j].conn => i = j
        /\ \A i \in DOMAIN jobs' : executor' \in Jobs => jobs'[i].conn # executor'.conn
        => JobInv'
    BY Zenon DEF JobInv, JobStays, Waiting
  <2> USE DEF JobInv
  <2>t. ASSUME jobs # <<>>, jobs' = Tail(jobs), NEW i \in DOMAIN jobs'
        PROVE  i + 1 \in DOMAIN jobs /\ jobs'[i] = jobs[i + 1] /\ i \in Nat \ {0}
    BY <1>1, <2>t
  <2>4. CASE ExecutorDrops
    <3>1. jobs # <<>> /\ jobs' = Tail(jobs) /\ executor' = executor /\ executor = Idle
      BY <2>4 DEF ExecutorDrops
    <3>2. \A i \in DOMAIN jobs' : jobs'[i] # Sentinel => JobStays(jobs'[i])
      <4> SUFFICES ASSUME NEW i \in DOMAIN jobs', jobs'[i] # Sentinel PROVE JobStays(jobs'[i])
        OBVIOUS
      <4>1. i + 1 \in DOMAIN jobs /\ jobs'[i] = jobs[i + 1] /\ i + 1 # 1
        BY <2>t, <3>1
      <4> QED
        BY <2>2, <4>1
    <3>3. executor' \notin Jobs
      BY <1>1, <3>1
    <3>4. \A i, j \in DOMAIN jobs' :
            jobs'[i] # Sentinel /\ jobs'[i].conn = jobs'[j].conn => i = j
      BY <2>t, <3>1
    <3> QED
      BY <2>a, <3>2, <3>3, <3>4
  <2>5. CASE ExecutorStarts
    <3>1. /\ jobs # <<>> /\ jobs' = Tail(jobs) /\ executor = Idle
          /\ executor' = jobs[1] /\ 1 \in DOMAIN jobs /\ jobs[1] # Sentinel
          /\ ~ExecutorDrops
      BY <1>1, <2>5 DEF ExecutorStarts, ExecutorDrops
    <3>2. \A i \in DOMAIN jobs' : jobs'[i] # Sentinel => JobStays(jobs'[i])
      BY <2>t, <2>2, <3>1
    <3>3. JobStays(executor')
      BY <2>2, <3>1
    <3>4. \A i, j \in DOMAIN jobs' :
            jobs'[i] # Sentinel /\ jobs'[i].conn = jobs'[j].conn => i = j
      BY <2>t, <3>1
    <3>5. \A i \in DOMAIN jobs' : jobs'[i].conn # executor'.conn
      BY <2>t, <3>1
    <3> QED
      BY <2>a, <3>2, <3>3, <3>4, <3>5
  <2>6. CASE ExecutorFinishes
    <3>1. UNCHANGED jobs /\ executor' = Idle /\ ~ExecutorDrops
      BY <2>6 DEF ExecutorFinishes, ExecutorDrops, Kinds, Idle
    <3>2. \A i \in DOMAIN jobs' : jobs'[i] # Sentinel => JobStays(jobs'[i])
      BY <2>2, <3>1
    <3> QED
      BY <2>a, <1>1, <3>1, <3>2
  <2>7. CASE ExecutorExits
    <3>1. jobs # <<>> /\ jobs' = Tail(jobs) /\ executor' = Exited /\ ~ExecutorDrops
      BY <2>7 DEF ExecutorExits, ExecutorDrops
    <3>2. \A i \in DOMAIN jobs' : jobs'[i] # Sentinel => JobStays(jobs'[i])
      BY <2>t, <2>2, <3>1
    <3>3. \A i, j \in DOMAIN jobs' :
            jobs'[i] # Sentinel /\ jobs'[i].conn = jobs'[j].conn => i = j
      BY <2>t, <3>1
    <3> QED
      BY <2>a, <1>1, <3>1, <3>2, <3>3
  <2>8. ASSUME NEW job \in Jobs \union {Sentinel}, jobs' = Append(jobs, job), UNCHANGED executor,
               job \in Jobs => JobStays(job) /\ ~JobOk(job)
        PROVE  JobInv'
    <3>0. ~ExecutorDrops /\ ~ExecutorFinishes
      <4>1. jobs' # jobs /\ (jobs # <<>> => jobs' # Tail(jobs))
        BY <1>1, <2>8
      <4> QED
        BY <4>1 DEF ExecutorDrops, ExecutorFinishes
    <3>1. \A i \in DOMAIN jobs' : \/ i \in DOMAIN jobs /\ jobs'[i] = jobs[i]
                                  \/ i = Len(jobs) + 1 /\ jobs'[i] = job
      BY <1>1, <2>8
    <3>2. \A i \in DOMAIN jobs' : jobs'[i] # Sentinel => JobStays(jobs'[i])
      BY <2>2, <2>8, <3>0, <3>1
    <3>3. executor' \in Jobs => JobStays(executor')
      BY <2>3, <2>8, <3>0
    <3>4. ASSUME NEW j \in Jobs, JobOk(j) PROVE job.conn # j.conn
      <4>1. CASE job = Sentinel
        BY <1>1, <4>1
      <4>2. CASE job \in Jobs
        BY <2>8, <3>4, <4>2 DEF JobOk, Waiting
      <4> QED
        BY <4>1, <4>2
    <3>5. ASSUME NEW i \in DOMAIN jobs, job \in Jobs \/ jobs[i] # Sentinel
          PROVE  jobs[i].conn # job.conn
      <4>1. CASE jobs[i] = Sentinel
        BY <1>1, <3>5, <4>1
      <4>2. CASE jobs[i] # Sentinel
        BY <2>1, <3>4, <4>2
      <4> QED
        BY <4>1, <4>2
    <3>6. \A i, j \in DOMAIN jobs' :
            jobs'[i] # Sentinel /\ jobs'[i].conn = jobs'[j].conn => i = j
      BY <2>8, <3>1, <3>5
    <3>7. \A i \in DOMAIN jobs' : executor' \in Jobs => jobs'[i].conn # executor'.conn
      <4>1. executor \in Jobs => JobOk(executor)
        BY DEF JobOk
      <4> QED
        BY <2>8, <3>1, <3>4, <4>1
    <3> QED
      BY <2>a, <3>2, <3>3, <3>6, <3>7
  <2>9. CASE jobs' = Append(jobs, Sentinel) /\ UNCHANGED <<executor, hpc, answer>>
    BY <1>1, <2>8, <2>9
  <2>10. ASSUME NEW c \in Conns, HandlerSubmits(c), UNCHANGED executor PROVE JobInv'
    <3>1. JobOf(c) \in Jobs
      BY <1>1, <2>10 DEF HandlerSubmits, JobOf, Jobs, Frames, ServerTypeOK
    <3>2. JobStays(JobOf(c)) /\ ~JobOk(JobOf(c))
      BY <1>1, <2>10 DEF HandlerSubmits, JobOf, JobOk, JobStays, Waiting, ServerTypeOK
    <3> QED
      BY <2>8, <2>10, <3>1, <3>2 DEF HandlerSubmits
  <2>11. CASE UNCHANGED <<jobs, executor>> /\ ~ExecutorDrops /\ ~ExecutorFinishes
    <3>1. \A i \in DOMAIN jobs' : jobs'[i] # Sentinel => JobStays(jobs'[i])
      BY <2>2, <2>11
    <3> QED
      BY <2>a, <2>3, <2>11, <3>1
  <2> QED
    BY <1>3, <2>4, <2>5, <2>6, <2>7, <2>9, <2>10, <2>11, QueueStep
<1> QED
  BY <1>2, <1>3, Zenon DEF Next, vars

-----------------------------------------------------------------------------
(* Closing the server *)

(* Once the server stops no handler begins.                                  *)
LEMMA ServingShrinks ==
  ASSUME TypeOK, ServerNext, stop
  PROVE  Serving' \subseteq Serving
<1> SUFFICES ASSUME NEW c \in Conns, hpc'[c] \notin {"none", "ended"}
             PROVE  hpc[c] \notin {"none", "ended"}
  BY DEF Serving
<1>1. WireTypeOK /\ ServerTypeOK
  BY DEF TypeOK
<1>2. CASE Handle(c)
  BY <1>2, HandlerServes
<1>3. CASE Register(c)
  BY <1>3 DEF Register
<1> QED
  BY <1>1, <1>2, <1>3, NotItsHandler

(* Who moves close() on, and who submits a job.                              *)
LEMMA CloseStep ==
    ServerNext =>
      /\ \/ UNCHANGED <<stop, closer, joinSet>>
         \/ StopServer \/ ShutConnections \/ JoinHandlers \/ JoinExecutor
      /\ \/ UNCHANGED <<jobs, executor>>
         \/ ExecutorDrops \/ ExecutorStarts \/ ExecutorFinishes \/ ExecutorExits \/ JoinHandlers
         \/ \E c \in Conns : HandlerSubmits(c) /\ UNCHANGED executor
      /\ UNCHANGED hpc \/ (\E c \in Conns : Register(c)) \/ \E c \in Conns : Handle(c)
<1> USE DEF ServerNext, Listen, Accept, Register, Execute, Close,
     Handle, HandlerReads, HandlerSubmits, HandlerInjectsError, HandlerLosesPeer,
     HandlerDisconnects, HandlerGivesUp, HandlerDropsReply, HandlerTakesAnswer,
     HandlerReplyFails, HandlerReplies, handlerFrame
<1>1. ServerNext => \/ UNCHANGED <<stop, closer, joinSet>>
                    \/ StopServer \/ ShutConnections \/ JoinHandlers \/ JoinExecutor
  BY Zenon DEF ExecutorDrops, ExecutorStarts, ExecutorFinishes, ExecutorExits, executorFrame
<1>2. ServerNext => \/ UNCHANGED <<jobs, executor>>
                    \/ ExecutorDrops \/ ExecutorStarts \/ ExecutorFinishes \/ ExecutorExits
                    \/ JoinHandlers \/ \E c \in Conns : HandlerSubmits(c) /\ UNCHANGED executor
  BY Zenon DEF StopServer, ShutConnections, JoinExecutor, closeFrame
<1>3. ServerNext =>
        UNCHANGED hpc \/ (\E c \in Conns : Register(c)) \/ \E c \in Conns : Handle(c)
  BY Zenon DEF StopServer, ShutConnections, JoinHandlers, JoinExecutor, closeFrame,
     ExecutorDrops, ExecutorStarts, ExecutorFinishes, ExecutorExits, executorFrame
<1> QED
  BY <1>1, <1>2, <1>3, Zenon

LEMMA CloseNext == TypeOK /\ CloseInv /\ [Next]_vars => CloseInv'
<1> SUFFICES ASSUME TypeOK, CloseInv, [Next]_vars PROVE CloseInv'
  OBVIOUS
<1>1. /\ ServerTypeOK /\ jobs \in Seq(Jobs \union {Sentinel})
      /\ \A j \in Jobs : j # Sentinel /\ j # Idle /\ j # Exited
      /\ Idle # Exited /\ Sentinel # Exited
  BY DEF TypeOK, ServerTypeOK, Jobs, Sentinel, Idle, Exited, Kinds
<1>2. CASE UNCHANGED serverVars
  BY <1>2, Zenon DEF CloseInv, Serving, serverVars
<1>3. CASE ServerNext
  <2> DEFINE Open == executor # Exited /\ \A i \in DOMAIN jobs : jobs[i] # Sentinel
             Ends == IF executor = Exited THEN jobs = <<>>
                     ELSE jobs # <<>> /\ \A i \in DOMAIN jobs : jobs[i] = Sentinel <=> i = Len(jobs)
  <2>1. stop' <=> closer' # "no"
    BY <1>3, CloseStep DEF CloseInv, StopServer, ShutConnections, JoinHandlers, JoinExecutor,
       closeFrame
  <2>2. closer' = "joining" => Serving' \subseteq joinSet'
    <3>1. CASE ShutConnections
      BY <3>1 DEF ShutConnections, Serving
    <3>2. CASE UNCHANGED <<stop, closer, joinSet>> /\ closer = "joining"
      BY <1>3, <3>2, ServingShrinks DEF CloseInv
    <3> QED
      BY <1>3, <3>1, <3>2, CloseStep DEF StopServer, JoinHandlers, JoinExecutor
  <2>3. closer \in {"no", "stopping", "joining"} => Open
    BY DEF CloseInv
  <2>c. ASSUME NEW c \in Conns, HandlerSubmits(c)
        PROVE  JobOf(c) \in Jobs /\ c \in Serving /\ jobs' = Append(jobs, JobOf(c))
    BY <1>1, <2>c DEF HandlerSubmits, JobOf, Jobs, Frames, ServerTypeOK, Serving
  <2>t. ASSUME jobs # <<>>, jobs' = Tail(jobs)
        PROVE  /\ Len(jobs') = Len(jobs) - 1 /\ 1 \in DOMAIN jobs /\ Head(jobs) = jobs[1]
               /\ Len(jobs) \in Nat /\ jobs' = <<>> <=> Len(jobs) = 1
               /\ \A i \in DOMAIN jobs' : i + 1 \in DOMAIN jobs /\ jobs'[i] = jobs[i + 1] /\ i \in Nat
    <3>1. /\ Len(jobs') = Len(jobs) - 1 /\ 1 \in DOMAIN jobs /\ Head(jobs) = jobs[1]
          /\ Len(jobs) \in Nat /\ jobs' \in Seq(Jobs \union {Sentinel})
      BY <1>1, <2>t
    <3>2. jobs' = <<>> <=> Len(jobs) = 1
      BY <3>1
    <3>3. \A i \in DOMAIN jobs' : i + 1 \in DOMAIN jobs /\ jobs'[i] = jobs[i + 1] /\ i \in Nat
      BY <1>1, <2>t
    <3> QED
      BY <3>1, <3>2, <3>3
  <2>k. ExecutorFinishes => executor # Exited
    BY DEF ExecutorFinishes, Kinds, Exited
  <2>4. ASSUME closer' \in {"no", "stopping", "joining"} PROVE Open'
    <3>1. ~JoinHandlers /\ Open
      BY <1>3, <2>3, <2>4, CloseStep DEF StopServer, ShutConnections, JoinHandlers, JoinExecutor
    <3>2. CASE UNCHANGED <<jobs, executor>>
      BY <3>1, <3>2
    <3>3. CASE ExecutorDrops
      BY <2>t, <3>1, <3>3 DEF ExecutorDrops
    <3>4. CASE ExecutorStarts
      <4>1. jobs # <<>> /\ jobs' = Tail(jobs) /\ executor' = jobs[1] /\ jobs[1] \in Jobs
        BY <1>1, <2>t, <3>1, <3>4 DEF ExecutorStarts
      <4> QED
        BY <1>1, <2>t, <3>1, <4>1
    <3>5. CASE ExecutorFinishes
      BY <1>1, <3>1, <3>5 DEF ExecutorFinishes
    <3>6. CASE ExecutorExits
      BY <2>t, <3>1, <3>6 DEF ExecutorExits
    <3>7. ASSUME NEW c \in Conns, HandlerSubmits(c), UNCHANGED executor PROVE Open'
      BY <1>1, <2>c, <3>1, <3>7
    <3> QED
      BY <1>3, <3>1, <3>2, <3>3, <3>4, <3>5, <3>6, <3>7, CloseStep
  <2>5. closer \in {"executor", "closed"} => Serving = {} /\ stop /\ Ends
    BY DEF CloseInv
  <2>6. ASSUME closer' \in {"executor", "closed"} PROVE Serving' = {} /\ Ends'
    <3>1. CASE JoinHandlers
      <4>1. /\ closer = "joining" /\ \A c \in joinSet : hpc[c] = "ended"
            /\ jobs' = Append(jobs, Sentinel) /\ UNCHANGED <<executor, hpc>>
        BY <3>1 DEF JoinHandlers, closeFrame
      <4>2. Serving' = {}
        BY <4>1 DEF CloseInv, Serving
      <4> QED
        BY <1>1, <2>3, <4>1, <4>2
    <3>2. CASE ~JoinHandlers
      <4>1. Serving = {} /\ stop /\ Ends
        BY <1>3, <2>5, <2>6, <3>2, CloseStep DEF StopServer, ShutConnections, JoinExecutor
      <4>2. Serving' = {}
        BY <1>3, <4>1, ServingShrinks
      <4>3. CASE UNCHANGED <<jobs, executor>>
        BY <4>1, <4>2, <4>3
      <4>4. CASE ExecutorDrops \/ ExecutorStarts
        <5>1. /\ jobs # <<>> /\ jobs' = Tail(jobs) /\ jobs[1] # Sentinel
              /\ executor = Idle /\ executor' \in {executor, jobs[1]} /\ jobs[1] \in Jobs
          BY <1>1, <2>t, <4>4 DEF ExecutorDrops, ExecutorStarts
        <5>2. executor' # Exited /\ executor # Exited
          BY <1>1, <5>1
        <5> QED
          BY <2>t, <4>1, <4>2, <5>1, <5>2, SMTT(60)
      <4>5. CASE ExecutorFinishes
        <5>1. executor # Exited /\ executor' # Exited /\ UNCHANGED jobs
          BY <1>1, <2>k, <4>5 DEF ExecutorFinishes
        <5> QED
          BY <4>1, <4>2, <5>1
      <4>6. CASE ExecutorExits
        <5>1. jobs # <<>> /\ jobs' = Tail(jobs) /\ Head(jobs) = Sentinel /\ executor' = Exited
              /\ executor # Exited
          BY <1>1, <4>6 DEF ExecutorExits
        <5> QED
          BY <2>t, <4>1, <4>2, <5>1
      <4>7. ASSUME NEW c \in Conns, HandlerSubmits(c) PROVE FALSE
        BY <2>c, <4>1, <4>7
      <4> QED
        BY <1>3, <3>2, <4>3, <4>4, <4>5, <4>6, <4>7, CloseStep
    <3> QED
      BY <3>1, <3>2
  <2>7. ASSUME closer' = "closed" PROVE executor' = Exited
    <3>1. executor = Exited
      BY <1>3, <2>7, CloseStep DEF CloseInv, StopServer, ShutConnections, JoinHandlers, JoinExecutor
    <3>2. ~ExecutorDrops /\ ~ExecutorStarts /\ ~ExecutorFinishes /\ ~ExecutorExits
      BY <1>1, <2>k, <3>1 DEF ExecutorDrops, ExecutorStarts, ExecutorExits
    <3> QED
      BY <1>3, <3>1, <3>2, CloseStep DEF JoinHandlers, closeFrame
  <2> QED
    BY <2>1, <2>2, <2>4, <2>6, <2>7, Zenon DEF CloseInv
<1> QED
  BY <1>2, <1>3, Zenon DEF Next, vars

-----------------------------------------------------------------------------
(* The frames of a connection *)

(* A job of a connection comes from its handler.                             *)
LEMMA JobsOf ==
  ASSUME TypeOK, ServerNext, NEW c \in Conns, ~HandlerSubmits(c)
  PROVE  /\ \A i \in DOMAIN jobs' : jobs'[i].conn = c => \E j \in DOMAIN jobs : jobs'[i] = jobs[j]
         /\ executor'.conn = c =>
              executor' = executor \/ (ExecutorStarts /\ \E j \in DOMAIN jobs : executor' = jobs[j])
<1>1. jobs \in Seq(Jobs \union {Sentinel}) /\ Sentinel.conn # c /\ Idle.conn # c /\ Exited.conn # c
  BY DEF TypeOK, ServerTypeOK, Sentinel, Idle, Exited, Conns
<1>2. ASSUME jobs # <<>>, jobs' = Tail(jobs)
      PROVE  /\ \A i \in DOMAIN jobs' : \E j \in DOMAIN jobs : jobs'[i] = jobs[j]
             /\ 1 \in DOMAIN jobs /\ Head(jobs) = jobs[1]
  <2>1. \A i \in DOMAIN jobs' : i + 1 \in DOMAIN jobs /\ jobs'[i] = jobs[i + 1]
    BY <1>1, <1>2
  <2>2. 1 \in DOMAIN jobs /\ Head(jobs) = jobs[1]
    BY <1>1, <1>2
  <2> QED
    BY <2>1, <2>2
<1>3. ASSUME NEW job \in Jobs \union {Sentinel}, job.conn # c, jobs' = Append(jobs, job)
      PROVE  \A i \in DOMAIN jobs' : jobs'[i].conn = c => \E j \in DOMAIN jobs : jobs'[i] = jobs[j]
  <2>1. \A i \in DOMAIN jobs' : (i \in DOMAIN jobs /\ jobs'[i] = jobs[i]) \/ jobs'[i] = job
    BY <1>1, <1>3
  <2> QED
    BY <1>3, <2>1
<1>4. CASE ExecutorDrops \/ ExecutorStarts \/ ExecutorExits
  BY <1>1, <1>2, <1>4 DEF ExecutorDrops, ExecutorStarts, ExecutorExits
<1>5. CASE ExecutorFinishes
  BY <1>1, <1>5 DEF ExecutorFinishes
<1>6. ASSUME NEW d \in Conns, HandlerSubmits(d), UNCHANGED executor
      PROVE  \A i \in DOMAIN jobs' : jobs'[i].conn = c => \E j \in DOMAIN jobs : jobs'[i] = jobs[j]
  <2>1. /\ jobs' = Append(jobs, JobOf(d)) /\ JobOf(d).conn # c
        /\ JobOf(d) \in Jobs
    BY <1>6 DEF HandlerSubmits, JobOf, Jobs, Frames, TypeOK, ServerTypeOK
  <2> QED
    BY <1>3, <2>1
<1> QED
  BY <1>1, <1>3, <1>4, <1>5, <1>6, QueueStep

(* What a step does to the answer of a connection that is not its handler's. *)
LEMMA AnswerOf ==
  ASSUME TypeOK, ServerNext, NEW c \in Conns, ~Handle(c)
  PROVE  \/ answer'[c] = answer[c]
         \/ hpc[c] = "run" /\ answer'[c] = Dropped
         \/ hpc[c] = "run" /\ ExecutorFinishes /\ executor.conn = c /\ ~Obsolete(executor)
              /\ \E failed \in {FALSE, Faults} :
                   /\ answer'[c] = Response(failed)
                   /\ policy' = IF executor.kind = "reset"
                                THEN [policy EXCEPT !.clean = ~failed] ELSE policy
<1>1. WireTypeOK /\ ServerTypeOK
  BY DEF TypeOK
<1>2. CASE \E d \in Conns : Handle(d)
  BY <1>1, <1>2, OwnConnection
<1>3. ASSUME NEW job, NEW r, Finish(job, r)
      PROVE  answer'[c] = answer[c] \/ (hpc[c] = "run" /\ job.conn = c /\ answer'[c] = r)
  <2>1. UNCHANGED answer \/ (hpc[job.conn] = "run" /\ answer' = [answer EXCEPT ![job.conn] = r])
    BY <1>3, Zenon DEF Finish
  <2> QED
    BY <1>1, <2>1, Zenon DEF ServerTypeOK
<1>4. CASE ExecutorDrops
  BY <1>3, <1>4, Zenon DEF ExecutorDrops
<1>5. CASE ExecutorFinishes
  BY <1>3, <1>5, ZenonT(60) DEF ExecutorFinishes
<1>6. \/ UNCHANGED answer \/ ExecutorDrops \/ ExecutorFinishes
      \/ \E d \in Conns : Handle(d)
  BY Zenon DEF ServerNext, Listen, Accept, Register, Execute, ExecutorStarts,
     ExecutorExits, StopServer, Close, ShutConnections, JoinHandlers, JoinExecutor,
     closeFrame
<1> QED
  BY <1>2, <1>4, <1>5, <1>6, Zenon

(* A handler, and who else, empties the queue of a connection.               *)
LEMMA QueueOf ==
  ASSUME TypeOK, ServerNext, NEW c \in Conns, ~Handle(c)
  PROVE  toServer'[c] = toServer[c] \/ toServer'[c] = <<>>
<1>1. WireTypeOK /\ ServerTypeOK
  BY DEF TypeOK
<1>2. CASE \E d \in Conns : Handle(d)
  BY <1>1, <1>2, OwnConnection
<1>3. CASE StopServer \/ ShutConnections
  BY <1>3 DEF StopServer, ShutConnections
<1>4. \/ UNCHANGED toServer \/ StopServer \/ ShutConnections
      \/ \E d \in Conns : Handle(d)
  BY Zenon DEF ServerNext, Listen, Accept, Register, Execute, ExecutorDrops, ExecutorFinishes,
     ExecutorStarts, ExecutorExits, Close, JoinHandlers, JoinExecutor, executorFrame, wire
<1> QED
  BY <1>2, <1>3, <1>4

FrameOk(c) == OneFrame(c) /\ (Silent(c) \/ \E t \in Threads : Owns(t, c) /\ FrameOf(t, c))

(* A handler keeps the frames of its connection those of the same request.   *)
LEMMA FrameHandler ==
  ASSUME TypeOK, JobInv, NEW c \in Conns, Handle(c), UNCHANGED clientVars,
         OneFrame(c), NEW t \in Threads, call[t].conn = c, FrameOf(t, c)
  PROVE  OneFrame(c)' /\ FrameOf(t, c)'
<1>1. WireTypeOK /\ ServerTypeOK /\ \A j \in DOMAIN jobs : jobs[j] \in Jobs \union {Sentinel}
  BY DEF TypeOK, ServerTypeOK
<1>2. Sent(t)' = Sent(t) /\ JobSent(t)' = JobSent(t) /\ call'[t].id = call[t].id
  BY Zenon DEF Sent, JobSent, KindOf, clientVars
<1>3. \A q \in Seq(Frames) : q # <<>> /\ Len(q) <= 1 => Tail(q) = <<>> /\ Head(q) = q[1]
  OBVIOUS
<1>4. CASE HandlerReads(c)
  <2>1. /\ toServer[c] # <<>> /\ hpc'[c] = "got" /\ UNCHANGED toClient
        /\ toServer'[c] = Tail(toServer[c]) /\ request'[c] = Head(toServer[c])
    BY <1>1, <1>4 DEF HandlerReads, WireTypeOK, ServerTypeOK
  <2>2. toServer'[c] = <<>> /\ request'[c] = Sent(t) /\ toClient'[c] = <<>>
    BY <1>1, <1>3, <2>1 DEF OneFrame, FrameOf, WireTypeOK
  <2> QED
    BY <1>2, <2>1, <2>2 DEF OneFrame, FrameOf
<1>5. CASE HandlerSubmits(c)
  <2>1. /\ hpc[c] = "got" /\ hpc'[c] = "run" /\ UNCHANGED <<toServer, toClient, executor>>
        /\ answer'[c] = Pending /\ jobs' = Append(jobs, JobOf(c)) /\ JobOf(c) \in Jobs
        /\ JobOf(c) = JobSent(t)
    <3>1. request[c] = Sent(t) /\ request[c] \in Frames
      BY <1>1, <1>5 DEF HandlerSubmits, FrameOf, ServerTypeOK
    <3>2. JobOf(c) \in Jobs
      BY <3>1 DEF JobOf, Jobs, Frames
    <3>3. JobOf(c) = JobSent(t)
      BY <3>1 DEF JobOf, JobSent, Sent
    <3> QED
      BY <1>1, <1>5, <3>2, <3>3 DEF HandlerSubmits, wire, handlerFrame, ServerTypeOK
  <2>2. toServer[c] = <<>> /\ toClient[c] = <<>>
    BY <2>1 DEF OneFrame, Serves
  <2>3. OneFrame(c)'
    BY <2>1, <2>2 DEF OneFrame
  <2>4. Sentinel.conn # c /\ Idle.conn # c /\ Exited.conn # c /\ Pending \notin Replies
    BY DEF Sentinel, Idle, Exited, Pending, Replies, Conns
  <2>5. executor.conn # c
    BY <1>1, <2>1, <2>4 DEF JobInv, ServerTypeOK
  <2>6. \A i \in DOMAIN jobs : jobs[i].conn # c
    BY <2>1, <2>4 DEF JobInv
  <2>7. \A i \in DOMAIN jobs' : (i \in DOMAIN jobs /\ jobs'[i] = jobs[i]) \/ jobs'[i] = JobOf(c)
    BY <1>1, <2>1 DEF ServerTypeOK
  <2> QED
    BY <1>2, <2>1, <2>2, <2>3, <2>4, <2>5, <2>6, <2>7 DEF FrameOf
<1>6. CASE HandlerInjectsError(c)
  <2>1. /\ hpc[c] = "got" /\ hpc'[c] = "reply" /\ UNCHANGED <<toServer, toClient>>
        /\ answer'[c].id = request[c].id
    BY <1>1, <1>6 DEF HandlerInjectsError, wire, ServerTypeOK
  <2>2. toServer[c] = <<>> /\ toClient[c] = <<>> /\ request[c] = Sent(t)
    BY <2>1 DEF OneFrame, Serves, FrameOf
  <2>3. answer'[c].id = call[t].id
    BY <2>1, <2>2 DEF Sent
  <2> QED
    BY <1>2, <2>1, <2>2, <2>3 DEF OneFrame, FrameOf
<1>7. CASE HandlerTakesAnswer(c) /\ ~End(c)
  <2>1. hpc[c] = "run" /\ hpc'[c] = "reply" /\ UNCHANGED <<toServer, toClient, answer>>
    BY <1>1, <1>7 DEF HandlerTakesAnswer, ServerTypeOK
  <2>2. toServer[c] = <<>> /\ toClient[c] = <<>>
    BY <2>1 DEF OneFrame, Serves
  <2> QED
    BY <1>2, <2>1, <2>2 DEF OneFrame, FrameOf
<1>8. CASE HandlerReplies(c)
  <2>1. /\ hpc[c] = "reply" /\ hpc'[c] \in {"recv", "ended"}
        /\ toClient'[c] = toClient[c] \/ toClient'[c] = Append(toClient[c], answer[c])
        /\ toServer'[c] = toServer[c] \/ toServer'[c] = <<>>
    BY <1>1, <1>8 DEF HandlerReplies, End, WireTypeOK, ServerTypeOK
  <2>2. toServer[c] = <<>> /\ toClient[c] = <<>> /\ answer[c] \in Replies
    BY <1>1, <2>1 DEF OneFrame, Serves, ServerTypeOK
  <2>3. answer[c].id = call[t].id
    BY <2>1, <2>2 DEF FrameOf
  <2>4. toServer'[c] = <<>> /\ toClient'[c] \in {<<>>, <<answer[c]>>}
    <3>1. Append(<<>>, answer[c]) = <<answer[c]>>
      OBVIOUS
    <3> QED
      BY <2>1, <2>2, <3>1, Zenon
  <2>5. OneFrame(c)'
    BY <2>1, <2>4 DEF OneFrame, Serves
  <2>6. FrameOf(t, c)'
    BY <1>2, <2>1, <2>3, <2>4 DEF FrameOf
  <2> QED
    BY <2>5, <2>6
<1>9. CASE End(c) /\ UNCHANGED toClient
  <2>1. /\ toServer'[c] = <<>> /\ hpc'[c] = "ended" /\ toClient'[c] = toClient[c]
    BY <1>1, <1>9 DEF End, WireTypeOK, ServerTypeOK
  <2>2. ~Serves(c)'
    BY <2>1 DEF Serves
  <2>3. OneFrame(c)'
    BY <2>1, <2>2 DEF OneFrame
  <2>4. FrameOf(t, c)'
    BY <1>2, <2>1 DEF FrameOf
  <2> QED
    BY <2>3, <2>4
<1> QED
  <2>1. HandlerTakesAnswer(c) => UNCHANGED toClient
    BY DEF HandlerTakesAnswer
  <2> QED
    BY <1>4, <1>5, <1>6, <1>7, <1>8, <1>9, <2>1, Zenon DEF Handle, HandlerLosesPeer,
       HandlerDisconnects, HandlerGivesUp, HandlerDropsReply, HandlerReplyFails

(* Nor do the rest of the server's steps change them.                        *)
LEMMA FrameOthers ==
  ASSUME TypeOK, AcceptInv, NEW c \in Conns, ServerNext, ~Handle(c), UNCHANGED clientVars,
         OneFrame(c), NEW t \in Threads, call[t].conn = c, FrameOf(t, c)
  PROVE  OneFrame(c)' /\ FrameOf(t, c)'
<1>1. WireTypeOK /\ ServerTypeOK
  BY DEF TypeOK
<1>2. Sent(t)' = Sent(t) /\ JobSent(t)' = JobSent(t) /\ call'[t].id = call[t].id
  BY Zenon DEF Sent, JobSent, KindOf, clientVars
<1>3. /\ toServer'[c] = toServer[c] \/ toServer'[c] = <<>>
      /\ toClient'[c] = toClient[c]
  BY <1>1, QueueOf, NotItsHandler DEF Register, wire
<1>4. CASE Register(c)
  <2>1. hpc[c] = "none" /\ hpc'[c] \in {"none", "recv"}
    <3>1. accepting = c /\ accepting # NoConn
      BY <1>4 DEF Register, NoConn, Conns
    <3>2. hpc[c] = "none"
      BY <3>1 DEF AcceptInv
    <3> QED
      BY <1>1, <1>4, <3>2 DEF Register, ServerTypeOK
  <2> QED
    BY <1>2, <1>3, <2>1 DEF OneFrame, FrameOf, Serves
<1>5. CASE ~Register(c)
  <2>1. hpc'[c] = hpc[c] /\ request'[c] = request[c]
    BY <1>1, <1>5, NotItsHandler
  <2>2. OneFrame(c)'
    BY <1>1, <1>3, <2>1 DEF OneFrame, Serves
  <2>3. ~HandlerSubmits(c)
    BY DEF Handle
  <2>4. hpc[c] = "run" => /\ \A i \in DOMAIN jobs' : jobs'[i].conn = c => jobs'[i] = JobSent(t)
                          /\ executor'.conn = c => executor' = JobSent(t)
    BY <2>3, JobsOf DEF FrameOf
  <2>5. hpc[c] \in {"run", "reply"} /\ answer'[c] \in Replies => answer'[c].id = call[t].id
    <3>1. CASE answer'[c] = answer[c]
      BY <3>1 DEF FrameOf
    <3>2. CASE answer'[c] = Dropped
      BY <3>2 DEF Dropped, Replies
    <3>3. ASSUME hpc[c] = "run", executor.conn = c, NEW failed, answer'[c] = Response(failed)
          PROVE  answer'[c].id = call[t].id
      <4>1. executor = JobSent(t)
        BY <3>3 DEF FrameOf
      <4> QED
        BY <3>3, <4>1 DEF Response, JobSent
    <3> QED
      BY <3>1, <3>2, <3>3, AnswerOf
  <2> QED
    BY <1>2, <1>3, <2>1, <2>2, <2>4, <2>5 DEF FrameOf
<1> QED
  BY <1>4, <1>5

(* The server has nothing to say to a connection that is silent.             *)
LEMMA SilentKept ==
  ASSUME TypeOK, AcceptInv, NEW c \in Conns, ServerNext, Silent(c)
  PROVE  Silent(c)'
<1>1. WireTypeOK /\ ServerTypeOK
  BY DEF TypeOK
<1>2. CASE Handle(c)
  <2>1. HandlerLosesPeer(c)
    BY <1>2 DEF Silent, Serves, Handle, HandlerReads, HandlerSubmits, HandlerInjectsError,
       HandlerDisconnects, HandlerGivesUp, HandlerDropsReply, HandlerTakesAnswer,
       HandlerReplyFails, HandlerReplies
  <2> QED
    BY <1>1, <2>1 DEF HandlerLosesPeer, End, Silent, Serves, WireTypeOK, ServerTypeOK
<1>3. CASE ~Handle(c)
  <2>1. /\ toServer'[c] = <<>> /\ toClient'[c] = <<>>
    BY <1>1, <1>3, QueueOf, NotItsHandler DEF Register, wire, Silent
  <2>2. ~Serves(c)'
    <3>1. CASE Register(c)
      <4>1. hpc'[c] \in {hpc[c], "recv"}
        BY <1>1, <3>1 DEF Register, ServerTypeOK
      <4> QED
        BY <4>1 DEF Silent, Serves
    <3>2. CASE ~Register(c)
      BY <1>1, <1>3, <3>2, NotItsHandler DEF Silent, Serves
    <3> QED
      BY <3>1, <3>2
  <2> QED
    BY <2>1, <2>2 DEF Silent
<1> QED
  BY <1>2, <1>3

LEMMA FrameServer ==
  ASSUME TypeOK, AcceptInv, JobInv, NEW c \in Conns, ServerNext, UNCHANGED clientVars,
         FrameOk(c)
  PROVE  FrameOk(c)'
<1>1. ASSUME NEW t \in Threads, Owns(t, c), FrameOf(t, c) PROVE FrameOk(c)'
  <2>1. call[t].conn = c /\ OneFrame(c)
    BY <1>1 DEF Owns, FrameOk
  <2>2. OneFrame(c)' /\ FrameOf(t, c)'
    BY <1>1, <2>1, FrameHandler, FrameOthers
  <2>3. Owns(t, c)'
    BY <1>1 DEF Owns, clientVars
  <2> QED
    BY <2>2, <2>3 DEF FrameOk
<1>2. CASE Silent(c)
  <2>1. Silent(c)'
    BY <1>2, SilentKept
  <2> QED
    BY <2>1 DEF FrameOk, OneFrame, Silent
<1> QED
  BY <1>1, <1>2 DEF FrameOk

(* Of the threads on an open connection only the one that holds the lock     *)
(* may own what is under way.                                                *)
LEMMA OneOwner ==
  ASSUME ClientInv, NEW c \in Conns, clientEnd[c] = "open",
         NEW t \in Threads, call[t].conn = c, pc[t] \in {"send", "receive"},
         NEW u \in Threads, Owns(u, c)
  PROVE  u = t
<1>1. c # NoConn
  BY DEF NoConn, Conns
<1>2. Calling(t) /\ Calling(u) /\ lock = t
  BY <1>1 DEF ClientInv, ConnectionInv, LockInv, Talking, Owns, Calling, Holds
<1>3. CASE lock = u
  BY <1>2, <1>3
<1>4. CASE lock # u
  <2>1. u \in Resetters
    BY <1>4 DEF ClientInv, LockInv, Holds, Owns, Threads
  <2> QED
    BY <1>2, <2>1 DEF ClientInv, GenerationInv, Threads
<1> QED
  BY <1>3, <1>4

(* The owner of an open connection keeps it until the answer is read.        *)
LEMMA OwnerStays ==
  ASSUME ClientInv, NEW c \in Conns, clientEnd[c] = "open", clientEnd'[c] = "open",
         NEW t \in Threads, Owns(t, c), Step(t), ~Receive(t)
  PROVE  /\ Owns(t, c)'
         /\ call'[t].id = call[t].id /\ call'[t].ep = call[t].ep /\ call'[t].conn = c
<1>1. /\ WireTypeOK /\ ClientTypeOK /\ c # NoConn /\ Current(t) /\ sock = c
      /\ pc[t] = "failing" => call[t].why \notin {"none", "remote"}
  BY DEF ClientInv, TypeOK, ConnectionInv, LockInv, Owns, Talking, NoConn, Conns
<1>2. ~ClientCloses(sock)
  BY <1>1, Closes DEF ClientTypeOK
<1>3. ~FailInfer(t)
  BY <1>1, <1>2 DEF FailInfer, Disconnects, ClientTypeOK, Calls, Failures
<1>4. ~FailReset(t)
  BY <1>1, <1>2, Zenon DEF FailReset
<1>5. SendFails(t) \/ ReceiveFails(t) \/ DeadlinePasses(t) \/ EventSeen(t)
  BY <1>3, <1>4 DEF Owns, Step, Proceed, Exchange, BeginInfer, AdmitInfer, LockReset,
     LockTimesOut, EnsureSocket, Connect, ConnectFails, Publish, Send, Receive,
     Validate, CommitInfer, ConfirmReset, BeginReset
<1>6. \E w \in {"broken", "deadline", "cancelled"} : Fails(t, w)
  BY <1>5, Zenon DEF SendFails, ReceiveFails, DeadlinePasses, EventSeen, Raise
<1> QED
  BY <1>1, <1>6 DEF Fails, Goto, Owns, ClientTypeOK, Calls

LEMMA FrameClient ==
  ASSUME ClientInv, AcceptInv, NEW c \in Conns, ClientNext, UNCHANGED serverVars,
         clientEnd[c] = "open" => FrameOk(c), clientEnd'[c] = "open"
  PROVE  FrameOk(c)'
<1>1. WireTypeOK /\ ClientTypeOK /\ TypeOK /\ UNCHANGED <<hpc, request, answer, jobs, executor>>
  BY DEF ClientInv, TypeOK, serverVars
<1>2. CASE clientEnd[c] # "open"
  <2>1. PICK t \in Threads : Connect(t)
    <3>1. UNCHANGED clientEnd \/ \E d \in Conns \union {NoConn} : ClientCloses(d)
                              \/ \E t \in Threads : Connect(t)
      BY <1>1, ClientWire DEF wire, Send, Receive
    <3> QED
      BY <1>1, <1>2, <3>1, Closes
  <2>2. clientEnd[c] = "unused" /\ UNCHANGED <<toServer, toClient>>
    <3>1. PICK d \in Conns : /\ clientEnd[d] = "unused"
                             /\ clientEnd' = [clientEnd EXCEPT ![d] = "open"]
      BY <2>1, Zenon DEF Connect, Unused
    <3>2. c = d
      BY <1>1, <1>2, <3>1 DEF WireTypeOK
    <3> QED
      BY <2>1, <3>1, <3>2 DEF Connect
  <2>3. toServer[c] = <<>> /\ toClient[c] = <<>> /\ hpc[c] = "none"
    BY <2>2 DEF AcceptInv
  <2>4. Silent(c)'
    BY <1>1, <2>2, <2>3 DEF Silent, Serves
  <2> QED
    BY <2>4 DEF FrameOk, OneFrame, Silent
<1>3. CASE clientEnd[c] = "open"
  <2>a. OneFrame(c) /\ (Silent(c) \/ \E t \in Threads : Owns(t, c) /\ FrameOf(t, c))
    BY <1>3 DEF FrameOk
  <2>b. ASSUME toServer'[c] = toServer[c], toClient'[c] = toClient[c]
        PROVE  OneFrame(c)' /\ (Silent(c) => Silent(c)')
    BY <1>1, <2>a, <2>b DEF OneFrame, Silent, Serves
  <2>c. ASSUME toServer'[c] = toServer[c], toClient'[c] = toClient[c],
               NEW u \in Threads, FrameOf(u, c), call'[u].id = call[u].id,
               call'[u].ep = call[u].ep, call'[u].conn = call[u].conn
        PROVE  FrameOf(u, c)'
    <3>1. Sent(u)' = Sent(u) /\ JobSent(u)' = JobSent(u)
      BY <2>c DEF Sent, JobSent, KindOf
    <3> QED
      BY <1>1, <2>c, <3>1 DEF FrameOf
  <2>d. ASSUME UNCHANGED wire \/ /\ UNCHANGED <<listening, serverEnd, toServer>>
                                 /\ \E d \in Conns \union {NoConn} : ClientCloses(d)
        PROVE  toServer'[c] = toServer[c] /\ toClient'[c] = toClient[c]
    BY <1>1, <1>3, <2>d, Closes DEF wire
  <2>1. CASE Cancel
    <3>1. toServer'[c] = toServer[c] /\ toClient'[c] = toClient[c] /\ UNCHANGED <<pc, call>>
      BY <1>1, <2>1, <2>d DEF Cancel, ClientTypeOK
    <3>2. ASSUME NEW u \in Threads, Owns(u, c), FrameOf(u, c) PROVE Owns(u, c)' /\ FrameOf(u, c)'
      BY <2>c, <3>1, <3>2 DEF Owns
    <3> QED
      BY <2>a, <2>b, <3>1, <3>2 DEF FrameOk
  <2>2. ASSUME NEW t \in Threads, Step(t), ~Send(t), ~Receive(t) PROVE FrameOk(c)'
    <3>1. toServer'[c] = toServer[c] /\ toClient'[c] = toClient[c]
      <4>1. CASE Connect(t)
        BY <4>1 DEF Connect
      <4>2. CASE ~Connect(t)
        BY <1>1, <2>d, <2>2, <4>2, StepWire
      <4> QED
        BY <4>1, <4>2
    <3>2. ASSUME NEW u \in Threads, Owns(u, c), FrameOf(u, c) PROVE Owns(u, c)' /\ FrameOf(u, c)'
      <4>1. CASE u = t
        <5>1. /\ Owns(t, c)' /\ call[t].conn = c
              /\ call'[t].id = call[t].id /\ call'[t].ep = call[t].ep /\ call'[t].conn = c
          BY <1>3, <2>2, <3>2, <4>1, OwnerStays DEF Owns
        <5> QED
          BY <2>c, <3>1, <3>2, <4>1, <5>1
      <4>2. CASE u # t
        <5>1. pc'[u] = pc[u] /\ call'[u] = call[u]
          BY <1>1, <2>2, <4>2, OnlyItself
        <5> QED
          BY <2>c, <3>1, <3>2, <5>1 DEF Owns
      <4> QED
        BY <4>1, <4>2
    <3> QED
      BY <2>a, <2>b, <3>1, <3>2 DEF FrameOk
  <2>3. ASSUME NEW t \in Threads, Send(t) PROVE FrameOk(c)'
    <3>1. pc[t] = "send" /\ call[t].conn \in Conns /\ UNCHANGED <<toClient, serverEnd>>
          /\ call'[t].conn = call[t].conn /\ call'[t].id = nextId /\ call'[t].ep = call[t].ep
          /\ pc'[t] = "receive"
      BY <1>1, <2>3 DEF Send, Goto, ClientTypeOK, Calls
    <3>2. CASE call[t].conn = c
      <4>1. Silent(c)
        <5>1. ASSUME NEW u \in Threads, Owns(u, c) PROVE FALSE
          BY <1>3, <3>1, <3>2, <5>1, OneOwner DEF Owns
        <5> QED
          BY <2>a, <5>1
      <4>2. toServer'[c] = <<>> \/ toServer'[c] = <<Request(t)>>
        <5>1. Append(<<>>, Request(t)) = <<Request(t)>>
          OBVIOUS
        <5>2. toServer'[c] = <<>> \/ toServer'[c] = Append(<<>>, Request(t))
          BY <1>1, <2>3, <3>2, <4>1 DEF Send, Silent, WireTypeOK
        <5> QED
          BY <5>1, <5>2, Zenon
      <4>3. Request(t) = Sent(t)'
        BY <3>1 DEF Request, Sent, KindOf
      <4>4. OneFrame(c)'
        <5>1. Len(toServer'[c]) <= 1
          <6>1. Len(<<>>) <= 1 /\ Len(<<Request(t)>>) <= 1
            OBVIOUS
          <6> QED
            BY <4>2, <6>1, Zenon
        <5>2. toClient'[c] = <<>> /\ ~Serves(c)'
          BY <1>1, <3>1, <4>1 DEF Silent, Serves
        <5> QED
          BY <5>1, <5>2 DEF OneFrame
      <4>5. Owns(t, c)'
        BY <3>1, <3>2 DEF Owns
      <4>6. FrameOf(t, c)'
        BY <1>1, <3>1, <4>1, <4>2, <4>3 DEF FrameOf, Silent, Serves
      <4> QED
        BY <4>4, <4>5, <4>6 DEF FrameOk
    <3>3. CASE call[t].conn # c
      <4>1. toServer'[c] = toServer[c] /\ toClient'[c] = toClient[c]
        <5>1. toServer' = toServer \/ \E q : toServer' = [toServer EXCEPT ![call[t].conn] = q]
          BY <2>3, Zenon DEF Send
        <5> QED
          BY <1>1, <3>1, <3>3, <5>1, Zenon DEF WireTypeOK
      <4>2. ASSUME NEW u \in Threads, Owns(u, c), FrameOf(u, c) PROVE Owns(u, c)' /\ FrameOf(u, c)'
        <5>1. u # t
          BY <3>1, <4>2 DEF Owns
        <5>2. pc'[u] = pc[u] /\ call'[u] = call[u]
          BY <1>1, <2>3, <5>1, OnlyItself DEF Step, Proceed, Exchange
        <5> QED
          BY <2>c, <4>1, <4>2, <5>2 DEF Owns
      <4> QED
        BY <2>a, <2>b, <4>1, <4>2 DEF FrameOk
    <3> QED
      BY <3>2, <3>3
  <2>4. ASSUME NEW t \in Threads, Receive(t) PROVE FrameOk(c)'
    <3>1. pc[t] = "receive" /\ call[t].conn \in Conns /\ UNCHANGED toServer
          /\ toClient[call[t].conn] # <<>>
          /\ toClient' = [toClient EXCEPT ![call[t].conn] = Tail(@)]
      BY <1>1, <2>4 DEF Receive, ClientTypeOK
    <3>2. CASE call[t].conn = c
      <4>1. toClient'[c] = <<>>
        <5>1. \A q \in Seq(Replies \union {Junk}) : q # <<>> /\ Len(q) <= 1 => Tail(q) = <<>>
          OBVIOUS
        <5> QED
          BY <1>1, <2>a, <3>1, <3>2, <5>1 DEF OneFrame, WireTypeOK
      <4>2. Silent(c)'
        BY <1>1, <2>a, <3>1, <3>2, <4>1 DEF OneFrame, Silent, Serves
      <4> QED
        BY <4>2 DEF FrameOk, OneFrame, Silent
    <3>3. CASE call[t].conn # c
      <4>1. toServer'[c] = toServer[c] /\ toClient'[c] = toClient[c]
        BY <1>1, <3>1, <3>3, Zenon DEF WireTypeOK
      <4>2. ASSUME NEW u \in Threads, Owns(u, c), FrameOf(u, c) PROVE Owns(u, c)' /\ FrameOf(u, c)'
        <5>1. u # t
          BY <3>3, <4>2 DEF Owns
        <5>2. pc'[u] = pc[u] /\ call'[u] = call[u]
          BY <1>1, <2>4, <5>1, OnlyItself DEF Step, Proceed, Exchange
        <5> QED
          BY <2>c, <4>1, <4>2, <5>2 DEF Owns
      <4> QED
        BY <2>a, <2>b, <4>1, <4>2 DEF FrameOk
    <3> QED
      BY <3>2, <3>3
  <2> QED
    BY <2>1, <2>2, <2>3, <2>4 DEF ClientNext, Step
<1> QED
  BY <1>2, <1>3

LEMMA FrameNetwork ==
  ASSUME TypeOK, NEW c \in Conns, Network, UNCHANGED <<clientVars, serverVars>>, FrameOk(c)
  PROVE  FrameOk(c)'
<1>1. /\ WireTypeOK /\ UNCHANGED <<toServer, hpc, request, answer, jobs, executor, pc, call>>
  BY NetworkWrites DEF TypeOK, serverVars, clientVars
<1>2. \/ toClient'[c] = toClient[c]
      \/ toClient[c] # <<>> /\ toClient'[c] = [toClient[c] EXCEPT ![1] = Junk]
  <2>1. ASSUME NEW d \in Conns, Garble(d)
        PROVE  \/ toClient'[c] = toClient[c]
               \/ toClient[c] # <<>> /\ toClient'[c] = [toClient[c] EXCEPT ![1] = Junk]
    BY <1>1, <2>1, Zenon DEF Garble, WireTypeOK
  <2> QED
    BY <2>1, NetworkWrites
<1>3. CASE toClient'[c] = toClient[c]
  <2>1. OneFrame(c)' /\ (Silent(c) => Silent(c)')
    BY <1>1, <1>3 DEF FrameOk, OneFrame, Silent, Serves
  <2>2. \A t \in Threads : Owns(t, c) /\ FrameOf(t, c) => Owns(t, c)' /\ FrameOf(t, c)'
    BY <1>1, <1>3 DEF Owns, FrameOf, Sent, JobSent
  <2> QED
    BY <2>1, <2>2 DEF FrameOk
<1>4. CASE toClient[c] # <<>> /\ toClient'[c] = [toClient[c] EXCEPT ![1] = Junk]
  <2>1. PICK t \in Threads : Owns(t, c) /\ FrameOf(t, c)
    BY <1>4 DEF FrameOk, Silent
  <2>2. Len(toClient'[c]) = Len(toClient[c]) /\ toClient'[c][1] = Junk
    BY <1>1, <1>4 DEF WireTypeOK
  <2>3. OneFrame(c)'
    BY <1>1, <1>4, <2>2 DEF FrameOk, OneFrame, Serves
  <2>4. Owns(t, c)' /\ FrameOf(t, c)'
    BY <1>1, <2>1, <2>2 DEF Owns, FrameOf, Sent, JobSent
  <2> QED
    BY <2>3, <2>4 DEF FrameOk
<1> QED
  BY <1>2, <1>3, <1>4

LEMMA FrameNext ==
    ClientInv /\ AcceptInv /\ JobInv /\ FrameInv /\ [Next]_vars => FrameInv'
<1> SUFFICES ASSUME ClientInv, AcceptInv, JobInv, FrameInv, [Next]_vars,
                    NEW c \in Conns, clientEnd'[c] = "open"
             PROVE  FrameOk(c)'
  BY DEF FrameInv, FrameOk
<1>1. TypeOK /\ (clientEnd[c] = "open" => FrameOk(c))
  BY DEF ClientInv, FrameInv, FrameOk
<1>2. CASE ClientNext /\ UNCHANGED serverVars
  BY <1>1, <1>2, FrameClient
<1>3. CASE ServerNext /\ UNCHANGED clientVars
  BY <1>1, <1>3, FrameServer, ServerWrites
<1>4. CASE Network /\ UNCHANGED <<clientVars, serverVars>>
  BY <1>1, <1>4, FrameNetwork, NetworkWrites
<1>5. CASE UNCHANGED vars
  <2>1. clientEnd[c] = "open" /\ UNCHANGED <<toServer, toClient, hpc, request, answer, jobs,
                                             executor, pc, call>>
    BY <1>5 DEF vars, wire, clientVars, serverVars
  <2> QED
    BY <1>1, <2>1 DEF FrameOk, OneFrame, Silent, Serves, Owns, FrameOf, Sent, JobSent
<1> QED
  BY <1>2, <1>3, <1>4, <1>5 DEF Next

LEMMA PairedNext ==
    ClientInv /\ AcceptInv /\ FrameInv /\ RepliesPaired /\ [Next]_vars => RepliesPaired'
<1> SUFFICES ASSUME ClientInv, AcceptInv, FrameInv, RepliesPaired, [Next]_vars,
                    NEW t \in Threads, pc'[t] = "received", call'[t].reply.kind # "junk"
             PROVE  call'[t].reply.id = call'[t].id
  BY DEF RepliesPaired
<1>1. ClientTypeOK /\ WireTypeOK
  BY DEF ClientInv, TypeOK
<1>2. CASE pc'[t] = pc[t] /\ call'[t] = call[t]
  BY <1>2 DEF RepliesPaired
<1>3. CASE Step(t)
  <2>1. Receive(t)
    <3>1. \/ (\E w : Fails(t, w)) \/ Leave(t) \/ Receive(t)
          \/ \E p \in Pcs \ {"received"} : Goto(t, p)
      BY <1>3, Zenon DEF Pcs, Step, Proceed, Exchange, BeginInfer, AdmitInfer, LockReset,
         LockTimesOut, EnsureSocket, Connect, ConnectFails, Publish, Send, SendFails,
         ReceiveFails, Validate, DeadlinePasses, EventSeen, CommitInfer, ConfirmReset,
         BeginReset, FailInfer, FailReset, Raise
    <3> QED
      BY <1>1, <3>1 DEF Fails, Leave, Goto, ClientTypeOK
  <2>2. PICK c \in Conns : c = call[t].conn
    BY <1>1, <2>1 DEF Receive, ClientTypeOK
  <2>3. /\ pc[t] = "receive" /\ toClient[c] # <<>> /\ call'[t].id = call[t].id
        /\ call'[t].reply = toClient[c][1]
    BY <1>1, <2>1, <2>2 DEF Receive, ClientTypeOK, WireTypeOK, Calls
  <2>4. clientEnd[c] = "open" /\ ~Silent(c)
    BY <2>3 DEF AcceptInv, Silent
  <2>5. PICK u \in Threads : Owns(u, c) /\ FrameOf(u, c)
    BY <2>4 DEF FrameInv
  <2>6. u = t
    BY <2>2, <2>3, <2>4, <2>5, OneOwner
  <2> QED
    BY <2>3, <2>5, <2>6 DEF FrameOf, Junk
<1>4. CASE \E u \in Threads : Step(u) /\ u # t
  BY <1>1, <1>2, <1>4, OnlyItself
<1>5. CASE Cancel \/ UNCHANGED clientVars
  BY <1>2, <1>5 DEF Cancel, clientVars
<1> QED
  BY <1>3, <1>4, <1>5, Zenon DEF Next, vars, ClientNext, Step

-----------------------------------------------------------------------------
(* The policy, when the server sees a close in time *)

LEMMA EofNext == TypeOK /\ ClosePrompt /\ EofInv /\ [Next]_vars => EofInv'
<1> SUFFICES ASSUME TypeOK, ClosePrompt, EofInv, [Next]_vars,
                    NEW c \in Conns, clientEnd'[c] = "closed"
             PROVE  eof'[c]
  BY DEF EofInv
<1>1. WireTypeOK /\ ClientTypeOK /\ (clientEnd[c] = "closed" => eof[c])
  BY DEF TypeOK, EofInv
<1>2. ASSUME NEW d \in Conns \union {NoConn}, ClientCloses(d) PROVE eof'[c]
  BY <1>1, <1>2 DEF ClientCloses, WireTypeOK
<1>3. ASSUME NEW t \in Threads, Connect(t) PROVE eof'[c]
  <2>1. UNCHANGED eof /\ \E d : clientEnd' = [clientEnd EXCEPT ![d] = "open"]
    BY <1>3, Zenon DEF Connect
  <2> QED
    BY <1>1, <2>1 DEF WireTypeOK
<1>4. CASE UNCHANGED <<clientEnd, eof>>
  BY <1>1, <1>4
<1>5. CASE ClientNext
  BY <1>1, <1>2, <1>3, <1>4, <1>5, ClientWire DEF wire, Send, Receive
<1>6. CASE Network
  BY <1>1, <1>6 DEF Network, EofArrives, Garble, WireTypeOK
<1> QED
  BY <1>4, <1>5, <1>6, ServerWrites DEF Next, vars, wire

(* Only the published connection has anything under way.                     *)
OthersAreSilent == \A c \in Conns : clientEnd[c] = "open" /\ c # sock => Silent(c)

LEMMA OthersSilent == ClientInv /\ FrameInv => OthersAreSilent
<1> SUFFICES ASSUME ClientInv, FrameInv, NEW c \in Conns, clientEnd[c] = "open", c # sock
             PROVE  Silent(c)
  BY DEF OthersAreSilent
<1>1. ASSUME NEW t \in Threads, Owns(t, c) PROVE FALSE
  BY <1>1 DEF ClientInv, ConnectionInv, Owns, Talking, NoConn, Conns
<1> QED
  BY <1>1 DEF FrameInv

(* What PolicyInv says of a connection.                                       *)
PolicyOn(c) ==
    /\ toServer[c] # <<>> /\ toServer[c][1].kind = "reset" => Stale
    /\ hpc[c] = "got" /\ request[c].kind = "reset" => Stale
    /\ hpc[c] = "run" => \A i \in DOMAIN jobs :
         jobs[i].conn = c /\ jobs[i].kind = "reset" => Stale
    /\ hpc[c] \in {"run", "reply"} /\ answer[c].kind = "ack" => Ready
    /\ toClient[c] # <<>> /\ toClient[c][1].kind = "ack" => Ready
(* And of a thread.                                                           *)
PolicyFor(t) == t \in Resetters /\ Calling(t) =>
    /\ pc[t] \in {"queued", "socket", "connecting", "publish", "send"} => Stale
    /\ pc[t] = "received" /\ call[t].reply.kind = "ack" => Ready
    /\ pc[t] = "acked" => Ready

LEMMA PolicyParts ==
    PolicyInv <=>
      /\ policy.ep <= wanted
      /\ executor.kind = "reset" => policy = [ep |-> executor.ep, clean |-> FALSE]
      /\ PolicyOfEpisode
      /\ ~resetRequired => Ready
      /\ \A t \in Threads : PolicyFor(t)
      /\ \A c \in Conns : clientEnd[c] = "open" => PolicyOn(c)
BY Zenon DEF PolicyInv, PolicyFor, PolicyOn, Threads

(* A thread that waits to send its reset finds the policy in an older        *)
(* episode, and an acknowledgement it reads is that of its own reset.        *)
LEMMA PolicyThread ==
  ASSUME ClientInv, ClientInv', AcceptInv, PolicyInv, UNCHANGED serverVars,
         NEW t \in Threads, Step(t), UNCHANGED <<generation, wanted>>, pc[t] # "idle"
  PROVE  PolicyFor(t)'
<1>1. /\ WireTypeOK /\ ClientTypeOK /\ ServerTypeOK /\ UNCHANGED <<policy, executor>>
      /\ PolicyFor(t) /\ \A c \in Conns : clientEnd[c] = "open" => PolicyOn(c)
  BY PolicyParts DEF ClientInv, TypeOK, serverVars
<1>2. (Stale => Stale') /\ (Ready => Ready')
  BY <1>1 DEF Stale, Ready
<1> SUFFICES ASSUME t \in Resetters, Calling(t)'
             PROVE  /\ pc'[t] \in {"queued", "socket", "connecting", "publish", "send"} => Stale
                    /\ pc'[t] = "received" /\ call'[t].reply.kind = "ack" => Ready
                    /\ pc'[t] = "acked" => Ready
  BY <1>2 DEF PolicyFor
<1>3. Calling(t) /\ t \notin Inferers
  <2>1. call'[t].gen = call[t].gen
    BY <1>1, GenerationKept DEF Calling
  <2> QED
    BY <2>1, ClientAssumption DEF Calling, Current
<1>4. ASSUME pc'[t] \in {"queued", "socket", "connecting", "publish", "send"} PROVE Stale
  <2>1. pc[t] \in {"queued", "socket", "connecting", "publish"}
    <3>1. \/ Leave(t) \/ (\E w : Fails(t, w))
          \/ \E p \in {"receive", "received", "valid", "acked"} : Goto(t, p)
          \/ pc[t] \in {"queued", "socket", "connecting", "publish"}
      BY <1>3, Zenon DEF Step, Proceed, Exchange, BeginInfer, AdmitInfer, LockReset,
         LockTimesOut, EnsureSocket, Connect, ConnectFails, Publish, Send, SendFails, Receive,
         ReceiveFails, Validate, DeadlinePasses, EventSeen, CommitInfer, ConfirmReset, BeginReset,
         FailInfer, FailReset, Raise
    <3> QED
      BY <1>1, <1>4, <3>1 DEF Fails, Leave, Goto, ClientTypeOK
  <2> QED
    BY <1>1, <1>3, <2>1 DEF PolicyFor
<1>5. ASSUME pc'[t] = "received", call'[t].reply.kind = "ack" PROVE Ready
  <2>1. Receive(t)
    <3>1. \/ (\E w : Fails(t, w)) \/ Leave(t) \/ Receive(t)
          \/ \E p \in Pcs \ {"received"} : Goto(t, p)
      BY Zenon DEF Pcs, Step, Proceed, Exchange, BeginInfer, AdmitInfer, LockReset,
         LockTimesOut, EnsureSocket, Connect, ConnectFails, Publish, Send, SendFails,
         ReceiveFails, Validate, DeadlinePasses, EventSeen, CommitInfer, ConfirmReset,
         BeginReset, FailInfer, FailReset, Raise
    <3> QED
      BY <1>1, <1>5, <3>1 DEF Fails, Leave, Goto, ClientTypeOK
  <2>2. PICK c \in Conns : c = call[t].conn
    BY <1>1, <2>1 DEF Receive, ClientTypeOK
  <2>3. toClient[c] # <<>> /\ call'[t].reply = toClient[c][1]
    BY <1>1, <2>1, <2>2 DEF Receive, ClientTypeOK, WireTypeOK, Calls
  <2>4. clientEnd[c] = "open"
    BY <2>3 DEF AcceptInv
  <2> QED
    BY <1>1, <1>5, <2>3, <2>4 DEF PolicyOn
<1>6. ASSUME pc'[t] = "acked" PROVE Ready
  <2>1. Validate(t)
    <3>1. \/ (\E w : Fails(t, w)) \/ Leave(t) \/ Validate(t)
          \/ \E p \in Pcs \ {"acked"} : Goto(t, p)
      BY Zenon DEF Pcs, Step, Proceed, Exchange, BeginInfer, AdmitInfer, LockReset,
         LockTimesOut, EnsureSocket, Connect, ConnectFails, Publish, Send, SendFails,
         Receive, ReceiveFails, DeadlinePasses, EventSeen, CommitInfer, ConfirmReset,
         BeginReset, FailInfer, FailReset, Raise
    <3> QED
      BY <1>1, <1>6, <3>1 DEF Fails, Leave, Goto, ClientTypeOK
  <2>2. pc[t] = "received" /\ call[t].reply.kind = "ack"
    BY <1>1, <1>6, <2>1 DEF Validate, Raise, Fails, Goto, ClientTypeOK
  <2> QED
    BY <1>1, <1>3, <2>2 DEF PolicyFor
<1> QED
  BY <1>4, <1>5, <1>6

(* Nor does a step of a thread put a frame under way that the policy is not  *)
(* ready for.                                                                *)
LEMMA PolicySent ==
  ASSUME ClientInv, AcceptInv, FrameInv, PolicyInv, UNCHANGED serverVars,
         NEW t \in Threads, Step(t), UNCHANGED wanted, NEW c \in Conns, clientEnd'[c] = "open"
  PROVE  PolicyOn(c)'
<1>1. /\ WireTypeOK /\ ClientTypeOK /\ UNCHANGED <<hpc, request, answer, jobs, policy, executor>>
      /\ PolicyFor(t) /\ (clientEnd[c] = "open" => PolicyOn(c) /\ OneFrame(c))
  BY PolicyParts DEF ClientInv, TypeOK, serverVars, FrameInv
<1>2. (Stale => Stale') /\ (Ready => Ready')
  BY <1>1 DEF Stale, Ready
<1>3. ASSUME toServer'[c] # <<>> /\ toServer'[c][1].kind = "reset" => Stale,
             toClient'[c] # <<>> /\ toClient'[c][1].kind = "ack" => Ready,
             clientEnd[c] = "open"
      PROVE  PolicyOn(c)'
  BY <1>1, <1>2, <1>3 DEF PolicyOn
<1>4. CASE clientEnd[c] = "open" /\ ~Send(t)
  <2>1. toServer'[c] = toServer[c] /\ toClient'[c] \in {toClient[c], <<>>}
    <3>1. CASE Connect(t) \/ UNCHANGED wire
      BY <3>1 DEF Connect, wire
    <3>2. CASE Receive(t)
      <4>1. UNCHANGED toServer /\ call[t].conn \in Conns
            /\ toClient' = [toClient EXCEPT ![call[t].conn] = Tail(@)]
            /\ toClient[call[t].conn] # <<>>
        BY <1>1, <3>2 DEF Receive, ClientTypeOK
      <4>2. CASE call[t].conn = c
        <5>1. \A q \in Seq(Replies \union {Junk}) : q # <<>> /\ Len(q) <= 1 => Tail(q) = <<>>
          OBVIOUS
        <5> QED
          BY <1>1, <1>4, <4>1, <4>2, <5>1 DEF OneFrame, WireTypeOK
      <4>3. CASE call[t].conn # c
        BY <1>1, <4>1, <4>3, Zenon DEF WireTypeOK
      <4> QED
        BY <4>1, <4>2, <4>3
    <3>3. CASE /\ UNCHANGED <<listening, serverEnd, toServer>>
               /\ \E d \in Conns \union {NoConn} : ClientCloses(d)
      BY <1>1, <3>3, Closes
    <3> QED
      BY <1>1, <1>4, <3>1, <3>2, <3>3, StepWire
  <2> QED
    BY <1>1, <1>3, <1>4, <2>1 DEF PolicyOn
<1>5. CASE clientEnd[c] = "open" /\ Send(t)
  <2>1. pc[t] = "send" /\ call[t].conn \in Conns /\ UNCHANGED toClient
    BY <1>1, <1>5 DEF Send, ClientTypeOK
  <2>2. toServer'[c] = toServer[c] \/ (c = call[t].conn /\ toServer'[c] = Append(toServer[c], Request(t)))
    BY <1>1, <1>5, <2>1 DEF Send, WireTypeOK
  <2>3. c = call[t].conn /\ Request(t).kind = "reset" => Stale
    <3> SUFFICES ASSUME c = call[t].conn, Request(t).kind = "reset" PROVE Stale
      OBVIOUS
    <3>1. t \in Resetters
      BY DEF Request, Threads
    <3>2. Calling(t)
      BY <1>5, <2>1 DEF ClientInv, ConnectionInv, Talking, Calling, NoConn, Conns
    <3> QED
      BY <1>1, <2>1, <3>1, <3>2 DEF PolicyFor
  <2>4. Append(toServer[c], Request(t))[1] =
          IF toServer[c] = <<>> THEN Request(t) ELSE toServer[c][1]
    BY <1>1 DEF WireTypeOK
  <2>5. toServer'[c] # <<>> /\ toServer'[c][1].kind = "reset" => Stale
    <3>1. CASE toServer'[c] = toServer[c]
      BY <1>1, <1>5, <3>1 DEF PolicyOn
    <3>2. CASE toServer'[c] # toServer[c] /\ toServer[c] = <<>>
      BY <2>2, <2>3, <2>4, <3>2
    <3>3. CASE toServer'[c] # toServer[c] /\ toServer[c] # <<>>
      BY <1>1, <1>5, <2>2, <2>4, <3>3 DEF PolicyOn
    <3> QED
      BY <3>1, <3>2, <3>3
  <2> QED
    BY <1>1, <1>3, <1>5, <2>1, <2>5 DEF PolicyOn
<1>6. CASE clientEnd[c] # "open"
  <2>1. Connect(t)
    BY <1>1, <1>6, StepWire, Closes DEF wire, Send, Receive
  <2>2. clientEnd[c] = "unused" /\ UNCHANGED <<toServer, toClient>>
    <3>1. PICK d \in Conns : /\ clientEnd[d] = "unused"
                             /\ clientEnd' = [clientEnd EXCEPT ![d] = "open"]
      BY <2>1, Zenon DEF Connect, Unused
    <3>2. c = d
      BY <1>1, <1>6, <3>1 DEF WireTypeOK
    <3> QED
      BY <2>1, <3>1, <3>2 DEF Connect
  <2>3. toServer[c] = <<>> /\ toClient[c] = <<>> /\ hpc[c] = "none"
    BY <2>2 DEF AcceptInv
  <2> QED
    BY <1>1, <2>2, <2>3 DEF PolicyOn
<1> QED
  BY <1>4, <1>5, <1>6

LEMMA PolicyClient ==
  ASSUME ClientInv, ClientInv', AcceptInv, FrameInv, FrameInv', PolicyInv,
         ClientNext, UNCHANGED serverVars
  PROVE  PolicyInv'
<1>1. /\ WireTypeOK /\ ClientTypeOK /\ ServerTypeOK /\ ClientTypeOK'
      /\ UNCHANGED <<hpc, request, answer, jobs, executor, policy>>
  BY DEF ClientInv, TypeOK, serverVars
<1>2. /\ wanted \in Nat /\ wanted' \in Nat /\ policy.ep \in Nat
      /\ policy.ep <= wanted
  BY <1>1, ClientAssumption DEF ClientTypeOK, ServerTypeOK, PolicyInv
<1>3. OthersAreSilent'
  <2>1. (ClientInv /\ FrameInv)' => OthersAreSilent'
    BY OthersSilent, PTL
  <2> QED
    BY <2>1
<1>4. ASSUME sock' = NoConn, NEW c \in Conns, clientEnd'[c] = "open" PROVE PolicyOn(c)'
  BY <1>3, <1>4 DEF OthersAreSilent, NoConn, Conns, Silent, Serves, PolicyOn
<1>5. ASSUME policy.ep <= wanted', ~resetRequired' => Ready',
             \A t \in Threads : PolicyFor(t)',
             \A c \in Conns : clientEnd'[c] = "open" => PolicyOn(c)'
      PROVE  PolicyInv'
  <2>1. /\ executor'.kind = "reset" => policy' = [ep |-> executor'.ep, clean |-> FALSE]
        /\ PolicyOfEpisode' /\ policy'.ep <= wanted'
    BY <1>1, <1>5 DEF PolicyInv, PolicyOfEpisode
  <2> QED
    BY <1>5, <2>1, Zenon DEF PolicyInv, PolicyFor, PolicyOn, Threads
<1>6. wanted' = wanted => (Stale => Stale') /\ (Ready => Ready')
  BY <1>1 DEF Stale, Ready
<1>7. (~resetRequired => Ready) /\ \A t \in Threads : PolicyFor(t)
  BY PolicyParts
<1>8. CASE /\ sock' = NoConn /\ wanted' = wanted /\ \A t \in Threads : ~Calling(t)'
           /\ ~resetRequired' => ~resetRequired
  <2>1. \A t \in Threads : PolicyFor(t)'
    BY <1>8 DEF PolicyFor
  <2> QED
    BY <1>2, <1>4, <1>5, <1>6, <1>7, <1>8, <2>1
<1>9. CASE Cancel
  <2>1. \A t \in Threads : ~Calling(t)'
    BY <1>1, <1>9 DEF Cancel, ClientTypeOK, Calling, Current, Calls
  <2> QED
    BY <1>8, <1>9, <2>1 DEF Cancel
<1>10. ASSUME NEW t \in Threads, Step(t) PROVE PolicyInv'
  <2>1. \A u \in Threads : u # t => call'[u] = call[u] /\ pc'[u] = pc[u]
    BY <1>1, <1>10, OnlyItself
  <2>2. CASE BeginReset(t)
    <3>1. /\ \A u \in Threads : u # t => ~Calling(u)'
          /\ resetRequired' = TRUE /\ sock' = NoConn /\ wanted' = wanted + 1 /\ pc'[t] = "queued"
      BY <1>1, <2>1, <2>2 DEF BeginReset, ClientTypeOK, Calling, Current, Calls, Goto
    <3>2. Stale'
      BY <1>1, <1>2, <3>1 DEF Stale
    <3>3. \A u \in Threads : PolicyFor(u)'
      BY <3>1, <3>2 DEF PolicyFor
    <3> QED
      BY <1>2, <1>4, <1>5, <3>1, <3>3
  <2>3. CASE /\ generation' = generation + 1 /\ pc'[t] = "idle" /\ wanted' = wanted
             /\ sock' = NoConn /\ resetRequired' \in {resetRequired, TRUE}
    <3>1. \A u \in Threads : ~Calling(u)'
      BY <1>1, <2>1, <2>3 DEF Calling, Current, ClientTypeOK, Calls
    <3> QED
      BY <1>8, <2>3, <3>1
  <2>4. ASSUME UNCHANGED <<generation, wanted>>, PolicyFor(t)', ~resetRequired' => Ready
        PROVE  PolicyInv'
    <3>1. ASSUME NEW u \in Threads, u # t PROVE PolicyFor(u)'
      BY <1>6, <1>7, <2>1, <2>4, <3>1 DEF PolicyFor, Calling, Current
    <3>2. \A c \in Conns : clientEnd'[c] = "open" => PolicyOn(c)'
      BY <1>10, <2>4, PolicySent
    <3> QED
      BY <1>2, <1>5, <1>6, <2>4, <3>1, <3>2
  <2>5. CASE BeginInfer(t)
    <3>1. UNCHANGED <<generation, wanted, resetRequired>> /\ t \notin Resetters
      BY <2>5, ClientAssumption DEF BeginInfer
    <3> QED
      BY <1>7, <2>4, <3>1 DEF PolicyFor
  <2>6. CASE ConfirmReset(t)
    <3>1. /\ UNCHANGED <<generation, wanted>> /\ t \in Resetters /\ pc[t] = "acked"
          /\ UNCHANGED resetRequired \/ Current(t)
      BY <2>6 DEF ConfirmReset
    <3>2. PolicyFor(t)'
      BY <1>10, <3>1, PolicyThread
    <3>3. Current(t) => Ready
      BY <1>7, <3>1 DEF PolicyFor, Calling
    <3> QED
      BY <1>7, <2>4, <3>1, <3>2, <3>3
  <2>7. CASE UNCHANGED <<generation, wanted, resetRequired>> /\ pc[t] # "idle"
    <3>1. PolicyFor(t)'
      BY <1>10, <2>7, PolicyThread
    <3> QED
      BY <1>7, <2>4, <2>7, <3>1
  <2> QED
    BY <1>1, <1>10, <2>2, <2>3, <2>5, <2>6, <2>7, GenerationStep
<1> QED
  BY <1>9, <1>10, Zenon DEF ClientNext, Step

(* Nothing of a connection becomes due for the policy while the server does  *)
(* not complete a reset.                                                     *)
LEMMA PolicyServed ==
  ASSUME TypeOK, AcceptInv, JobInv, ServerNext, Stale => Stale', Ready => Ready',
         ExecutorFinishes => executor.kind = "infer",
         NEW c \in Conns, OneFrame(c), PolicyOn(c)
  PROVE  PolicyOn(c)'
<1>1. WireTypeOK /\ ServerTypeOK /\ \A j \in DOMAIN jobs : jobs[j] \in Jobs \union {Sentinel}
  BY DEF TypeOK, ServerTypeOK
<1>2. CASE HandlerReads(c)
  <2>1. /\ toServer[c] # <<>> /\ hpc'[c] = "got" /\ UNCHANGED toClient
        /\ toServer'[c] = Tail(toServer[c]) /\ request'[c] = Head(toServer[c])
    BY <1>1, <1>2 DEF HandlerReads, WireTypeOK, ServerTypeOK
  <2>2. \A q \in Seq(Frames) : q # <<>> /\ Len(q) <= 1 => Tail(q) = <<>> /\ Head(q) = q[1]
    OBVIOUS
  <2>3. toServer'[c] = <<>> /\ request'[c] = toServer[c][1]
    BY <1>1, <2>1, <2>2 DEF OneFrame, WireTypeOK
  <2> QED
    BY <2>1, <2>3 DEF PolicyOn
<1>3. CASE HandlerSubmits(c)
  <2>1. /\ hpc[c] = "got" /\ hpc'[c] = "run" /\ UNCHANGED <<toServer, toClient>>
        /\ answer'[c] = Pending /\ jobs' = Append(jobs, JobOf(c)) /\ JobOf(c) \in Jobs
        /\ JobOf(c).kind = request[c].kind
    BY <1>1, <1>3 DEF HandlerSubmits, wire, handlerFrame, ServerTypeOK, JobOf, Jobs, Frames
  <2>2. \A i \in DOMAIN jobs' : (i \in DOMAIN jobs /\ jobs'[i] = jobs[i]) \/ jobs'[i] = JobOf(c)
    BY <1>1, <2>1 DEF ServerTypeOK
  <2>3. \A i \in DOMAIN jobs : jobs[i].conn # c
    <3>1. Sentinel.conn # c
      BY DEF Sentinel, Conns
    <3> QED
      BY <2>1, <3>1 DEF JobInv
  <2>4. \A i \in DOMAIN jobs' : jobs'[i].conn = c /\ jobs'[i].kind = "reset" => Stale
    BY <2>1, <2>2, <2>3 DEF PolicyOn
  <2> QED
    BY <2>1, <2>4 DEF PolicyOn, Pending
<1>4. CASE HandlerInjectsError(c)
  <2>1. /\ hpc'[c] = "reply" /\ UNCHANGED <<toServer, toClient>> /\ answer'[c].kind = "error"
    BY <1>1, <1>4 DEF HandlerInjectsError, wire, ServerTypeOK
  <2> QED
    BY <2>1 DEF PolicyOn
<1>5. CASE HandlerTakesAnswer(c) /\ ~End(c)
  <2>1. hpc[c] = "run" /\ hpc'[c] = "reply" /\ UNCHANGED <<toServer, toClient, answer>>
    BY <1>1, <1>5 DEF HandlerTakesAnswer, ServerTypeOK
  <2> QED
    BY <2>1 DEF PolicyOn
<1>6. CASE HandlerReplies(c)
  <2>1. /\ hpc[c] = "reply" /\ hpc'[c] \in {"recv", "ended"}
        /\ toClient'[c] = toClient[c] \/ toClient'[c] = Append(toClient[c], answer[c])
        /\ toServer'[c] = toServer[c] \/ toServer'[c] = <<>>
    BY <1>1, <1>6 DEF HandlerReplies, End, WireTypeOK, ServerTypeOK
  <2>2. toServer[c] = <<>> /\ toClient[c] = <<>>
    BY <1>1, <2>1 DEF OneFrame, Serves
  <2>3. toServer'[c] = <<>> /\ toClient'[c] \in {<<>>, <<answer[c]>>}
    <3>1. Append(<<>>, answer[c]) = <<answer[c]>>
      OBVIOUS
    <3> QED
      BY <2>1, <2>2, <3>1, Zenon
  <2>4. <<answer[c]>>[1] = answer[c]
    OBVIOUS
  <2> QED
    BY <2>1, <2>3, <2>4 DEF PolicyOn
<1>7. CASE End(c) /\ UNCHANGED toClient
  <2>1. /\ toServer'[c] = <<>> /\ hpc'[c] = "ended" /\ toClient'[c] = toClient[c]
    BY <1>1, <1>7 DEF End, WireTypeOK, ServerTypeOK
  <2> QED
    BY <2>1 DEF PolicyOn
<1>8. CASE ~Handle(c)
  <2>1. /\ toServer'[c] = toServer[c] \/ toServer'[c] = <<>>
        /\ toClient'[c] = toClient[c]
    BY <1>1, <1>8, QueueOf, NotItsHandler DEF Register, wire
  <2>2. CASE Register(c)
    <3>1. hpc[c] = "none" /\ hpc'[c] \in {"none", "recv"}
      <4>1. accepting = c /\ accepting # NoConn
        BY <2>2 DEF Register, NoConn, Conns
      <4>2. hpc[c] = "none"
        BY <4>1 DEF AcceptInv
      <4> QED
        BY <1>1, <2>2, <4>2 DEF Register, ServerTypeOK
    <3> QED
      BY <2>1, <3>1 DEF PolicyOn
  <2>3. CASE ~Register(c)
    <3>1. hpc'[c] = hpc[c] /\ request'[c] = request[c]
      BY <1>1, <1>8, <2>3, NotItsHandler
    <3>2. \A i \in DOMAIN jobs' : jobs'[i].conn = c => \E j \in DOMAIN jobs : jobs'[i] = jobs[j]
      BY <1>8, JobsOf DEF Handle
    <3>3. answer'[c].kind = "ack" => answer'[c] = answer[c]
      BY <1>8, AnswerOf DEF Dropped, Response
    <3>4. /\ toServer'[c] # <<>> /\ toServer'[c][1].kind = "reset" => Stale
          /\ hpc'[c] = "got" /\ request'[c].kind = "reset" => Stale
          /\ hpc'[c] = "run" => \A i \in DOMAIN jobs' :
               jobs'[i].conn = c /\ jobs'[i].kind = "reset" => Stale
      BY <2>1, <3>1, <3>2 DEF PolicyOn
    <3>5. /\ hpc'[c] \in {"run", "reply"} /\ answer'[c].kind = "ack" => Ready
          /\ toClient'[c] # <<>> /\ toClient'[c][1].kind = "ack" => Ready
      BY <2>1, <3>1, <3>3 DEF PolicyOn
    <3> QED
      BY <3>4, <3>5 DEF PolicyOn
  <2> QED
    BY <2>2, <2>3
<1> QED
  <2>1. HandlerTakesAnswer(c) => UNCHANGED toClient
    BY DEF HandlerTakesAnswer
  <2> QED
    BY <1>2, <1>3, <1>4, <1>5, <1>6, <1>7, <1>8, <2>1, Zenon DEF Handle, HandlerLosesPeer,
       HandlerDisconnects, HandlerGivesUp, HandlerDropsReply, HandlerReplyFails

(* A job that is not obsolete is that of the thread that now waits for it.    *)
LEMMA JobIsCurrent ==
  ASSUME ClientInv, AcceptInv, FrameInv, EofInv, NEW job \in Jobs, ~Obsolete(job),
         executor = job \/ \E i \in DOMAIN jobs : jobs[i] = job
  PROVE  /\ clientEnd[job.conn] = "open" /\ job.conn = sock /\ job.ep = wanted
         /\ hpc[job.conn] = "run" /\ OneFrame(job.conn)
         /\ \E t \in Threads : Owns(t, job.conn) /\ Calling(t) /\ job.kind = KindOf(t)
<1>1. PICK c \in Conns : c = job.conn
  BY DEF Jobs
<1>2. hpc[c] = "run" /\ ~eof[c]
  BY <1>1 DEF Obsolete, Disconnected
<1>3. clientEnd[c] = "open"
  <2>1. clientEnd[c] \in {"unused", "open", "closed"}
    BY DEF ClientInv, TypeOK, WireTypeOK
  <2> QED
    BY <1>2, <2>1 DEF AcceptInv, EofInv
<1>4. PICK t \in Threads : Owns(t, c) /\ FrameOf(t, c)
  BY <1>2, <1>3 DEF FrameInv, Silent, Serves
<1>5. job = JobSent(t)
  BY <1>1, <1>2, <1>4 DEF FrameOf
<1>6. Current(t) /\ c = sock
  BY <1>3, <1>4 DEF ClientInv, ConnectionInv, Owns, Talking, NoConn, Conns
<1>7. Calling(t) /\ job.ep = wanted /\ job.kind = KindOf(t)
  BY <1>4, <1>5, <1>6 DEF Calling, Owns, ClientInv, GenerationInv, JobSent
<1> QED
  BY <1>1, <1>2, <1>3, <1>4, <1>6, <1>7 DEF FrameInv

LEMMA PolicyServer ==
  ASSUME ClientInv, AcceptInv, JobInv, FrameInv, EofInv, PolicyInv,
         ServerNext, UNCHANGED clientVars
  PROVE  PolicyInv'
<1>1. /\ TypeOK /\ WireTypeOK /\ ServerTypeOK /\ policy \in [ep : Nat, clean : BOOLEAN]
      /\ jobs \in Seq(Jobs \union {Sentinel}) /\ executor \in Jobs \union {Idle, Exited}
      /\ UNCHANGED <<clientEnd, eof, resetRequired, wanted, sock>>
      /\ Idle.kind = "idle" /\ Exited.kind = "exited"
  BY ServerWrites DEF ClientInv, TypeOK, ServerTypeOK, clientVars, Idle, Exited
<1>2. /\ policy.ep <= wanted /\ (~resetRequired => Ready) /\ PolicyOfEpisode
      /\ executor.kind = "reset" => policy = [ep |-> executor.ep, clean |-> FALSE]
      /\ \A t \in Threads : PolicyFor(t)
      /\ \A c \in Conns : clientEnd[c] = "open" => PolicyOn(c) /\ OneFrame(c)
  BY PolicyParts DEF FrameInv
<1>3. ASSUME policy'.ep <= wanted,
             executor'.kind = "reset" => policy' = [ep |-> executor'.ep, clean |-> FALSE],
             PolicyOfEpisode', ~resetRequired => Ready',
             \A t \in Threads : PolicyFor(t)',
             \A c \in Conns : clientEnd[c] = "open" => PolicyOn(c)'
      PROVE  PolicyInv'
  BY <1>1, <1>3, Zenon DEF PolicyInv, PolicyFor, PolicyOn, Threads
<1>4. \A t \in Threads : Calling(t)' <=> Calling(t)
  BY DEF Calling, Current, clientVars
<1>5. ASSUME UNCHANGED policy, executor'.kind = "reset" => executor' = executor,
             ExecutorFinishes => executor.kind = "infer",
             executor'.kind = "infer" =>
               executor' = executor \/ policy = [ep |-> executor'.ep, clean |-> TRUE]
      PROVE  PolicyInv'
  <2>1. Stale' = Stale /\ (Ready => Ready')
    BY <1>1, <1>5 DEF Stale, Ready
  <2>2. PolicyOfEpisode'
    BY <1>2, <1>5 DEF PolicyOfEpisode
  <2>3. \A t \in Threads : PolicyFor(t)'
    BY <1>2, <1>4, <2>1 DEF PolicyFor, clientVars
  <2>4. \A c \in Conns : clientEnd[c] = "open" => PolicyOn(c)'
    BY <1>1, <1>2, <1>5, <2>1, PolicyServed
  <2>5. executor'.kind = "reset" => policy' = [ep |-> executor'.ep, clean |-> FALSE]
    BY <1>2, <1>5
  <2> QED
    BY <1>1, <1>2, <1>3, <1>5, <2>1, <2>2, <2>3, <2>4, <2>5
<1>6. ASSUME ExecutorStarts PROVE PolicyInv'
  <2>1. PICK job \in Jobs : /\ jobs # <<>> /\ job = Head(jobs) /\ executor' = job
                            /\ ~Obsolete(job) /\ jobs' = Tail(jobs) /\ executor = Idle
                            /\ policy' = IF job.kind = "reset"
                                         THEN [ep |-> job.ep, clean |-> FALSE] ELSE policy
                            /\ UNCHANGED <<hpc, request, answer, toServer, toClient>>
    <3>1. Head(jobs) \in Jobs
      BY <1>1, <1>6 DEF ExecutorStarts
    <3> QED
      BY <1>6, <3>1, Zenon DEF ExecutorStarts, executorFrame, wire
  <2>2. 1 \in DOMAIN jobs /\ jobs[1] = job
    BY <1>1, <2>1
  <2>3. PICK t \in Threads : Owns(t, job.conn) /\ Calling(t) /\ job.kind = KindOf(t)
    BY <2>1, <2>2, JobIsCurrent
  <2>4. /\ clientEnd[job.conn] = "open" /\ job.conn = sock /\ job.ep = wanted
        /\ hpc[job.conn] = "run" /\ OneFrame(job.conn) /\ job.conn \in Conns
    BY <2>1, <2>2, JobIsCurrent DEF Jobs
  <2>5. CASE job.kind = "infer"
    <3>1. t \in Inferers
      BY <2>3, <2>5 DEF KindOf
    <3>2. Ready
      BY <1>2, <2>3, <3>1 DEF ClientInv, GenerationInv
    <3>3. ~ExecutorFinishes
      BY <2>1, <1>1 DEF ExecutorFinishes, Kinds
    <3> QED
      BY <1>5, <2>1, <2>4, <2>5, <3>2, <3>3 DEF Ready
  <2>6. CASE job.kind = "reset"
    <3>1. t \in Resetters /\ resetRequired
      BY <2>3, <2>6 DEF KindOf, Threads, ClientInv, GenerationInv
    <3>2. policy' = [ep |-> wanted, clean |-> FALSE] /\ executor'.kind = "reset" /\ executor'.ep = wanted
      BY <2>1, <2>4, <2>6
    <3>3. ASSUME NEW u \in Threads PROVE PolicyFor(u)'
      <4>1. u \in Resetters /\ Calling(u) => u = t
        BY <2>3, <3>1 DEF ClientInv, GenerationInv
      <4>2. u = t => pc'[u] \in {"receive", "failing"}
        BY <2>3 DEF Owns, clientVars
      <4> QED
        BY <1>4, <4>1, <4>2 DEF PolicyFor
    <3>4. ASSUME NEW d \in Conns, clientEnd[d] = "open" PROVE PolicyOn(d)'
      <4>1. CASE d # job.conn
        <5>1. Silent(d)
          BY <2>4, <3>4, <4>1, OthersSilent DEF OthersAreSilent
        <5> QED
          BY <2>1, <5>1 DEF Silent, Serves, PolicyOn
      <4>2. CASE d = job.conn
        <5>1. toServer[d] = <<>> /\ toClient[d] = <<>>
          BY <2>4, <4>2 DEF OneFrame, Serves
        <5>2. \A i \in DOMAIN jobs' : jobs'[i].conn # d
          <6>1. \A i \in DOMAIN jobs' : i + 1 \in DOMAIN jobs /\ jobs'[i] = jobs[i + 1] /\ i + 1 # 1
            BY <1>1, <2>1
          <6>2. jobs[1] # Sentinel
            BY <2>2 DEF Jobs, Sentinel, Kinds
          <6> QED
            BY <2>2, <4>2, <6>1, <6>2 DEF JobInv
        <5>3. answer[d] = Pending
          <6>1. jobs[1] # Sentinel
            BY <2>2 DEF Jobs, Sentinel, Kinds
          <6> QED
            BY <2>2, <2>4, <4>2, <6>1 DEF JobInv, Waiting
        <5> QED
          BY <2>1, <2>4, <4>2, <5>1, <5>2, <5>3 DEF PolicyOn, Pending
      <4> QED
        BY <4>1, <4>2
    <3>5. PolicyOfEpisode' /\ wanted \in Nat
      BY <3>2, ClientAssumption DEF PolicyOfEpisode, ClientInv, TypeOK, ClientTypeOK
    <3> QED
      BY <1>1, <1>3, <3>1, <3>2, <3>3, <3>4, <3>5
  <2> QED
    BY <2>5, <2>6 DEF Jobs, Kinds
<1>7. ASSUME ExecutorFinishes PROVE PolicyInv'
  <2>1. executor \in Jobs /\ executor' = Idle /\ executor.kind \in Kinds
    BY <1>1, <1>7 DEF ExecutorFinishes, Kinds
  <2>2. CASE executor.kind = "infer"
    <3>1. UNCHANGED policy
      BY <1>7, <2>2 DEF ExecutorFinishes
    <3> QED
      BY <1>1, <1>5, <2>1, <2>2, <3>1
  <2>3. CASE executor.kind = "reset"
    <3>1. PICK failed \in {FALSE, Faults} :
            /\ policy' = [policy EXCEPT !.clean = ~failed]
            /\ Finish(executor, IF Obsolete(executor) THEN Dropped ELSE Response(failed))
      BY <1>7, <2>3, Zenon DEF ExecutorFinishes
    <3>2. /\ policy' = [ep |-> executor.ep, clean |-> ~failed] /\ policy'.ep = policy.ep
          /\ UNCHANGED <<hpc, request, toServer, toClient, jobs>>
      BY <1>1, <1>2, <1>7, <2>3, <3>1 DEF ExecutorFinishes, executorFrame, wire
    <3>3. ~Ready /\ (Stale => Stale')
      BY <1>1, <2>3, <3>2 DEF Ready, Stale
    <3>4. \A t \in Threads : PolicyFor(t)'
      BY <1>2, <1>4, <3>3 DEF PolicyFor, clientVars
    <3>5. ASSUME NEW c \in Conns, clientEnd[c] = "open" PROVE PolicyOn(c)'
      <4>1. answer'[c] = answer[c] \/ answer'[c].kind # "ack" \/ Ready'
        <5>1. CASE Obsolete(executor)
          <6>1. Finish(executor, Dropped)
            BY <3>1, <5>1
          <6>2. answer' = answer \/ answer' = [answer EXCEPT ![executor.conn] = Dropped]
            BY <6>1, Zenon DEF Finish
          <6> QED
            BY <1>1, <6>2 DEF ServerTypeOK, Dropped
        <5>2. CASE ~Obsolete(executor)
          <6>1. Finish(executor, Response(failed)) /\ executor.ep = wanted
            BY <2>1, <3>1, <5>2, JobIsCurrent
          <6>2. answer' = answer \/ answer' = [answer EXCEPT ![executor.conn] = Response(failed)]
            BY <6>1, Zenon DEF Finish
          <6>3. ~failed => Ready'
            BY <1>1, <2>1, <3>2, <6>1 DEF Ready
          <6>4. failed => Response(failed).kind = "error"
            BY DEF Response
          <6> QED
            BY <1>1, <6>2, <6>3, <6>4 DEF ServerTypeOK
        <5> QED
          BY <5>1, <5>2
      <4> QED
        BY <1>2, <3>2, <3>3, <3>5, <4>1 DEF PolicyOn
    <3>6. ~resetRequired => Ready'
      BY <1>2, <3>3
    <3>7. PolicyOfEpisode' /\ executor'.kind # "reset"
      BY <1>1, <2>1 DEF PolicyOfEpisode
    <3> QED
      BY <1>2, <1>3, <3>2, <3>4, <3>5, <3>6, <3>7
  <2> QED
    BY <2>1, <2>2, <2>3 DEF Kinds
<1>8. CASE ~ExecutorStarts /\ ~ExecutorFinishes
  <2>1. UNCHANGED policy
    BY <1>8, HandlerWrites
  <2>2. executor' = executor \/ executor' = Exited
    BY <1>8, CloseStep DEF ExecutorDrops, ExecutorExits, JoinHandlers, closeFrame
  <2> QED
    BY <1>1, <1>5, <1>8, <2>1, <2>2
<1> QED
  BY <1>6, <1>7, <1>8

LEMMA PolicyNext ==
    ClientInv /\ AcceptInv /\ JobInv /\ FrameInv /\ EofInv /\ PolicyInv /\ [Next]_vars => PolicyInv'
<1> SUFFICES ASSUME ClientInv, AcceptInv, JobInv, FrameInv, EofInv, PolicyInv, [Next]_vars
             PROVE  PolicyInv'
  OBVIOUS
<1>1. ClientInv' /\ FrameInv'
  BY ClientInvNext, FrameNext
<1>2. CASE ClientNext /\ UNCHANGED serverVars
  BY <1>1, <1>2, PolicyClient
<1>3. CASE ServerNext /\ UNCHANGED clientVars
  BY <1>3, PolicyServer
<1>4. CASE Network /\ UNCHANGED <<clientVars, serverVars>>
  <2>1. /\ WireTypeOK /\ UNCHANGED <<clientEnd, toServer, hpc, request, answer, jobs, executor,
                                     policy, wanted, resetRequired, pc, call, generation>>
    BY <1>4, NetworkWrites DEF ClientInv, TypeOK, serverVars, clientVars
  <2>2. \A c \in Conns : \/ toClient'[c] = toClient[c]
                         \/ toClient'[c] # <<>> /\ toClient'[c][1].kind = "junk"
    <3>1. ASSUME NEW c \in Conns, NEW d \in Conns, Garble(d)
          PROVE  \/ toClient'[c] = toClient[c]
                 \/ toClient'[c] # <<>> /\ toClient'[c][1].kind = "junk"
      BY <2>1, <3>1 DEF Garble, WireTypeOK, Junk
    <3> QED
      BY <1>4, <3>1, NetworkWrites
  <2>3. Stale' = Stale /\ Ready' = Ready
    BY <2>1 DEF Stale, Ready
  <2>4. \A c \in Conns : PolicyOn(c) => PolicyOn(c)'
    BY <2>1, <2>2, <2>3 DEF PolicyOn
  <2>5. \A t \in Threads : PolicyFor(t) => PolicyFor(t)'
    BY <2>1, <2>3 DEF PolicyFor, Calling, Current
  <2>6. PolicyInv <=>
          /\ policy.ep <= wanted
          /\ executor.kind = "reset" => policy = [ep |-> executor.ep, clean |-> FALSE]
          /\ PolicyOfEpisode
          /\ ~resetRequired => Ready
          /\ \A t \in Threads : PolicyFor(t)
          /\ \A c \in Conns : clientEnd[c] = "open" => PolicyOn(c)
    BY PolicyParts
  <2>7. PolicyOfEpisode'
    BY <2>1, <2>6 DEF PolicyOfEpisode
  <2> QED
    BY <2>1, <2>3, <2>4, <2>5, <2>6, <2>7, Zenon DEF PolicyInv, PolicyFor, PolicyOn, Threads
<1>5. CASE UNCHANGED vars
  BY <1>5, Zenon DEF PolicyInv, PolicyOfEpisode, Calling, Current, Stale, Ready, vars, wire,
     clientVars, serverVars
<1> QED
  BY <1>2, <1>3, <1>4, <1>5 DEF Next


-----------------------------------------------------------------------------
(* The invariant of the whole *)

LEMMA RpcInvInit == Init => RpcInv
<1> SUFFICES ASSUME Init PROVE RpcInv
  OBVIOUS
<1>1. ClientInv
  BY ClientInvInit
<1>2. /\ \A t \in Threads : pc[t] = "idle"
      /\ accepting = NoConn /\ jobs = <<>> /\ executor = Idle /\ stop = FALSE /\ closer = "no"
      /\ resetRequired /\ wanted = 0 /\ policy = [ep |-> 0, clean |-> FALSE]
      /\ \A c \in Conns : clientEnd[c] = "unused" /\ serverEnd[c] = "none" /\ hpc[c] = "none"
                          /\ toServer[c] = <<>> /\ toClient[c] = <<>>
  BY DEF Init, ClientInit, WireInit, ServerInit
<1>3. AcceptInv
  BY <1>2 DEF AcceptInv
<1>4. JobInv /\ CloseInv
  BY <1>2 DEF JobInv, CloseInv, Jobs, Idle, Exited, Kinds
<1>5. FrameInv /\ RepliesPaired
  BY <1>2 DEF FrameInv, RepliesPaired
<1>6. EofInv /\ PolicyInv
  BY <1>2 DEF EofInv, PolicyInv, PolicyOfEpisode, Idle, Threads, Calling
<1> QED
  BY <1>1, <1>3, <1>4, <1>5, <1>6 DEF RpcInv, ClientInv

LEMMA RpcInvNext == RpcInv /\ [Next]_vars => RpcInv'
<1> SUFFICES ASSUME RpcInv, [Next]_vars PROVE RpcInv'
  OBVIOUS
<1>1. ClientInv /\ AcceptInv /\ JobInv /\ CloseInv /\ FrameInv /\ RepliesPaired
  BY DEF RpcInv, ClientInv
<1>2. ClientInv' /\ AcceptInv' /\ JobInv' /\ CloseInv' /\ FrameInv' /\ RepliesPaired'
  BY <1>1, ClientInvNext, AcceptNext, JobNext, CloseNext, FrameNext, PairedNext DEF ClientInv
<1>3. ClosePrompt => EofInv' /\ PolicyInv'
  BY <1>1, EofNext, PolicyNext DEF ClientInv, RpcInv
<1> QED
  BY <1>2, <1>3 DEF RpcInv, ClientInv

(* The inductive invariant of client, server and wire together.              *)
THEOREM RpcInvariant == Spec => []RpcInv
BY RpcInvInit, RpcInvNext, PTL DEF Spec

(* A thread never takes the reply to another request for its own.            *)
THEOREM PairedReplies == Spec => []RepliesPaired
<1>1. RpcInv => RepliesPaired
  BY DEF RpcInv
<1> QED
  BY <1>1, RpcInvariant, PTL

(* When close() of the server has returned, no handler serves a connection,  *)
(* the executor is gone and no job is left behind.                           *)
THEOREM QuietClose == Spec => []QuietAfterClose
<1>1. RpcInv => QuietAfterClose
  BY DEF RpcInv, CloseInv, QuietAfterClose
<1> QED
  BY <1>1, RpcInvariant, PTL

(* While infer() is open the remote policy is in the state the last reset()  *)
(* asked for, if the server sees a close of the client before what the       *)
(* client does next.                                                         *)
THEOREM ResetConfirmed ==
  ASSUME ClosePrompt
  PROVE  Spec => []ConfirmedReset
<1>1. RpcInv => ConfirmedReset
  BY ClosePrompt DEF RpcInv, PolicyInv, Ready, ConfirmedReset
<1> QED
  BY <1>1, RpcInvariant, PTL

(* Under the same condition no inference runs on a policy that is not        *)
(* completely reset for the episode of its caller.                           *)
THEOREM PolicyIsItsEpisodes ==
  ASSUME ClosePrompt
  PROVE  Spec => []PolicyOfEpisode
<1>1. RpcInv => PolicyOfEpisode
  BY ClosePrompt DEF RpcInv, PolicyInv
<1> QED
  BY <1>1, RpcInvariant, PTL

-----------------------------------------------------------------------------
(* Client and server implement the acknowledged reset *)

(* The call the executor is in, as the abstract policy sees it.               *)
Running == IF executor.kind \in Kinds
           THEN [kind |-> executor.kind, ep |-> executor.ep]
           ELSE [kind |-> "idle", ep |-> 0]

LEMMA RemoteStutter ==
  ASSUME UNCHANGED <<wanted, resetRequired, policy>>, Running' = Running
  PROVE  UNCHANGED Remote!vars
BY Zenon DEF Remote!vars, Running

LEMMA RemoteClient ==
  ASSUME ClosePrompt, RpcInv, ClientNext, UNCHANGED serverVars
  PROVE  Remote!Next \/ UNCHANGED Remote!vars
<1>1. /\ ClientTypeOK /\ GenerationInv /\ PolicyInv
      /\ UNCHANGED <<policy, executor>> /\ Running' = Running
  BY ClosePrompt DEF RpcInv, TypeOK, serverVars, Running
<1>2. CASE UNCHANGED <<wanted, resetRequired>>
  BY <1>1, <1>2, RemoteStutter
<1>3. ASSUME NEW t \in Threads, Step(t) PROVE Remote!Next \/ UNCHANGED Remote!vars
  <2>1. \/ BeginReset(t) \/ ConfirmReset(t) \/ UNCHANGED <<wanted, resetRequired>>
        \/ FailReset(t) /\ Current(t)
    BY <1>3, Zenon DEF Step, Proceed, Exchange, BeginInfer, AdmitInfer, LockReset,
       LockTimesOut, EnsureSocket, Connect, ConnectFails, Publish, Send, SendFails, Receive,
       ReceiveFails, Validate, DeadlinePasses, EventSeen, CommitInfer, FailInfer, FailReset,
       clientFrame
  <2>2. CASE BeginReset(t)
    <3>1. wanted' = wanted + 1 /\ resetRequired' = TRUE
      BY <2>2 DEF BeginReset
    <3>2. Remote!NewEpisode
      BY <1>1, <3>1 DEF Remote!NewEpisode, Running
    <3> QED
      BY <3>2 DEF Remote!Next
  <2>3. CASE ConfirmReset(t)
    <3>1. CASE Current(t)
      <4>1. /\ UNCHANGED wanted /\ resetRequired' = FALSE
            /\ t \in Resetters /\ pc[t] = "acked" /\ Calling(t)
        BY <2>3, <3>1 DEF ConfirmReset, Calling
      <4>2. resetRequired /\ Ready
        BY <1>1, <4>1 DEF GenerationInv, PolicyInv
      <4>3. Remote!Confirm
        BY <1>1, <4>1, <4>2 DEF Remote!Confirm, Remote!Ready, Ready, Running
      <4> QED
        BY <4>3 DEF Remote!Next
    <3>2. CASE ~Current(t)
      BY <1>2, <2>3, <3>2 DEF ConfirmReset
    <3> QED
      BY <3>1, <3>2
  <2>4. CASE FailReset(t) /\ Current(t)
    <3>1. resetRequired
      BY <1>1, <2>4 DEF FailReset, GenerationInv, Calling
    <3>2. resetRequired = TRUE
      BY <1>1, <3>1 DEF ClientTypeOK
    <3>3. resetRequired' = TRUE /\ UNCHANGED wanted
      BY <2>4, Zenon DEF FailReset
    <3>4. UNCHANGED <<wanted, resetRequired>>
      BY <3>2, <3>3, Zenon
    <3> QED
      BY <1>2, <3>4
  <2> QED
    BY <1>2, <2>1, <2>2, <2>3, <2>4
<1>4. CASE Cancel
  BY <1>2, <1>4 DEF Cancel
<1> QED
  BY <1>3, <1>4, Zenon DEF ClientNext, Step

LEMMA RemoteServer ==
  ASSUME ClosePrompt, RpcInv, ServerNext, UNCHANGED clientVars
  PROVE  Remote!Next \/ UNCHANGED Remote!vars
<1>1. /\ ServerTypeOK /\ GenerationInv /\ PolicyInv /\ ClientInv /\ AcceptInv /\ FrameInv
      /\ EofInv /\ UNCHANGED <<wanted, resetRequired>>
      /\ policy \in [ep : Nat, clean : BOOLEAN] /\ jobs \in Seq(Jobs \union {Sentinel})
      /\ executor \in Jobs \union {Idle, Exited} /\ wanted \in Nat
  BY ClosePrompt, ClientAssumption
     DEF RpcInv, ClientInv, TypeOK, ServerTypeOK, ClientTypeOK, clientVars
<1>2. /\ \A j \in Jobs : j.kind \in Kinds
      /\ Idle.kind \notin Kinds /\ Exited.kind \notin Kinds
  BY DEF Jobs, Idle, Exited, Kinds
<1>3. CASE ExecutorStarts
  <2>1. PICK job \in Jobs : /\ jobs # <<>> /\ job = Head(jobs) /\ executor' = job
                            /\ ~Obsolete(job) /\ executor = Idle
                            /\ policy' = IF job.kind = "reset"
                                         THEN [ep |-> job.ep, clean |-> FALSE] ELSE policy
    <3>1. Head(jobs) \in Jobs
      BY <1>1, <1>3 DEF ExecutorStarts
    <3> QED
      BY <1>3, <3>1, Zenon DEF ExecutorStarts
  <2>2. 1 \in DOMAIN jobs /\ jobs[1] = job
    BY <1>1, <2>1
  <2>3. job.ep = wanted /\ job.conn \in Conns /\ hpc[job.conn] = "run"
        /\ clientEnd[job.conn] = "open"
    BY <1>1, <2>1, <2>2, JobIsCurrent DEF Jobs
  <2>4. PICK t \in Threads : Owns(t, job.conn) /\ Calling(t) /\ job.kind = KindOf(t)
    BY <1>1, <2>1, <2>2, JobIsCurrent
  <2>5. Running = Remote!Nobody /\ Running' = [kind |-> job.kind, ep |-> wanted]
    BY <1>2, <2>1, <2>3 DEF Running, Remote!Nobody
  <2>6. CASE job.kind = "reset"
    <3>1. policy.ep < wanted /\ policy' = [ep |-> wanted, clean |-> FALSE]
      BY <1>1, <2>1, <2>2, <2>3, <2>6 DEF PolicyInv, Stale
    <3>2. wanted \in policy.ep + 1 .. wanted
      BY <1>1, <3>1
    <3>3. Remote!StartReset
      BY <1>1, <2>5, <2>6, <3>1, <3>2 DEF Remote!StartReset, Running
    <3> QED
      BY <3>3 DEF Remote!Next
  <2>7. CASE job.kind = "infer"
    <3>1. t \in Inferers
      BY <2>4, <2>7 DEF KindOf
    <3>2. policy = [ep |-> wanted, clean |-> TRUE] /\ UNCHANGED policy
      BY <1>1, <2>1, <2>4, <2>7, <3>1 DEF GenerationInv, PolicyInv, Ready
    <3>3. Remote!StartInfer
      BY <1>1, <2>5, <2>7, <3>2 DEF Remote!StartInfer, Remote!Ready, Running
    <3> QED
      BY <3>3 DEF Remote!Next
  <2> QED
    BY <1>2, <2>6, <2>7 DEF Kinds
<1>4. CASE ExecutorFinishes
  <2>1. executor.kind \in Kinds /\ executor' = Idle
    BY <1>4 DEF ExecutorFinishes
  <2>2. Running' = Remote!Nobody /\ Running.kind = executor.kind
    BY <1>2, <2>1 DEF Running, Remote!Nobody
  <2>3. CASE executor.kind = "reset"
    <3>1. \E failed \in BOOLEAN : policy' = [policy EXCEPT !.clean = ~failed]
      BY <1>4, <2>3, ServerAssumption DEF ExecutorFinishes
    <3>2. policy = [ep |-> executor.ep, clean |-> FALSE]
      BY <1>1, <2>3, Zenon DEF PolicyInv
    <3>3. [policy EXCEPT !.clean = FALSE] = policy
      <4>1. policy.clean = FALSE /\ DOMAIN policy = {"ep", "clean"}
        BY <1>1, <3>2
      <4> QED
        BY <1>1, <4>1
    <3>4. policy' \in {policy, [policy EXCEPT !.clean = TRUE]}
      <4>1. policy' = [policy EXCEPT !.clean = TRUE] \/ policy' = [policy EXCEPT !.clean = FALSE]
        <5>1. PICK failed \in BOOLEAN : policy' = [policy EXCEPT !.clean = ~failed]
          BY <3>1
        <5>2. CASE failed = TRUE
          BY <5>1, <5>2
        <5>3. CASE failed = FALSE
          BY <5>1, <5>3
        <5> QED
          BY <5>1, <5>2, <5>3
      <4> QED
        BY <3>3, <4>1, Zenon
    <3>5. Remote!EndReset
      BY <1>1, <2>2, <2>3, <3>4 DEF Remote!EndReset, Running
    <3> QED
      BY <3>5 DEF Remote!Next
  <2>4. CASE executor.kind = "infer"
    <3>1. UNCHANGED policy
      BY <1>4, <2>4 DEF ExecutorFinishes
    <3>2. Remote!EndInfer
      BY <1>1, <2>2, <2>4, <3>1 DEF Remote!EndInfer, Running
    <3> QED
      BY <3>2 DEF Remote!Next
  <2> QED
    BY <2>1, <2>3, <2>4 DEF Kinds
<1>5. CASE ~ExecutorStarts /\ ~ExecutorFinishes
  <2>1. UNCHANGED policy
    BY <1>5, HandlerWrites
  <2>2. executor' = executor \/ (executor = Idle /\ executor' = Exited)
    BY <1>5, CloseStep DEF ExecutorDrops, ExecutorExits, JoinHandlers, closeFrame
  <2>3. Running' = Running
    BY <1>2, <2>2 DEF Running
  <2> QED
    BY <1>1, <2>1, <2>3, RemoteStutter
<1> QED
  BY <1>3, <1>4, <1>5

(* What the acknowledged reset promises is what client and server do, if the *)
(* server sees a close before what the client does next.                     *)
THEOREM RpcImplementsRemotePolicy ==
  ASSUME ClosePrompt
  PROVE  Spec => ImplementsRemotePolicy
<1>1. Init => Remote!Init
  BY DEF Init, ClientInit, ServerInit, Remote!Init, Remote!Nobody, Idle, Kinds
<1>2. RpcInv /\ [Next]_vars => [Remote!Next]_(Remote!vars)
  <2> SUFFICES ASSUME RpcInv, [Next]_vars PROVE Remote!Next \/ UNCHANGED Remote!vars
    OBVIOUS
  <2>1. UNCHANGED <<clientVars, serverVars>> => UNCHANGED Remote!vars
    BY RemoteStutter DEF Running, clientVars, serverVars
  <2> QED
    BY <2>1, ClosePrompt, RemoteClient, RemoteServer, Zenon DEF Next, vars
<1> QED
  BY <1>1, <1>2, RpcInvariant, PTL DEF Spec, ImplementsRemotePolicy, Remote!Spec
=============================================================================
