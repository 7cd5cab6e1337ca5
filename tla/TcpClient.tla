------------------------------ MODULE TcpClient ------------------------------
(***************************************************************************)
(* TcpInferenceTransport (rpc_client.py): one persistent connection,       *)
(* abandoned whenever a request on it is, and a generation number that     *)
(* invalidates whatever was begun before a cancel, a reset or a failure.   *)
(*                                                                         *)
(* Any thread may call.  An action is one critical section of _state_lock, *)
(* or one blocking step outside it; _request_lock ("lock") is held from    *)
(* admission to the end of the exchange.  reset() releases it before it    *)
(* confirms or handles a failure, infer() after.                           *)
(* Deadlines are not clocked: a step that checks one may find it passed.   *)
(* The counters and budgets of the telemetry are left out.                 *)
(***************************************************************************)
EXTENDS RpcWire

CONSTANTS
    Inferers,       \* threads that call infer()
    Resetters,      \* threads that call reset()
    MaxResets,      \* bound: resets ever begun
    MaxGeneration,  \* bound: the generation at which no new call begins
    MaxRequests     \* bound: the request id at which no new infer begins

ASSUME ClientAssumption ==
    /\ Inferers \intersect Resetters = {} /\ "free" \notin Inferers \union Resetters
    /\ MaxResets \in Nat /\ MaxGeneration \in Nat /\ MaxRequests \in Nat

VARIABLES
    resetRequired, generation, sock, lock,
    wanted,     \* _reset_requests, which numbers the episodes
    nextId,     \* the id the next request gets (a fresh uuid)
    pc,         \* where each thread is
    call        \* what each thread knows about its call

clientVars == <<resetRequired, generation, sock, lock, wanted, nextId, pc, call>>

Threads == Inferers \union Resetters
Free == "free"

NoReply == [id |-> 0, kind |-> "none"]
NoCall  == [gen |-> 0, ep |-> 0, conn |-> NoConn, id |-> 0,
            reply |-> NoReply, why |-> "none"]

ClientInit ==
    /\ resetRequired = TRUE /\ generation = 0 /\ sock = NoConn
    /\ lock = Free /\ wanted = 0 /\ nextId = 1
    /\ pc = [t \in Threads |-> "idle"]
    /\ call = [t \in Threads |-> NoCall]

Pcs == {"idle", "queued", "socket", "connecting", "publish", "send", "receive",
        "received", "valid", "acked", "failing"}
Failures == {"none", "deadline", "cancelled", "protocol", "broken", "remote"}
Calls == [gen : Nat, ep : Nat, conn : Conns \union {NoConn}, id : Nat,
          reply : Replies \union {Junk, NoReply}, why : Failures]

ClientTypeOK ==
    /\ resetRequired \in BOOLEAN /\ generation \in Nat
    /\ sock \in Conns \union {NoConn} /\ lock \in Threads \union {Free}
    /\ wanted \in 0..MaxResets /\ nextId \in Nat
    /\ pc \in [Threads -> Pcs] /\ call \in [Threads -> Calls]
    /\ \A t \in Threads :
         /\ call[t].gen <= generation
         /\ pc[t] \in {"publish", "send", "receive", "received", "valid"} =>
              call[t].conn \in Conns

Current(t) == call[t].gen = generation

Goto(t, where) == pc' = [pc EXCEPT ![t] = where]

(* The call is over, with a result or an exception. *)
Leave(t) ==
    /\ Goto(t, "idle")
    /\ call' = [call EXCEPT ![t] = NoCall]

(* An exception on its way to the handler of infer() or reset(). *)
Fails(t, why) ==
    /\ Goto(t, "failing")
    /\ call' = [call EXCEPT ![t].why = why]

(* It reaches that of infer() with the lock held, that of reset() after     *)
(* _control has released it.                                                *)
Raise(t, why) ==
    /\ Fails(t, why)
    /\ lock' = IF t \in Resetters THEN Free ELSE lock

-----------------------------------------------------------------------------
(* Beginning a call *)

clientFrame == <<resetRequired, generation, wanted>>

BeginInfer(t) ==
    /\ t \in Inferers /\ pc[t] = "idle" /\ ~resetRequired
    /\ generation < MaxGeneration /\ nextId <= MaxRequests
    /\ Goto(t, "queued")
    /\ call' = [call EXCEPT ![t] = [NoCall EXCEPT !.gen = generation, !.ep = wanted]]
    /\ UNCHANGED <<resetRequired, generation, sock, lock, wanted, nextId, wire>>

AdmitInfer(t) ==
    /\ t \in Inferers /\ pc[t] = "queued" /\ lock = Free
    /\ IF resetRequired \/ ~Current(t)
       THEN Leave(t) /\ UNCHANGED lock
       ELSE lock' = t /\ Goto(t, "socket") /\ UNCHANGED call
    /\ UNCHANGED <<resetRequired, generation, sock, wanted, nextId, wire>>

(* Slip: inference stays open while the reset is on its way. *)
ResetWhileOpen(t) ==
    /\ t \in Resetters /\ pc[t] = "idle" /\ wanted < MaxResets
    /\ wanted' = wanted + 1 /\ generation' = generation + 1
    /\ ClientCloses(sock) /\ sock' = NoConn
    /\ Goto(t, "queued")
    /\ call' = [call EXCEPT ![t] = [NoCall EXCEPT !.gen = generation', !.ep = wanted']]
    /\ UNCHANGED <<resetRequired, lock, nextId, listening, serverEnd, toServer>>

BeginReset(t) ==
    /\ t \in Resetters /\ pc[t] = "idle" /\ wanted < MaxResets
    /\ resetRequired' = TRUE
    /\ wanted' = wanted + 1 /\ generation' = generation + 1
    /\ ClientCloses(sock) /\ sock' = NoConn
    /\ Goto(t, "queued")
    /\ call' = [call EXCEPT ![t] = [NoCall EXCEPT !.gen = generation', !.ep = wanted']]
    /\ UNCHANGED <<lock, nextId, listening, serverEnd, toServer>>

LockReset(t) ==
    /\ t \in Resetters /\ pc[t] = "queued" /\ lock = Free
    /\ lock' = t /\ Goto(t, "socket")
    /\ UNCHANGED <<resetRequired, generation, sock, wanted, nextId, call, wire>>

LockTimesOut(t) ==
    /\ t \in Resetters /\ pc[t] = "queued"
    /\ Fails(t, "deadline")
    /\ UNCHANGED <<resetRequired, generation, sock, lock, wanted, nextId, wire>>

-----------------------------------------------------------------------------
(* The exchange *)

EnsureSocket(t) ==
    /\ pc[t] = "socket"
    /\ \/ ~Current(t) /\ Raise(t, "cancelled")
       \/ /\ Current(t) /\ sock # NoConn
          /\ call' = [call EXCEPT ![t].conn = sock] /\ Goto(t, "send")
          /\ UNCHANGED lock
       \/ /\ Current(t) /\ sock = NoConn
          /\ Goto(t, "connecting") /\ UNCHANGED <<call, lock>>
    /\ UNCHANGED <<clientFrame, sock, nextId, wire>>

Unused == {c \in Conns : clientEnd[c] = "unused"}

Connect(t) ==
    /\ pc[t] = "connecting" /\ listening
    /\ \E c \in Unused :
         /\ \A d \in Unused : c <= d
         /\ clientEnd' = [clientEnd EXCEPT ![c] = "open"]
         /\ serverEnd' = [serverEnd EXCEPT ![c] = "backlog"]
         /\ call' = [call EXCEPT ![t].conn = c]
    /\ Goto(t, "publish")
    /\ UNCHANGED <<clientFrame, sock, lock, nextId, listening, eof, toServer, toClient>>

(* Name resolution or every address failed. *)
ConnectFails(t) ==
    /\ pc[t] = "connecting" /\ Raise(t, "broken")
    /\ UNCHANGED <<clientFrame, sock, nextId, wire>>

(* Slip: a connect that outlived its generation is published all the same. *)
PublishAnyway(t) ==
    /\ pc[t] = "publish"
    /\ sock' = call[t].conn /\ Goto(t, "send")
    /\ UNCHANGED <<clientFrame, nextId, lock, call, wire>>

Publish(t) ==
    /\ pc[t] = "publish"
    /\ IF Current(t) /\ sock = NoConn
       THEN sock' = call[t].conn /\ UNCHANGED <<clientEnd, eof, toClient>>
       ELSE ClientCloses(call[t].conn) /\ UNCHANGED sock
    /\ IF Current(t)
       THEN /\ call' = [call EXCEPT ![t].conn = sock'] /\ Goto(t, "send")
            /\ UNCHANGED lock
       ELSE Raise(t, "cancelled")
    /\ UNCHANGED <<clientFrame, nextId, listening, serverEnd, toServer>>

Request(t) == [id |-> nextId, ep |-> call[t].ep,
               kind |-> IF t \in Inferers THEN "infer" ELSE "reset"]

(* A send to a peer that has closed may still succeed; the frame is lost. *)
Send(t) ==
    /\ pc[t] = "send" /\ clientEnd[call[t].conn] = "open"
    /\ LET c == call[t].conn
       IN toServer' = IF serverEnd[c] = "closed" THEN toServer
                      ELSE [toServer EXCEPT ![c] = Append(@, Request(t))]
    /\ call' = [call EXCEPT ![t].id = nextId]
    /\ nextId' = nextId + 1 /\ Goto(t, "receive")
    /\ UNCHANGED <<clientFrame, sock, lock, listening, clientEnd, serverEnd, eof, toClient>>

SendFails(t) ==
    /\ pc[t] = "send"
    /\ clientEnd[call[t].conn] = "closed" \/ serverEnd[call[t].conn] = "closed"
    /\ Raise(t, "broken")
    /\ UNCHANGED <<clientFrame, sock, nextId, wire>>

Receive(t) ==
    /\ pc[t] = "receive" /\ toClient[call[t].conn] # <<>>
    /\ LET c == call[t].conn
       IN /\ call' = [call EXCEPT ![t].reply = Head(toClient[c])]
          /\ toClient' = [toClient EXCEPT ![c] = Tail(@)]
    /\ Goto(t, "received")
    /\ UNCHANGED <<clientFrame, sock, lock, nextId, listening, clientEnd, serverEnd, eof,
                   toServer>>

(* Another thread closed the socket, or the server did. *)
ReceiveFails(t) ==
    /\ pc[t] = "receive" /\ toClient[call[t].conn] = <<>>
    /\ clientEnd[call[t].conn] = "closed" \/ serverEnd[call[t].conn] = "closed"
    /\ Raise(t, "broken")
    /\ UNCHANGED <<clientFrame, sock, nextId, wire>>

Wrong(t) == \/ call[t].reply.id # call[t].id
            \/ call[t].reply.kind \notin
                 {"error", IF t \in Inferers THEN "ok" ELSE "ack"}

Validate(t) ==
    /\ pc[t] = "received"
    /\ \/ ~Current(t) /\ Raise(t, "cancelled")
       \/ Current(t) /\ Wrong(t) /\ Raise(t, "protocol")
       \/ /\ Current(t) /\ ~Wrong(t) /\ call[t].reply.kind = "error"
          /\ Raise(t, "remote")
       \/ /\ Current(t) /\ ~Wrong(t) /\ call[t].reply.kind = "ok"
          /\ Goto(t, "valid") /\ UNCHANGED <<call, lock>>
       \/ /\ Current(t) /\ ~Wrong(t) /\ call[t].reply.kind = "ack"
          /\ Goto(t, "acked") /\ lock' = Free /\ UNCHANGED call
    /\ UNCHANGED <<clientFrame, sock, nextId, wire>>

(* _remaining(deadline), or a socket timeout *)
DeadlinePasses(t) ==
    /\ pc[t] \in {"socket", "connecting", "send", "receive", "received"}
    /\ Raise(t, "deadline")
    /\ UNCHANGED <<clientFrame, sock, nextId, wire>>

(* infer_cancellable: the caller's event is set before the connect, after *)
(* the send, or with the answer.                                          *)
EventSeen(t) ==
    /\ t \in Inferers /\ pc[t] \in {"socket", "receive", "valid"}
    /\ Raise(t, "cancelled")
    /\ UNCHANGED <<clientFrame, sock, nextId, wire>>

-----------------------------------------------------------------------------
(* Ending a call *)

(* Slip: the generation is not looked at again before the answer is given. *)
CommitUnchecked(t) ==
    /\ t \in Inferers /\ pc[t] = "valid" /\ Leave(t) /\ lock' = Free
    /\ UNCHANGED <<clientFrame, sock, nextId, wire>>

CommitInfer(t) ==
    /\ t \in Inferers /\ pc[t] = "valid"
    /\ IF Current(t) THEN Leave(t) /\ lock' = Free ELSE Raise(t, "cancelled")
    /\ UNCHANGED <<clientFrame, sock, nextId, wire>>

ConfirmReset(t) ==
    /\ t \in Resetters /\ pc[t] = "acked"
    /\ IF Current(t)
       THEN resetRequired' = FALSE /\ Leave(t)
       ELSE Fails(t, "cancelled") /\ UNCHANGED resetRequired
    /\ UNCHANGED <<generation, wanted, sock, lock, nextId, wire>>

(* Which failures of infer() invalidate the generation and the connection. *)
Invalidates(t) ==
    \/ call[t].why = "protocol"
    \/ call[t].why \in {"deadline", "broken"} /\ Current(t)
(* Slip: the connection of a request that timed out is kept. *)
KeepsTimedOut(t) == call[t].why \in {"cancelled", "protocol", "broken"}
Disconnects(t) == \/ call[t].why \in {"cancelled", "protocol", "broken"}
                  \/ call[t].why = "deadline" /\ Current(t)

FailInfer(t) ==
    /\ t \in Inferers /\ pc[t] = "failing"
    /\ generation' = IF Invalidates(t) THEN generation + 1 ELSE generation
    /\ IF Disconnects(t)
       THEN ClientCloses(sock) /\ sock' = NoConn
       ELSE UNCHANGED <<sock, clientEnd, eof, toClient>>
    /\ Leave(t) /\ lock' = Free
    /\ UNCHANGED <<resetRequired, wanted, nextId, listening, serverEnd, toServer>>

FailReset(t) ==
    /\ t \in Resetters /\ pc[t] = "failing"
    /\ IF Current(t)
       THEN /\ resetRequired' = TRUE /\ generation' = generation + 1
            /\ ClientCloses(sock) /\ sock' = NoConn
       ELSE UNCHANGED <<resetRequired, generation, sock, clientEnd, eof, toClient>>
    /\ Leave(t)
    /\ UNCHANGED <<lock, wanted, nextId, listening, serverEnd, toServer>>

(* cancel() and close(), from any thread at any moment *)
Cancel ==
    /\ generation < MaxGeneration /\ generation' = generation + 1
    /\ ClientCloses(sock) /\ sock' = NoConn
    /\ UNCHANGED <<resetRequired, lock, wanted, nextId, pc, call, listening,
                   serverEnd, toServer>>

Exchange(t) ==
    \/ EnsureSocket(t) \/ Connect(t) \/ ConnectFails(t) \/ Publish(t)
    \/ Send(t) \/ SendFails(t) \/ Receive(t) \/ ReceiveFails(t)
    \/ Validate(t) \/ DeadlinePasses(t)

(* What a thread does by itself once its call has begun. *)
Proceed(t) ==
    \/ AdmitInfer(t) \/ LockReset(t) \/ LockTimesOut(t) \/ Exchange(t)
    \/ CommitInfer(t) \/ ConfirmReset(t) \/ FailInfer(t) \/ FailReset(t)

ClientNext ==
    \/ \E t \in Threads : BeginInfer(t) \/ BeginReset(t) \/ Proceed(t) \/ EventSeen(t)
    \/ Cancel
=============================================================================
