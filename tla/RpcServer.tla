------------------------------ MODULE RpcServer ------------------------------
(***************************************************************************)
(* RpcInferenceServer and RpcExecutor (rpc_server_runtime.py,              *)
(* rpc_executor.py): an acceptor thread, a handler thread per connection   *)
(* and one executor thread, the only one that calls the worker.            *)
(*                                                                         *)
(* A job is obsolete when the server stops, when its handler has left      *)
(* execute(), or when its connection is readable or gone; the executor     *)
(* looks before it runs a job and before it publishes the response, the    *)
(* handler every 10 ms and before it takes it.  The faults of              *)
(* RpcFaultProfile are choices here.                                       *)
(***************************************************************************)
EXTENDS RpcWire

CONSTANTS
    Faults,     \* a fault profile, or a worker that raises, may be in effect
    MayClose    \* bound: whether close() is explored

ASSUME ServerAssumption == Faults \in BOOLEAN /\ MayClose \in BOOLEAN

VARIABLES
    stop,       \* _stop
    closer,     \* where close() is; "no" before it is called
    joinSet,    \* the handler threads close() has found
    accepting,  \* the connection the acceptor has in hand
    hpc,        \* each handler: "none", "recv", "got", "run", "reply", "ended"
    request,    \* the request a handler has in hand
    answer,     \* the outcome of a handler's job, or the reply it sends itself
    jobs,       \* the executor's queue
    executor,   \* the job it is in, Idle or Exited
    policy      \* the worker: the episode of its last reset, and if completed

serverVars == <<stop, closer, joinSet, accepting, hpc, request, answer, jobs,
                executor, policy>>

NoRequest == [id |-> 0, ep |-> 0, kind |-> "none"]
Idle      == [conn |-> 0, id |-> 0, ep |-> 0, kind |-> "idle"]
Exited    == [conn |-> 0, id |-> 0, ep |-> 0, kind |-> "exited"]
Sentinel  == [conn |-> 0, id |-> 0, ep |-> 0, kind |-> "none"]
Pending   == [id |-> 0, kind |-> "pending"]   \* not done
Dropped   == [id |-> 0, kind |-> "dropped"]   \* done without a response

ServerInit ==
    /\ stop = FALSE /\ closer = "no" /\ joinSet = {} /\ accepting = NoConn
    /\ hpc = [c \in Conns |-> "none"]
    /\ request = [c \in Conns |-> NoRequest]
    /\ answer = [c \in Conns |-> Dropped]
    /\ jobs = <<>> /\ executor = Idle
    /\ policy = [ep |-> 0, clean |-> FALSE]

Jobs == [conn : Conns, id : Nat, ep : Nat, kind : Kinds]

ServerTypeOK ==
    /\ stop \in BOOLEAN
    /\ closer \in {"no", "stopping", "joining", "executor", "closed"}
    /\ joinSet \subseteq Conns /\ accepting \in Conns \union {NoConn}
    /\ hpc \in [Conns -> {"none", "recv", "got", "run", "reply", "ended"}]
    /\ request \in [Conns -> Frames \union {NoRequest}]
    /\ answer \in [Conns -> Replies \union {Pending, Dropped}]
    /\ \A c \in Conns : /\ hpc[c] = "got" => request[c] \in Frames
                        /\ hpc[c] = "reply" => answer[c] \in Replies
    /\ jobs \in Seq(Jobs \union {Sentinel}) /\ executor \in Jobs \union {Idle, Exited}
    /\ policy \in [ep : Nat, clean : BOOLEAN]

-----------------------------------------------------------------------------
(* The acceptor *)

Backlog == {c \in Conns : serverEnd[c] = "backlog"}

Accept(c) ==
    /\ accepting = NoConn /\ listening /\ ~stop
    /\ c \in Backlog /\ \A d \in Backlog : c <= d
    /\ accepting' = c /\ serverEnd' = [serverEnd EXCEPT ![c] = "open"]
    /\ UNCHANGED <<stop, closer, joinSet, hpc, request, answer, jobs, executor,
                   policy, listening, clientEnd, eof, toServer, toClient>>

(* Slip: a connection accepted before the stop is served after it. *)
RegisterLate(c) ==
    /\ accepting = c /\ accepting' = NoConn
    /\ hpc' = [hpc EXCEPT ![c] = "recv"]
    /\ UNCHANGED <<stop, closer, joinSet, request, answer, jobs, executor, policy,
                   wire>>

(* Under _threads_lock *)
Register(c) ==
    /\ accepting = c /\ accepting' = NoConn
    /\ IF stop
       THEN serverEnd' = [serverEnd EXCEPT ![c] = "closed"] /\ UNCHANGED hpc
       ELSE hpc' = [hpc EXCEPT ![c] = "recv"] /\ UNCHANGED serverEnd
    /\ UNCHANGED <<stop, closer, joinSet, request, answer, jobs, executor, policy,
                   listening, clientEnd, eof, toServer, toClient>>

-----------------------------------------------------------------------------
(* A connection's handler, _client_loop *)

handlerFrame == <<stop, closer, joinSet, accepting, executor, policy>>

(* return: the with statement closes the connection. *)
End(c) ==
    /\ hpc' = [hpc EXCEPT ![c] = "ended"]
    /\ serverEnd' = [serverEnd EXCEPT ![c] = "closed"]
    /\ toServer' = [toServer EXCEPT ![c] = <<>>]
    /\ request' = [request EXCEPT ![c] = NoRequest]
    /\ answer' = [answer EXCEPT ![c] = Dropped]

HandlerReads(c) ==
    /\ hpc[c] = "recv" /\ serverEnd[c] = "open" /\ toServer[c] # <<>>
    /\ request' = [request EXCEPT ![c] = Head(toServer[c])]
    /\ toServer' = [toServer EXCEPT ![c] = Tail(@)]
    /\ hpc' = [hpc EXCEPT ![c] = "got"]
    /\ UNCHANGED <<handlerFrame, answer, jobs, listening, clientEnd, serverEnd, eof,
                   toClient>>

(* The peer or close() ended the stream, or a reset discarded its rest. *)
HandlerLosesPeer(c) ==
    /\ hpc[c] = "recv" /\ (eof[c] \/ serverEnd[c] = "closed")
    /\ End(c)
    /\ UNCHANGED <<handlerFrame, jobs, listening, clientEnd, eof, toClient>>

JobOf(c) == [conn |-> c, id |-> request[c].id, ep |-> request[c].ep,
             kind |-> request[c].kind]

(* execute(): the job is queued *)
HandlerSubmits(c) ==
    /\ hpc[c] = "got"
    /\ jobs' = Append(jobs, JobOf(c))
    /\ answer' = [answer EXCEPT ![c] = Pending]
    /\ request' = [request EXCEPT ![c] = NoRequest]
    /\ hpc' = [hpc EXCEPT ![c] = "run"]
    /\ UNCHANGED <<handlerFrame, wire>>

(* An injected disconnect, or the stop that ends an injected stall. *)
HandlerDisconnects(c) ==
    /\ hpc[c] = "got" /\ request[c].kind = "infer" /\ Faults
    /\ End(c)
    /\ UNCHANGED <<handlerFrame, jobs, listening, clientEnd, eof, toClient>>

HandlerInjectsError(c) ==
    /\ hpc[c] = "got" /\ request[c].kind = "infer" /\ Faults
    /\ answer' = [answer EXCEPT ![c] = [id |-> request[c].id, kind |-> "error"]]
    /\ request' = [request EXCEPT ![c] = NoRequest]
    /\ hpc' = [hpc EXCEPT ![c] = "reply"]
    /\ UNCHANGED <<handlerFrame, jobs, wire>>

Disconnected(c) == eof[c] \/ toServer[c] # <<>> \/ serverEnd[c] = "closed"

(* Slip: a job outlives the handler and the connection it came from. *)
OnlyStopped(job) == stop

Obsolete(job) == stop \/ hpc[job.conn] # "run" \/ Disconnected(job.conn)

HandlerGivesUp(c) ==
    /\ hpc[c] = "run" /\ answer[c] = Pending
    /\ stop \/ Disconnected(c)
    /\ End(c)
    /\ UNCHANGED <<handlerFrame, jobs, listening, clientEnd, eof, toClient>>

HandlerTakesAnswer(c) ==
    /\ hpc[c] = "run" /\ answer[c] # Pending
    /\ IF stop \/ Disconnected(c) \/ answer[c] = Dropped
       THEN End(c)
       ELSE /\ hpc' = [hpc EXCEPT ![c] = "reply"]
            /\ UNCHANGED <<serverEnd, toServer, request, answer>>
    /\ UNCHANGED <<handlerFrame, jobs, listening, clientEnd, eof, toClient>>

(* The response delay ends in a stop, or the response is dropped on purpose. *)
HandlerDropsReply(c) ==
    /\ hpc[c] = "reply" /\ answer[c].kind = "ok" /\ (Faults \/ stop)
    /\ End(c)
    /\ UNCHANGED <<handlerFrame, jobs, listening, clientEnd, eof, toClient>>

HandlerReplies(c) ==
    /\ hpc[c] = "reply" /\ serverEnd[c] = "open"
    /\ toClient' = IF clientEnd[c] = "open"
                   THEN [toClient EXCEPT ![c] = Append(@, answer[c])]
                   ELSE toClient
    /\ IF stop
       THEN End(c)
       ELSE /\ hpc' = [hpc EXCEPT ![c] = "recv"]
            /\ answer' = [answer EXCEPT ![c] = Dropped]
            /\ UNCHANGED <<serverEnd, toServer, request>>
    /\ UNCHANGED <<handlerFrame, jobs, listening, clientEnd, eof>>

HandlerReplyFails(c) ==
    /\ hpc[c] = "reply" /\ (eof[c] \/ serverEnd[c] = "closed")
    /\ End(c)
    /\ UNCHANGED <<handlerFrame, jobs, listening, clientEnd, eof, toClient>>

-----------------------------------------------------------------------------
(* The executor *)

executorFrame == <<stop, closer, joinSet, accepting, hpc, request, wire>>

(* Setting done, with or without a response, on a job whose handler waits. *)
Finish(job, response) ==
    answer' = IF hpc[job.conn] = "run"
              THEN [answer EXCEPT ![job.conn] = response] ELSE answer

ExecutorDrops ==
    /\ executor = Idle /\ jobs # <<>> /\ Head(jobs) # Sentinel
    /\ Obsolete(Head(jobs))
    /\ jobs' = Tail(jobs) /\ Finish(Head(jobs), Dropped)
    /\ UNCHANGED <<executor, policy, executorFrame>>

ExecutorStarts ==
    /\ executor = Idle /\ jobs # <<>> /\ Head(jobs) # Sentinel
    /\ ~Obsolete(Head(jobs))
    /\ jobs' = Tail(jobs) /\ executor' = Head(jobs)
    /\ policy' = IF Head(jobs).kind = "reset"
                 THEN [ep |-> Head(jobs).ep, clean |-> FALSE] ELSE policy
    /\ UNCHANGED <<answer, executorFrame>>

(* Slip: a reset that raised is acknowledged. *)
AlwaysAck(failed) == [id |-> executor.id,
                      kind |-> IF executor.kind = "reset" THEN "ack"
                               ELSE IF failed THEN "error" ELSE "ok"]

Response(failed) == [id |-> executor.id,
                     kind |-> IF failed THEN "error"
                              ELSE IF executor.kind = "reset" THEN "ack" ELSE "ok"]

(* The callback returns, or raises and leaves a reset incomplete. *)
ExecutorFinishes ==
    /\ executor.kind \in Kinds
    /\ \E failed \in {FALSE, Faults} :
         /\ policy' = IF executor.kind = "reset"
                      THEN [policy EXCEPT !.clean = ~failed] ELSE policy
         /\ Finish(executor, IF Obsolete(executor) THEN Dropped ELSE Response(failed))
    /\ executor' = Idle
    /\ UNCHANGED <<jobs, executorFrame>>

ExecutorExits ==
    /\ executor = Idle /\ jobs # <<>> /\ Head(jobs) = Sentinel
    /\ jobs' = Tail(jobs) /\ executor' = Exited
    /\ UNCHANGED <<answer, policy, executorFrame>>

-----------------------------------------------------------------------------
(* close() *)

closeFrame == <<accepting, request, answer, executor, policy>>

(* Connections that wait in the backlog go with the listener. *)
StopServer ==
    /\ MayClose /\ closer = "no" /\ closer' = "stopping"
    /\ stop' = TRUE /\ listening' = FALSE
    /\ serverEnd' = [c \in Conns |-> IF c \in Backlog THEN "closed" ELSE serverEnd[c]]
    /\ toServer' = [c \in Conns |-> IF c \in Backlog THEN <<>> ELSE toServer[c]]
    /\ UNCHANGED <<closeFrame, joinSet, hpc, jobs, clientEnd, eof, toClient>>

Serving == {c \in Conns : hpc[c] \notin {"none", "ended"}}

(* Slip: close() joins the handlers without shutting their connections. *)
ShutNothing ==
    /\ closer = "stopping" /\ closer' = "joining"
    /\ joinSet' = Serving
    /\ UNCHANGED <<closeFrame, stop, hpc, jobs, wire>>

(* The threads found under _threads_lock, and their connections shut. *)
ShutConnections ==
    /\ closer = "stopping" /\ closer' = "joining"
    /\ joinSet' = Serving
    /\ serverEnd' = [c \in Conns |-> IF c \in Serving THEN "closed" ELSE serverEnd[c]]
    /\ toServer' = [c \in Conns |-> IF c \in Serving THEN <<>> ELSE toServer[c]]
    /\ UNCHANGED <<closeFrame, stop, hpc, jobs, listening, clientEnd, eof, toClient>>

JoinHandlers ==
    /\ closer = "joining" /\ \A c \in joinSet : hpc[c] = "ended"
    /\ closer' = "executor" /\ jobs' = Append(jobs, Sentinel)
    /\ UNCHANGED <<closeFrame, stop, joinSet, hpc, wire>>

JoinExecutor ==
    /\ closer = "executor" /\ executor = Exited /\ closer' = "closed"
    /\ UNCHANGED <<closeFrame, stop, joinSet, hpc, jobs, wire>>

Handle(c) ==
    \/ HandlerReads(c) \/ HandlerLosesPeer(c) \/ HandlerSubmits(c)
    \/ HandlerDisconnects(c) \/ HandlerInjectsError(c) \/ HandlerGivesUp(c)
    \/ HandlerTakesAnswer(c) \/ HandlerDropsReply(c) \/ HandlerReplies(c)
    \/ HandlerReplyFails(c)

Listen  == \E c \in Conns : Accept(c) \/ Register(c)
Execute == ExecutorDrops \/ ExecutorStarts \/ ExecutorFinishes \/ ExecutorExits
Close   == ShutConnections \/ JoinHandlers \/ JoinExecutor

ServerNext ==
    \/ Listen \/ Execute \/ StopServer \/ Close
    \/ \E c \in Conns : Handle(c)
=============================================================================
