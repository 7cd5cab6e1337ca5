------------------------------ MODULE RpcSystem ------------------------------
(***************************************************************************)
(* One TcpInferenceTransport, used by several threads, and the RPC server  *)
(* it talks to: whose state an inference runs on, and whose answer it gets.*)
(***************************************************************************)
EXTENDS TcpClient, RpcServer

CONSTANT Garbled    \* the peer may answer with a frame nobody asked for

ASSUME GarbledAssumption == Garbled \in BOOLEAN

vars == <<wire, clientVars, serverVars>>

Init == WireInit /\ ClientInit /\ ServerInit

(* A reply of another version, kind or id, as a foreign server would send. *)
Garble(c) ==
    /\ Garbled /\ toClient[c] # <<>>
    /\ toClient' = [toClient EXCEPT ![c][1] = Junk]
    /\ UNCHANGED <<listening, clientEnd, serverEnd, eof, toServer>>

Network == \E c \in Conns : EofArrives(c) \/ Garble(c)

Next ==
    \/ ClientNext /\ UNCHANGED serverVars
    \/ ServerNext /\ UNCHANGED clientVars
    \/ Network /\ UNCHANGED <<clientVars, serverVars>>

Spec == Init /\ [][Next]_vars

(* Every thread of the server runs, callbacks return and streams end.       *)
(* Nothing is asked of callers, nor of whoever closes the server.           *)
FairSpec ==
    /\ Spec
    /\ WF_vars(Listen /\ UNCHANGED clientVars)
    /\ WF_vars(Execute /\ UNCHANGED clientVars)
    /\ WF_vars(Close /\ UNCHANGED clientVars)
    /\ \A c \in Conns :
         /\ WF_vars(Handle(c) /\ UNCHANGED clientVars)
         /\ WF_vars(EofArrives(c) /\ UNCHANGED <<clientVars, serverVars>>)

-----------------------------------------------------------------------------
(* Every variable of the client, the server and the wire has its type. *)
TypeOK == WireTypeOK /\ ClientTypeOK /\ ServerTypeOK

(* While inference is open, the remote policy is in the state the last reset *)
(* asked for left it in: no older reset runs after it, none has failed.      *)
ConfirmedReset ==
    ~resetRequired => policy = [ep |-> wanted, clean |-> TRUE]

(* An inference only ever runs on a policy that was completely reset for its *)
(* own episode: "old inference completion, worker reset, ACK, new episode    *)
(* inference" (docs/rpc-runtime-hardening.md:58).                            *)
PolicyOfEpisode ==
    executor.kind = "infer" => policy = [ep |-> executor.ep, clean |-> TRUE]

(* A thread never receives the reply to another request: a connection is     *)
(* only used again if its last exchange was complete.                        *)
RepliesPaired ==
    \A t \in Threads :
        pc[t] = "received" /\ call[t].reply.kind # "junk"
            => call[t].reply.id = call[t].id

(* A connection is open at the client only while it is the published one, of *)
(* the current generation, or in the hands of the thread that opened it.     *)
NoStrayConnection ==
    \A c \in Conns :
        clientEnd[c] = "open" =>
            \/ c = sock
            \/ \E t \in Threads : pc[t] = "publish" /\ call[t].conn = c

(* After cancel(), close(), reset() or a failure, the requests begun before  *)
(* it have lost their connection.                                            *)
InvalidatedAreCutOff ==
    \A t \in Threads :
        /\ pc[t] \in {"send", "receive", "received", "valid"}
        /\ ~Current(t)
        => clientEnd[call[t].conn] = "closed"

(* After cancel(), close(), reset() or a failure no request begun before it  *)
(* keeps a connection, and none is open but the published one and those just *)
(* being made.                                                               *)
ConnectionsAreCutOff == TypeOK /\ NoStrayConnection /\ InvalidatedAreCutOff

(* infer() returns an answer only in the episode in which it was called, and *)
(* only if no reset has been asked for since.                                *)
AnswersAreCurrent ==
    [][\A t \in Inferers :
         pc[t] = "valid" /\ pc'[t] = "idle" => call[t].ep = wanted /\ ~resetRequired]_vars

(* Once close() of the server has returned nothing runs any more.            *)
QuietAfterClose ==
    closer = "closed" => /\ Serving = {}
                         /\ executor = Exited /\ jobs = <<>>

-----------------------------------------------------------------------------
(* What makes these invariants inductive. *)

(* The request lock has one owner, from admission to the end of the exchange. *)
Holds(t) ==
    \/ pc[t] \in {"socket", "connecting", "publish", "send", "receive", "received"}
    \/ t \in Inferers /\ pc[t] \in {"valid", "failing"}
LockInv == \A t \in Threads :
    /\ Holds(t) <=> lock = t
    /\ pc[t] = "valid" => t \in Inferers
    /\ pc[t] = "acked" => t \in Resetters
    /\ pc[t] = "failing" => call[t].why # "none"

(* A call of the current generation is of the episode asked for last, and   *)
(* while it is a reset it is the only one.                                  *)
Calling(t) == pc[t] # "idle" /\ Current(t)
GenerationInv ==
    /\ \A t \in Threads : Calling(t) => call[t].ep = wanted
    /\ \A t \in Inferers : Calling(t) => ~resetRequired
    /\ \A t \in Resetters : Calling(t) => resetRequired
    /\ \A t, u \in Resetters : Calling(t) /\ Calling(u) => t = u

(* A thread's connection is the published one of its generation, or closed. *)
Talking(t) == pc[t] \in {"send", "receive", "received", "valid"}
ConnectionInv ==
    /\ sock # NoConn => clientEnd[sock] = "open"
    /\ \A t \in Threads :
         /\ pc[t] \in {"queued", "socket", "connecting"} => call[t].conn = NoConn
         /\ pc[t] = "publish" => /\ call[t].conn # sock
                                 /\ clientEnd[call[t].conn] = "open"
         /\ Talking(t) \/ pc[t] \in {"acked", "failing"} =>
              \/ call[t].conn = NoConn \/ clientEnd[call[t].conn] = "closed"
              \/ Current(t) /\ call[t].conn = sock

(* The server only serves connections it has accepted, and nothing reaches a *)
(* client that does not listen.                                              *)
AcceptInv ==
    /\ \A c \in Conns :
         /\ clientEnd[c] = "unused" => serverEnd[c] = "none" /\ toServer[c] = <<>>
         /\ clientEnd[c] # "open" => toClient[c] = <<>>
         /\ serverEnd[c] \in {"none", "backlog"} => hpc[c] = "none"
    /\ accepting # NoConn =>
         serverEnd[accepting] \notin {"none", "backlog"} /\ hpc[accepting] = "none"

(* A handler's request is one job, until its answer is there. *)
Waiting(job) == hpc[job.conn] = "run" => answer[job.conn] = Pending
JobInv ==
    /\ \A i \in DOMAIN jobs : jobs[i] # Sentinel =>
         hpc[jobs[i].conn] \in {"run", "ended"} /\ Waiting(jobs[i])
    /\ executor \in Jobs =>
         hpc[executor.conn] \in {"run", "ended"} /\ Waiting(executor)
    /\ \A i, j \in DOMAIN jobs :
         jobs[i] # Sentinel /\ jobs[i].conn = jobs[j].conn => i = j
    /\ \A i \in DOMAIN jobs : executor \in Jobs => jobs[i].conn # executor.conn

(* Closing goes one way: no handler begins after the stop, the sentinel is   *)
(* the last job.                                                             *)
CloseInv ==
    /\ stop <=> closer # "no"
    /\ closer = "joining" => Serving \subseteq joinSet
    /\ closer \in {"no", "stopping", "joining"} =>
         executor # Exited /\ \A i \in DOMAIN jobs : jobs[i] # Sentinel
    /\ closer \in {"executor", "closed"} =>
         /\ Serving = {}
         /\ IF executor = Exited THEN jobs = <<>>
            ELSE jobs # <<>> /\ \A i \in DOMAIN jobs : jobs[i] = Sentinel <=> i = Len(jobs)
    /\ closer = "closed" => executor = Exited

(* One request at most is under way on an open connection, and it is that of *)
(* a thread that still waits for the answer or is about to give up.          *)
Serves(c) == hpc[c] \in {"got", "run", "reply"}
Silent(c) == toServer[c] = <<>> /\ toClient[c] = <<>> /\ ~Serves(c)
Owns(t, c) == /\ call[t].conn = c
              /\ pc[t] = "receive" \/ (pc[t] = "failing" /\ call[t].why # "remote")
KindOf(t) == IF t \in Inferers THEN "infer" ELSE "reset"
Sent(t) == [id |-> call[t].id, ep |-> call[t].ep, kind |-> KindOf(t)]
JobSent(t) == [conn |-> call[t].conn, id |-> call[t].id, ep |-> call[t].ep,
               kind |-> KindOf(t)]
OneFrame(c) ==
    /\ Len(toServer[c]) <= 1 /\ Len(toClient[c]) <= 1
    /\ toServer[c] # <<>> => toClient[c] = <<>> /\ ~Serves(c)
    /\ toClient[c] # <<>> => ~Serves(c)
FrameOf(t, c) ==
    /\ toServer[c] # <<>> => toServer[c][1] = Sent(t)
    /\ hpc[c] = "got" => request[c] = Sent(t)
    /\ hpc[c] = "run" => /\ \A i \in DOMAIN jobs : jobs[i].conn = c => jobs[i] = JobSent(t)
                         /\ executor.conn = c => executor = JobSent(t)
    /\ hpc[c] \in {"run", "reply"} /\ answer[c] \in Replies => answer[c].id = call[t].id
    /\ toClient[c] # <<>> => toClient[c][1].id = call[t].id \/ toClient[c][1] = Junk
FrameInv == \A c \in Conns : clientEnd[c] = "open" =>
    /\ OneFrame(c)
    /\ Silent(c) \/ \E t \in Threads : Owns(t, c) /\ FrameOf(t, c)

(* An acknowledgement under way, or confirmed, is that of the wanted episode; *)
(* a reset that has not run yet finds the policy in an older one.             *)
Ready == policy = [ep |-> wanted, clean |-> TRUE] /\ executor.kind # "reset"
Stale == policy.ep < wanted
PolicyInv ==
    /\ policy.ep <= wanted
    /\ executor.kind = "reset" => policy = [ep |-> executor.ep, clean |-> FALSE]
    /\ PolicyOfEpisode
    /\ ~resetRequired => Ready
    /\ \A t \in Resetters : Calling(t) =>
         /\ pc[t] \in {"queued", "socket", "connecting", "publish", "send"} => Stale
         /\ pc[t] = "received" /\ call[t].reply.kind = "ack" => Ready
         /\ pc[t] = "acked" => Ready
    /\ \A c \in Conns : clientEnd[c] = "open" =>
         /\ toServer[c] # <<>> /\ toServer[c][1].kind = "reset" => Stale
         /\ hpc[c] = "got" /\ request[c].kind = "reset" => Stale
         /\ hpc[c] = "run" => \A i \in DOMAIN jobs :
              jobs[i].conn = c /\ jobs[i].kind = "reset" => Stale
         /\ hpc[c] \in {"run", "reply"} /\ answer[c].kind = "ack" => Ready
         /\ toClient[c] # <<>> /\ toClient[c][1].kind = "ack" => Ready
EofInv == \A c \in Conns : clientEnd[c] = "closed" => eof[c]

RpcInv ==
    /\ TypeOK /\ LockInv /\ GenerationInv /\ ConnectionInv /\ NoStrayConnection
    /\ AcceptInv /\ JobInv /\ CloseInv /\ FrameInv /\ RepliesPaired
    /\ ClosePrompt => EofInv /\ PolicyInv

-----------------------------------------------------------------------------
(* close() of the server returns, whatever is queued, running or connected.  *)
CloseEnds == closer = "stopping" ~> closer = "closed"

(* The handler of a connection the client has given up does not stay. *)
HandlersReaped ==
    \A c \in Conns :
        (c \in Serving /\ clientEnd[c] = "closed") ~> hpc[c] = "ended"

Remote == INSTANCE RemotePolicy WITH
    confirmed <- ~resetRequired,
    running   <- IF executor.kind \in Kinds
                 THEN [kind |-> executor.kind, ep |-> executor.ep]
                 ELSE [kind |-> "idle", ep |-> 0]

(* Client and server together implement the acknowledged reset. *)
ImplementsRemotePolicy == Remote!Spec
=============================================================================
