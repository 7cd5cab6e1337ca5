----------------------------- MODULE MCProgress -----------------------------
(* What must end, side by side: the server and its handlers, a request of    *)
(* the process transport, a connection's frames (with the payloads in them), *)
(* a run of the legacy benchmark, a remote episode and an invocation of the  *)
(* GPU supervisor.  They share no state: in a behaviour one part moves, and  *)
(* it is given the fairness its own module gives it.                         *)
EXTENDS Integers, Sequences, SequencesExt

VARIABLES part
VARIABLES life, started, shutdown, active, resetting, fatal, epoch, revision, currentStep,
          mailbox, lastSubmitted, ordinal, resetPending, pending, latestDelivered, queue,
          lastAction, hold, starved, failures, connected, metrics, wpc, work, dpc, delivery,
          provider
VARIABLES lpc, status, controlSteps, sent
VARIABLES listening, clientEnd, serverEnd, eof, toServer, toClient,
          resetRequired, wireGeneration, sock, lock, wanted, nextId, pc, call,
          stop, closer, joinSet, accepting, hpc, request, answer, jobs, executor, policy
VARIABLES admission, cancelEvent, inflight, generation, process, startSample, requestSample,
          child, pipe, requests, callers, calls, op, born, settled, phase, resetGen
VARIABLES frames, out, net, sender, stage, need, chunks, delivered
VARIABLES value, wire, result
VARIABLES mail, inference, results, error, closed, ended, episode, count, mode, control, step,
          actions, last, requested, events, submitted
VARIABLES ledger, gpuLock, sup, children, passed

engine == <<life, started, shutdown, active, resetting, fatal, epoch, revision, currentStep,
            mailbox, lastSubmitted, ordinal, resetPending, pending, latestDelivered, queue,
            lastAction, hold, starved, failures, connected, metrics, wpc, work, dpc, delivery,
            provider>>
client == <<lpc, status, controlSteps, sent>>
caller == <<resetRequired, wireGeneration, sock, lock, wanted, nextId, pc, call>>
server == <<stop, closer, joinSet, accepting, hpc, request, answer, jobs, executor, policy>>
rpc == <<listening, clientEnd, serverEnd, eof, toServer, toClient, caller, server>>
transport == <<admission, cancelEvent, inflight, generation, process, startSample,
               requestSample, child, pipe, requests, callers, calls, op, born, settled, phase,
               resetGen>>
framing == <<frames, out, net, sender, stage, need, chunks, delivered>>
codec == <<value, wire, result>>
loop == <<mail, inference, results, error, closed, ended, episode, count, mode, control, step,
          actions, last, requested, events, submitted>>
gpu == <<ledger, gpuLock, sup, children, passed>>
allVars == <<part, engine, client, rpc, transport, framing, codec, loop, gpu>>

Remote == INSTANCE RemoteEpisode WITH
    Scheduler <- FALSE, LatestOnlyFallback <- TRUE, BoundedHold <- 0, MinInterval <- 2,
    MaxFailures <- 2, ChunkLens <- {1}, MaxEpoch <- 2, MaxStep <- 2, MaxRevision <- 1
Rpc == INSTANCE RpcSystem WITH
    Inferers <- {"w1"}, Resetters <- {"r1"}, MaxConns <- 2, MaxResets <- 1,
    MaxGeneration <- 3, MaxRequests <- 2, ClosePrompt <- FALSE, Faults <- FALSE,
    MayClose <- TRUE, Garbled <- FALSE, generation <- wireGeneration
Transport == INSTANCE ProcessTransport WITH
    Callers <- {"w1"}, Controllers <- {"k1"}, Engine <- FALSE,
    MaxEpochs <- 2, MaxChildren <- 2, MaxRequests <- 2,
    lock <- admission, pc <- callers, call <- calls, epoch <- born
Frames == INSTANCE Framing WITH
    Base <- 3, HeaderSize <- 2, MaxFrame <- 4, Deadline <- TRUE, MaxSends <- 3,
    Bodies <- {<<0>>, <<0, 1, 2>>, <<0, 2, 0>>, <<1, 1, 1, 1, 1>>},
    Mappings <- {<<0>>, <<0, 1, 2>>}, sent <- frames
Loop == INSTANCE AsyncBenchmark WITH
    ChunkLengths <- {1, 3}, Modes <- {"sync", "sync_hold", "async_naive", "async_aligned"},
    Episodes <- 2, EpisodeLength <- 5, ReplanInterval <- 2, Abandons <- FALSE,
    pending <- mail, active <- inference, generation <- episode, queue <- actions
Gpu == INSTANCE GpuLedger WITH
    Supervisors <- {"s1"}, Phases <- {"smoke", "development"}, Repeatable <- {"smoke"},
    Requires <- [smoke |-> {}, development |-> {}], Cap <- [smoke |-> 3, development |-> 5],
    Limit <- 5, Least <- 3, Reserve <- 2, Grace <- 1, KillWait <- 1, MaxRuns <- 2,
    lock <- gpuLock

(* Payloads: every leaf, every list, tuple and mapping of up to two leaves,  *)
(* and every list, tuple and mapping of one of those; no key is a tag.       *)
Node(kind, keys, kids, shape, data) ==
    [kind |-> kind, keys |-> keys, kids |-> kids, shape |-> shape, data |-> data]
Leaves ==
    {Node("ndarray", <<>>, <<>>, <<>>, <<1>>), Node("ndarray", <<>>, <<>>, <<0, 7>>, <<>>),
     Node("ndarray", <<>>, <<>>, <<1, 2>>, <<1, 2>>),
     Node("tensor", <<>>, <<>>, <<>>, <<1>>), Node("tensor", <<>>, <<>>, <<0>>, <<>>),
     Node("tensor", <<>>, <<>>, <<2>>, <<1, 2>>)}
    \cup {Node(k, <<>>, <<>>, <<>>, <<1>>) : k \in {"scalar", "numpy scalar", "bytes", "bytearray"}}
Around(kids) ==
    {Node(k, <<>>, kids, <<>>, <<>>) : k \in {"list", "tuple"}}
    \cup {Node("mapping", SubSeq(<<"observation", "task">>, 1, Len(kids)), kids, <<>>, <<>>)}
Flat == UNION {Around(k) : k \in BoundedSeq(Leaves, 2)}
Deep == UNION {Around(<<k>>) : k \in Flat}
Codec == INSTANCE WireCodec WITH Values <- Leaves \cup Flat \cup Deep

ASSUME ProgressParameters ==
    /\ Remote!ClientAssumption /\ Transport!TransportAssumption /\ Frames!FramingAssumption
    /\ Loop!BenchmarkAssumption /\ Loop!WorkerAssumption /\ Gpu!GpuAssumption

-----------------------------------------------------------------------------
Init ==
    /\ part \in {"remote", "rpc", "transport", "framing", "codec", "loop", "gpu"}
    /\ Remote!EpisodeInit /\ Rpc!Init /\ Transport!Init /\ Frames!Init /\ Codec!Init
    /\ Loop!Init /\ (part # "loop" => mode = "sync")
    /\ Gpu!Init

Serving ==
    /\ part = "remote" /\ Remote!EpisodeNext
    /\ UNCHANGED <<part, rpc, transport, framing, codec, loop, gpu>>
Calling ==
    /\ part = "rpc" /\ Rpc!Next
    /\ UNCHANGED <<part, engine, client, transport, framing, codec, loop, gpu>>
Transporting ==
    /\ part = "transport" /\ Transport!Next
    /\ UNCHANGED <<part, engine, client, rpc, framing, codec, loop, gpu>>
Sending ==
    /\ part = "framing" /\ Frames!Next
    /\ UNCHANGED <<part, engine, client, rpc, transport, codec, loop, gpu>>
Coding ==
    /\ part = "codec" /\ Codec!Next
    /\ UNCHANGED <<part, engine, client, rpc, transport, framing, loop, gpu>>
Benchmarking ==
    /\ part = "loop" /\ Loop!Next
    /\ UNCHANGED <<part, engine, client, rpc, transport, framing, codec, gpu>>
Supervising ==
    /\ part = "gpu" /\ Gpu!Next
    /\ UNCHANGED <<part, engine, client, rpc, transport, framing, codec, loop>>

Next == Serving \/ Calling \/ Transporting \/ Sending \/ Coding \/ Benchmarking \/ Supervising

(* The fairness of each module, for the part that moves. *)
served == <<engine, client>>
RemoteFairness ==
    /\ WF_served(part = "remote" /\ Remote!Client)
    /\ WF_served(part = "remote" /\ Remote!Owner)
    /\ SF_served(part = "remote" /\ Remote!WaitTimesOut)
RpcFairness ==
    /\ WF_rpc(part = "rpc" /\ Rpc!Listen /\ UNCHANGED caller)
    /\ WF_rpc(part = "rpc" /\ Rpc!Execute /\ UNCHANGED caller)
    /\ WF_rpc(part = "rpc" /\ Rpc!Close /\ UNCHANGED caller)
    /\ \A c \in 1..2 :
         /\ WF_rpc(part = "rpc" /\ Rpc!Handle(c) /\ UNCHANGED caller)
         /\ WF_rpc(part = "rpc" /\ Rpc!EofArrives(c)
                     /\ UNCHANGED <<caller, server>>)
TransportFairness ==
    /\ WF_transport(part = "transport" /\ Transport!CallerStep("w1"))
    /\ SF_transport(part = "transport" /\ Transport!DeadlinePasses("w1"))
    /\ SF_transport(part = "transport" /\ Transport!Admit("w1"))
    /\ WF_transport(part = "transport" /\ Transport!ControllerStep("k1"))
FramingFairness ==
    /\ WF_framing(part = "framing" /\ Frames!Transmit)
    /\ WF_framing(part = "framing" /\ Frames!Receive)
    /\ WF_framing(part = "framing" /\ Frames!EndOfStream)
LoopFairness == WF_loop(part = "loop" /\ Loop!Control)
GpuFairness ==
    /\ WF_gpu(part = "gpu" /\ Gpu!Tick)
    /\ WF_gpu(part = "gpu" /\ Gpu!Step("s1"))

Spec ==
    /\ Init /\ [][Next]_allVars
    /\ RemoteFairness /\ RpcFairness /\ TransportFairness
    /\ FramingFairness /\ LoopFairness /\ GpuFairness

-----------------------------------------------------------------------------
(* close() of the server returns, whatever is queued, running or connected,  *)
(* nothing runs after it, and no handler stays behind on a connection its    *)
(* client has given up.                                                      *)
ServerEnds ==
    /\ [](part = "rpc" => Rpc!QuietAfterClose)
    /\ part = "rpc" => Rpc!CloseEnds /\ Rpc!HandlersReaped

(* A request of the process transport ends, also when its child crashes,     *)
(* never answers or is killed by another thread at any point: unless it      *)
(* stays for ever in a send or a receipt that blocks, which no deadline      *)
(* covers (docs/lifecycle_contract.md:89-90), and such a block ends when     *)
(* another thread resets, cancels or closes the transport.                   *)
RequestsEnd == part = "transport" => Transport!RequestsEnd

(* However a stream is cut, its frames arrive whole, in order and none after *)
(* a failure, and it is never stuck inside a frame without a failure.        *)
FramesArrive == Frames!ImplementsFrameChannel /\ Frames!DeliveredOrBroken

(* A nested payload comes back from the wire as it was sent, or fails.       *)
RoundTrips == part = "codec" => Codec!RoundTrips

(* A legacy run and a remote episode end, though an inference may hang, fail *)
(* or starve them.                                                           *)
LoopsEnd ==
    /\ part = "loop" => Loop!RunEnds
    /\ part = "remote" => Remote!EpisodeEnds

(* An invocation of the supervisor ends with its lock released, whatever its *)
(* child does.                                                               *)
InvocationEnds == part = "gpu" => Gpu!InvocationEnds
=============================================================================
