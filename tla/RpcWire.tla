------------------------------- MODULE RpcWire -------------------------------
(***************************************************************************)
(* The TCP connections between rpc_client.py and rpc_server_runtime.py:    *)
(* what each end has done and the frames under way in either direction.    *)
(* A frame is its request id and kind; "ep" is a history field, the number *)
(* of the reset() the caller of the request relies on, which no code reads.*)
(*                                                                         *)
(* Connections are numbered in the order they are opened.  Bytes of one    *)
(* connection arrive in order; nothing orders two connections.             *)
(***************************************************************************)
EXTENDS Integers, Sequences, FiniteSets

CONSTANTS
    MaxConns,      \* bound: connections ever opened
    ClosePrompt    \* the server sees a close before anything the client does next

ASSUME WireAssumption == MaxConns \in Nat /\ ClosePrompt \in BOOLEAN

VARIABLES
    listening,     \* the listening socket is open
    clientEnd,     \* "unused", "open" or "closed"
    serverEnd,     \* "none", "backlog" (not accepted), "open" or "closed"
    eof,           \* the end of the client's stream has reached the server
    toServer, toClient

wire == <<listening, clientEnd, serverEnd, eof, toServer, toClient>>

Conns  == 1..MaxConns
NoConn == 0

Kinds == {"infer", "reset"}
Frames == [id : Nat, ep : Nat, kind : Kinds]
Replies == [id : Nat, kind : {"ok", "ack", "error"}]
Junk == [id |-> 0, kind |-> "junk"]

WireInit ==
    /\ listening = TRUE
    /\ clientEnd = [c \in Conns |-> "unused"]
    /\ serverEnd = [c \in Conns |-> "none"]
    /\ eof = [c \in Conns |-> FALSE]
    /\ toServer = [c \in Conns |-> <<>>]
    /\ toClient = [c \in Conns |-> <<>>]

WireTypeOK ==
    /\ listening \in BOOLEAN
    /\ clientEnd \in [Conns -> {"unused", "open", "closed"}]
    /\ serverEnd \in [Conns -> {"none", "backlog", "open", "closed"}]
    /\ eof \in [Conns -> BOOLEAN]
    /\ toServer \in [Conns -> Seq(Frames)]
    /\ toClient \in [Conns -> Seq(Replies \union {Junk})]

(* shutdown() and close() of the client's end of c: what it has not read is *)
(* lost, what it has sent is not.                                           *)
ClientCloses(c) ==
    IF c = NoConn
    THEN UNCHANGED <<clientEnd, eof, toClient>>
    ELSE /\ clientEnd' = [clientEnd EXCEPT ![c] = "closed"]
         /\ eof' = IF ClosePrompt THEN [eof EXCEPT ![c] = TRUE] ELSE eof
         /\ toClient' = [toClient EXCEPT ![c] = <<>>]

(* The end of a closed stream reaches the server at last. *)
EofArrives(c) ==
    /\ clientEnd[c] = "closed" /\ ~eof[c]
    /\ eof' = [eof EXCEPT ![c] = TRUE]
    /\ UNCHANGED <<listening, clientEnd, serverEnd, toServer, toClient>>
=============================================================================
