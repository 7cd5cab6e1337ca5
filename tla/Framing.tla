------------------------------- MODULE Framing -------------------------------
(* One direction of an RPC connection, byte by byte                          *)
(* (src/src/actionstream/rpc_protocol.py): a frame is a header with the      *)
(* length of its body and the body; TCP cuts the stream wherever it likes.   *)
(* RpcWire hands whole frames over; this module shows that it may.           *)
(*                                                                           *)
(* A byte is a digit below Base and the header has HeaderSize of them, most  *)
(* significant first (the code: 4 bytes of base 256, "!I").  A body is the   *)
(* JSON text of a payload; of its meaning only this matters, whether it is a *)
(* mapping.  WireCodec is about the text.                                    *)
EXTENDS Integers, Sequences, SequencesExt

CONSTANTS
    Base, HeaderSize,
    MaxFrame,       \* _MAX_FRAME_BYTES
    Bodies,         \* the bodies payloads are encoded to
    Mappings,       \* those that decode to a mapping
    Deadline,       \* the receiver has one: the client does, the server none
    MaxSends        \* bound: frames begun on one connection

FramingAssumption ==
    /\ Base \in Nat \ {0, 1} /\ HeaderSize \in Nat \ {0} /\ MaxSends \in Nat
    /\ MaxFrame \in 1 .. Base ^ HeaderSize - 1
    /\ Bodies \subseteq Seq(0 .. Base - 1) \ {<<>>} /\ Mappings \subseteq Bodies
    /\ Deadline \in BOOLEAN

VARIABLES
    sent,       \* bodies whose frame sendall was given
    out,        \* bytes sendall has not handed to the network yet
    net,        \* bytes under way
    sender,     \* "up", or "closed" after an error, a deadline or a close
    stage,      \* what the receiver reads: "header", "body"; or "failed"
    need,       \* bytes _recv_exact was asked for
    chunks,     \* bytes it has
    delivered   \* bodies decoded and returned

vars == <<sent, out, net, sender, stage, need, chunks, delivered>>

Digit(n, i) == (n \div (Base ^ (HeaderSize - i))) % Base
Header(n) == [i \in 1 .. HeaderSize |-> Digit(n, i)]
Length(header) == FoldLeft(LAMBDA n, d : n * Base + d, 0, header)

Init ==
    /\ sent = <<>> /\ out = <<>> /\ net = <<>> /\ delivered = <<>>
    /\ sender = "up"
    /\ stage = "header" /\ need = HeaderSize /\ chunks = <<>>

(* _send_frame of one thread: the next frame waits for the last byte of this *)
(* one.  A body over the limit raises before a byte is sent, and the caller  *)
(* gives the connection up.                                                  *)
SendFrame(body) ==
    /\ sender = "up" /\ out = <<>> /\ Len(sent) < MaxSends
    /\ IF Len(body) > MaxFrame
       THEN sender' = "closed" /\ UNCHANGED <<sent, out>>
       ELSE /\ sent' = Append(sent, body)
            /\ out' = Header(Len(body)) \o body
            /\ UNCHANGED sender
    /\ UNCHANGED <<net, stage, need, chunks, delivered>>

(* sendall: the kernel takes some bytes at a time.                           *)
Transmit ==
    /\ out # <<>>
    /\ \E n \in 1 .. Len(out) :
           /\ net' = net \o SubSeq(out, 1, n)
           /\ out' = SubSeq(out, n + 1, Len(out))
    /\ UNCHANGED <<sent, sender, stage, need, chunks, delivered>>

(* Slip: after its deadline a sender goes on to the next frame.              *)
GiveUpKeepingOpen ==
    /\ sender = "up" /\ out' = <<>>
    /\ UNCHANGED <<sent, net, sender, stage, need, chunks, delivered>>

(* The sender's deadline passes inside sendall, it is cancelled or it ends:  *)
(* the connection is closed, perhaps in the middle of a frame.               *)
GiveUp ==
    /\ sender = "up" /\ sender' = "closed" /\ out' = <<>>
    /\ UNCHANGED <<sent, net, stage, need, chunks, delivered>>

Wanted == need - Len(chunks)

Enough(have) == Len(have) = need

Decodes(body) == body \in Mappings

Expect(s, n) == stage' = s /\ need' = n /\ chunks' = <<>>
Fail == stage' = "failed" /\ UNCHANGED <<need, chunks>>

(* What a complete read means: a header asks for its body if the length is   *)
(* legal, a body is delivered if it decodes.                                 *)
Complete(have) ==
    \/ /\ stage = "header"
       /\ IF Length(have) \in 1 .. MaxFrame THEN Expect("body", Length(have)) ELSE Fail
       /\ UNCHANGED delivered
    \/ /\ stage = "body"
       /\ IF Decodes(have)
          THEN delivered' = Append(delivered, have) /\ Expect("header", HeaderSize)
          ELSE Fail /\ UNCHANGED delivered

Smaller(a, b) == IF a < b THEN a ELSE b

Receive ==
    /\ stage # "failed" /\ net # <<>>
    /\ \E n \in 1 .. Smaller(Wanted, Len(net)) :
           LET have == chunks \o SubSeq(net, 1, n) IN
           /\ net' = SubSeq(net, n + 1, Len(net))
           /\ IF Enough(have)
              THEN Complete(have)
              ELSE chunks' = have /\ UNCHANGED <<stage, need, delivered>>
    /\ UNCHANGED <<sent, out, sender>>

(* An empty recv: the peer has closed, between frames or inside one.         *)
EndOfStream ==
    /\ stage # "failed" /\ net = <<>> /\ out = <<>> /\ sender = "closed"
    /\ Fail
    /\ UNCHANGED <<sent, out, net, sender, delivered>>

(* The receiver's deadline, a cancel or a close from its own side: it gives  *)
(* the connection up with whatever it has read.                              *)
TimeOut ==
    /\ Deadline /\ stage # "failed"
    /\ Fail
    /\ UNCHANGED <<sent, out, net, sender, delivered>>

Next ==
    \/ \E body \in Bodies : SendFrame(body)
    \/ Transmit \/ GiveUp
    \/ Receive \/ EndOfStream \/ TimeOut

Spec == Init /\ [][Next]_vars

(* sendall and recv go on while the connection is up; nobody has to send.    *)
FairSpec == Spec /\ WF_vars(Transmit) /\ WF_vars(Receive) /\ WF_vars(EndOfStream)

-----------------------------------------------------------------------------
TypeOK ==
    /\ sender \in {"up", "closed"} /\ stage \in {"header", "body", "failed"}
    /\ need \in 1 .. MaxFrame \cup {HeaderSize}
    /\ Len(chunks) < need
    /\ sent \in Seq(Bodies) /\ delivered \in Seq(Bodies)

Channel == INSTANCE FrameChannel WITH Messages <- Bodies, open <- stage # "failed"

(* However the stream is cut and wherever it ends, the frames that arrive    *)
(* are the frames that were sent, whole and in order, and none comes after a *)
(* failure: RpcWire may treat a frame as one step.                           *)
ImplementsFrameChannel == Channel!Spec

(* A connection never gets stuck inside a frame: what was sent is delivered, *)
(* or the receiver learns that the connection is broken.                     *)
DeliveredOrBroken == []<>(delivered = sent \/ stage = "failed")
=============================================================================
