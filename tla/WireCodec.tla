------------------------------ MODULE WireCodec ------------------------------
(* The recursive encoding of RPC payloads as JSON and back                   *)
(* (src/src/actionstream/rpc_protocol.py).  A value is a node: its kind, the *)
(* keys of a mapping, its children, and for arrays dtype, shape and the      *)
(* elements.  The encoded form uses the same nodes, of the kinds JSON has:   *)
(* scalar, list and mapping; base64 keeps bytes as they are and is left out. *)
EXTENDS Integers, Sequences, SequencesExt, FiniteSets

CONSTANT Values    \* payload values: the kinds below, nested

VARIABLES value, wire, result

vars == <<value, wire, result>>

Arrays == {"tensor", "ndarray"}
Leaf(kind, data) == [kind |-> kind, keys |-> <<>>, kids |-> <<>>, shape |-> <<>>, data |-> data]
List(kids) == [Leaf("list", <<>>) EXCEPT !.kids = kids]
Mapping(keys, kids) == [Leaf("mapping", <<>>) EXCEPT !.keys = keys, !.kids = kids]
Tag == [tensor |-> "tensor tag", ndarray |-> "ndarray tag", bytes |-> "bytes tag",
        tuple |-> "tuple tag"]
Failure == Leaf("failure", <<>>)
Has(v, key) == key \in Range(v.keys)
At(v, key) == v.kids[CHOOSE i \in DOMAIN v.keys : v.keys[i] = key]

(* np.ascontiguousarray makes an array without dimensions one-dimensional.   *)
WireShape(v) == IF v.kind = "ndarray" /\ v.shape = <<>> THEN <<1>> ELSE v.shape

Tagged(v) ==
    Mapping(<<Tag[v.kind], "shape", "data">>,
            <<Leaf("scalar", <<1>>),
              List([i \in DOMAIN WireShape(v) |-> Leaf("scalar", <<WireShape(v)[i]>>)]),
              Leaf("scalar", v.data)>>)

RECURSIVE Encode(_)
Encode(v) ==
    LET kids == [i \in DOMAIN v.kids |-> Encode(v.kids[i])] IN
    CASE v.kind \in Arrays -> Tagged(v)
      [] v.kind \in {"bytes", "bytearray"} ->
             Mapping(<<Tag.bytes, "data">>, <<Leaf("scalar", <<1>>), Leaf("scalar", v.data)>>)
      [] v.kind = "tuple" -> Mapping(<<Tag.tuple>>, <<List(kids)>>)
      [] v.kind = "list" -> List(kids)
      [] v.kind = "mapping" -> Mapping(v.keys, kids)
      [] v.kind \in {"scalar", "numpy scalar"} -> Leaf("scalar", v.data)

(* A tag counts when its value is True; the tuple's whatever its value.      *)
IsTrue(j) == j.kind = "scalar" /\ j.data = <<1>>
Marks(j, tag) == Has(j, tag) /\ IsTrue(At(j, tag))

(* torch.frombuffer refuses an empty buffer, np.frombuffer does not.         *)
DecodeArray(kind, j) ==
    LET shape == [i \in DOMAIN At(j, "shape").kids |-> At(j, "shape").kids[i].data[1]]
        data == At(j, "data").data
    IN IF kind = "tensor" /\ data = <<>> THEN Failure
       ELSE [Leaf(kind, data) EXCEPT !.shape = shape]

(* Slip: what is inside a tuple is not decoded.                              *)
DecodeKidsOfTuple(kids, decoded) == kids
KidsOfTuple(kids, decoded) == decoded

(* A container around something that cannot be decoded fails as well.        *)
Whole(v) == IF Failure \in Range(v.kids) THEN Failure ELSE v

RECURSIVE Decode(_)
Decode(j) ==
    LET Kids(items) == [i \in DOMAIN items |-> Decode(items[i])] IN
    IF j.kind = "list" THEN Whole(List(Kids(j.kids)))
    ELSE IF j.kind # "mapping" THEN j
    ELSE IF Marks(j, Tag.tensor) THEN DecodeArray("tensor", j)
    ELSE IF Marks(j, Tag.ndarray) THEN DecodeArray("ndarray", j)
    ELSE IF Marks(j, Tag.bytes) THEN Leaf("bytes", At(j, "data").data)
    ELSE IF Has(j, Tag.tuple)
    THEN LET items == At(j, Tag.tuple).kids IN
         Whole([Leaf("tuple", <<>>) EXCEPT !.kids = KidsOfTuple(items, Kids(items))])
    ELSE Whole(Mapping(j.keys, Kids(j.kids)))

Nothing == Leaf("nothing", <<>>)

Init == value = Nothing /\ wire = Nothing /\ result = Nothing

Send(v) ==
    /\ value = Nothing
    /\ value' = v /\ wire' = Encode(v)
    /\ UNCHANGED result

Receive ==
    /\ value # Nothing /\ result = Nothing
    /\ result' = Decode(wire)
    /\ UNCHANGED <<value, wire>>

Next == (\E v \in Values : Send(v)) \/ Receive

Spec == Init /\ [][Next]_vars

-----------------------------------------------------------------------------
(* What comes back: the value itself, but for a bytearray (bytes), a numpy   *)
(* scalar (a plain one), an array without dimensions (one of one dimension). *)
RECURSIVE Canonical(_)
Canonical(v) ==
    LET kind == CASE v.kind = "bytearray" -> "bytes"
                  [] v.kind = "numpy scalar" -> "scalar"
                  [] OTHER -> v.kind
    IN [v EXCEPT !.kind = kind, !.shape = WireShape(v),
                 !.kids = [i \in DOMAIN v.kids |-> Canonical(v.kids[i])]]

RECURSIVE Nodes(_)
Nodes(v) == {v} \cup UNION {Nodes(v.kids[i]) : i \in DOMAIN v.kids}

EmptyTensors(v) == {n \in Nodes(v) : n.kind = "tensor" /\ n.data = <<>>}

(* A nested payload comes back as it was sent, tensors, arrays, bytes and    *)
(* tuples inside lists and mappings included; the one that cannot come back  *)
(* is a payload with an empty tensor, and it fails instead of changing.      *)
RoundTrips ==
    result # Nothing =>
        IF EmptyTensors(value) # {} THEN result = Failure ELSE result = Canonical(value)
=============================================================================
