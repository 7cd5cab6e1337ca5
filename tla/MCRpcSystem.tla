---------------------------- MODULE MCRpcSystem ----------------------------
(* Small instances of the RPC system for TLC. *)
EXTENDS RpcSystem, TLC

CONSTANTS r1, r2, w1

SwapResetters == Permutations({r1, r2})
=============================================================================
