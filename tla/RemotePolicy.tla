---------------------------- MODULE RemotePolicy ----------------------------
(***************************************************************************)
(* What the acknowledged reset promises (docs/rpc-runtime-hardening.md): a *)
(* policy with mutable state, one owner that runs one call at a time, and  *)
(* a client that may only ask for inferences of an episode whose reset has *)
(* been confirmed.  No sockets, ids, generations, queues or deadlines.     *)
(***************************************************************************)
EXTENDS Integers

Nobody == [kind |-> "idle", ep |-> 0]

VARIABLES
    wanted,     \* the episode the client has asked for last
    confirmed,  \* its reset has been acknowledged
    policy,     \* the episode the policy was last reset for, and if completely
    running     \* the call the owner is in

vars == <<wanted, confirmed, policy, running>>

Ready(e) == policy = [ep |-> e, clean |-> TRUE]

Init ==
    /\ wanted = 0 /\ confirmed = FALSE
    /\ policy = [ep |-> 0, clean |-> FALSE] /\ running = Nobody

NewEpisode ==
    /\ wanted' = wanted + 1 /\ confirmed' = FALSE
    /\ UNCHANGED <<policy, running>>

(* Resets of episodes that are already given up may run, but in order. *)
StartReset ==
    /\ running = Nobody
    /\ \E e \in policy.ep + 1 .. wanted :
         /\ policy' = [ep |-> e, clean |-> FALSE]
         /\ running' = [kind |-> "reset", ep |-> e]
    /\ UNCHANGED <<wanted, confirmed>>

EndReset ==
    /\ running.kind = "reset" /\ running' = Nobody
    /\ policy' \in {policy, [policy EXCEPT !.clean = TRUE]}
    /\ UNCHANGED <<wanted, confirmed>>

StartInfer ==
    /\ running = Nobody /\ Ready(policy.ep)
    /\ running' = [kind |-> "infer", ep |-> policy.ep]
    /\ UNCHANGED <<wanted, confirmed, policy>>

EndInfer ==
    /\ running.kind = "infer" /\ running' = Nobody
    /\ UNCHANGED <<wanted, confirmed, policy>>

Confirm ==
    /\ ~confirmed /\ Ready(wanted) /\ confirmed' = TRUE
    /\ UNCHANGED <<wanted, policy, running>>

Next == NewEpisode \/ StartReset \/ EndReset \/ StartInfer \/ EndInfer \/ Confirm

Spec == Init /\ [][Next]_vars
=============================================================================
