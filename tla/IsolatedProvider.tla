--------------------------- MODULE IsolatedProvider ---------------------------
(***************************************************************************)
(* What the process transport promises the engine: at most one provider    *)
(* runs, it belongs to one epoch from its start to its end, and the end of *)
(* a teardown finds none running, however the threads interleave.          *)
(* A provider may still be started for an epoch that is being torn down,   *)
(* never for one whose teardown has returned.                              *)
(***************************************************************************)
EXTENDS Naturals

CONSTANT Providers

VARIABLES
    running,   \* the provider that runs, as a set of at most one
    born,      \* per provider: the epoch it was started for, 0 before
    epoch,     \* the newest epoch
    settled    \* the newest epoch whose teardown has returned

vars == <<running, born, epoch, settled>>

Init ==
    /\ running = {} /\ born = [p \in Providers |-> 0]
    /\ epoch = 1 /\ settled = 1

Start ==
    /\ running = {}
    /\ \E p \in Providers, e \in settled..epoch :
         /\ born[p] = 0
         /\ running' = {p} /\ born' = [born EXCEPT ![p] = e]
    /\ UNCHANGED <<epoch, settled>>

(* It is killed, crashes or exits. *)
End ==
    /\ running' = {}
    /\ UNCHANGED <<born, epoch, settled>>

Invalidate ==
    /\ epoch' = epoch + 1
    /\ UNCHANGED <<running, born, settled>>

Settle ==
    /\ running' = {} /\ settled' = epoch
    /\ UNCHANGED <<born, epoch>>

Next == Start \/ End \/ Invalidate \/ Settle

Spec == Init /\ [][Next]_vars
=============================================================================
