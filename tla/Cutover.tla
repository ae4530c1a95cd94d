------------------------------ MODULE Cutover -------------------------------
(***************************************************************************)
(* What the users of a workspace may rely on while it is upgraded: at any  *)
(* time one pod answers for it, and when another takes over it is a pod    *)
(* created later.  A workspace never falls back to the pod it was upgraded *)
(* from, and never stops answering.                                        *)
(***************************************************************************)
EXTENDS Naturals

CONSTANT Workspaces

VARIABLE servingSince   \* creation time of the pod that answers for each workspace

Init == servingSince \in [Workspaces -> Nat]

TakeOver(w) ==
    /\ servingSince'[w] > servingSince[w]
    /\ servingSince' = [servingSince EXCEPT ![w] = servingSince'[w]]

Next == \E w \in Workspaces : TakeOver(w)

Spec == Init /\ [][Next]_servingSince

=============================================================================
