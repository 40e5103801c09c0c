-------------------------- MODULE MCEntityListener --------------------------
(* Instances of EntityListener for TLC.                                    *)
EXTENDS EntityListener, TLC

CONSTANTS d1, d2, c1, c2, l1, l2, a1, a2, a3

OneDeliverer == {d1}
TwoDeliverers == {d1, d2}
OneCaller == {c1}
TwoCallers == {c1, c2}
OneListener == {l1}
TwoListeners == {l1, l2}
ThreeArgs == {a1, a2, a3}

(* Threads of a kind, listeners and addresses are interchangeable; used in *)
(* the runs that check no liveness.                                        *)
Interchangeable ==
    Permutations(Deliverers) \cup Permutations(Callers) \cup
    Permutations(Listeners) \cup Permutations(Args)
=============================================================================
