------------------------ MODULE MCWaitSetConditions ------------------------
(* Instances of WaitSetConditions for TLC.                                 *)
EXTENDS WaitSetConditions, TLC

CONSTANTS t1, t2, w1, w2, x1, x2

TwoThreads == {t1, t2}
OneWaitSet == {w1}
TwoWaitSets == {w1, w2}
OneCondition == {x1}
TwoConditions == {x1, x2}

Guard == [x \in Conditions |-> "guard"]
GuardAndStatus == [x \in Conditions |-> IF x = x1 THEN "guard" ELSE "status"]

Whichever == Conditions \cup {Nobody}

(* Everybody may attach, detach, close and drop.                           *)
AnyClosing == Threads \X {"attach", "detach", "closeW", "closeC", "drop"} \X Whichever

(* Two threads do everything with the guard and the waitset; the status    *)
(* condition is attached, so that a waitset may have two, and one of the   *)
(* threads also waits and dispatches.                                      *)
Everything ==
    (Threads \X (Ops \ {"wait", "dispatch"}) \X {x1, Nobody}) \cup
    ({t1} \X {"wait", "dispatch"} \X {Nobody}) \cup ({t2} \X {"attach"} \X {x2})

(* One thread waits, another attaches and sets.                            *)
OneWaits == ({t1} \X {"wait"} \X Whichever) \cup ({t2} \X {"attach", "set"} \X Whichever)
=============================================================================
