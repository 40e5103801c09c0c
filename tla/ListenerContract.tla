-------------------------- MODULE ListenerContract --------------------------
(***************************************************************************)
(* What an entity promises to the application about its listener, with no  *)
(* locks, no reference counts and no callback gate:                        *)
(*                                                                         *)
(*   - a callback always runs the listener that is registered at the time  *)
(*     the callback starts;                                                *)
(*   - registering another listener takes effect in two moments: from      *)
(*     Register on new callbacks use the new listener, and once Settle has *)
(*     happened (the setter returned) no callback of an older listener is  *)
(*     running any more, so the application may delete the old object;     *)
(*   - once the entity is Shut no callback starts, and none is running.    *)
(*                                                                         *)
(* EntityListener implements this module.                                  *)
(***************************************************************************)
CONSTANTS
    Deliverers,    \* the middleware threads that invoke callbacks
    Listeners,     \* the application's listener objects
    NoListener     \* the null pointer

VARIABLES
    registered,    \* the listener new callbacks run
    running,       \* running[d]: the listener d is running, or NoListener
    settled,       \* the last registration has taken full effect
    open           \* callbacks may start

vars == <<registered, running, settled, open>>

TypeOK ==
    /\ registered \in Listeners \cup {NoListener}
    /\ running \in [Deliverers -> Listeners \cup {NoListener}]
    /\ settled \in BOOLEAN
    /\ open \in BOOLEAN

Init ==
    /\ registered \in Listeners \cup {NoListener}
    /\ running = [d \in Deliverers |-> NoListener]
    /\ settled = TRUE
    /\ open = TRUE

Begin(d) ==
    /\ open
    /\ registered # NoListener
    /\ running[d] = NoListener
    /\ running' = [running EXCEPT ![d] = registered]
    /\ UNCHANGED <<registered, settled, open>>

Finish(d) ==
    /\ running[d] # NoListener
    /\ running' = [running EXCEPT ![d] = NoListener]
    /\ UNCHANGED <<registered, settled, open>>

Register(l) ==
    /\ settled
    /\ registered' = l
    /\ settled' = FALSE
    /\ UNCHANGED <<running, open>>

Settle ==
    /\ ~settled
    /\ \A d \in Deliverers : running[d] \in {NoListener, registered}
    /\ settled' = TRUE
    /\ UNCHANGED <<registered, running, open>>

Shut ==
    /\ open
    /\ \A d \in Deliverers : running[d] = NoListener
    /\ open' = FALSE
    /\ UNCHANGED <<registered, running, settled>>

Next ==
    \/ \E d \in Deliverers : Begin(d) \/ Finish(d)
    \/ \E l \in Listeners \cup {NoListener} : Register(l)
    \/ Settle
    \/ Shut

Spec == Init /\ [][Next]_vars
=============================================================================
