--------------------------- MODULE EntityListener ---------------------------
(***************************************************************************)
(* One entity of the C++ API (a DataReader, a DataWriter or a Topic), the  *)
(* threads of the middleware that invoke its listener, and the application *)
(* threads that replace the listener, read, enable, close and drop it.     *)
(*                                                                         *)
(* The C++ delegate keeps three devices that have to fit together:         *)
(*   - the callback gate, a counter with a condition variable that counts  *)
(*     the callbacks in progress and is set to -1 to refuse new ones;      *)
(*   - the object mutex with its "closed" flag;                            *)
(*   - the dds_listener_t the C layer holds a copy of, whose argument is a *)
(*     heap-allocated ListenerArg that points back to the delegate.        *)
(* The delegate is destroyed when its last shared_ptr goes, by whichever   *)
(* thread drops it, a callback thread included.                            *)
(*                                                                         *)
(* The program is modelled as built with NDEBUG: assert(false) is skipped. *)
(***************************************************************************)
EXTENDS Integers, FiniteSets

CONSTANTS
    Kind,              \* "reader", "writer" or "topic": the entity's class
    Deliverers,        \* threads of the C layer that invoke callbacks
    Callers,           \* application threads; each holds a shared_ptr at first
    Listeners,         \* listener objects of the application
    NoListener,        \* the null listener pointer
    Args,              \* addresses a ListenerArg may be allocated at
    NoArg,             \* null
    NoThread,          \* the owner of a free mutex
    CallbackOps,       \* what the code of a callback does: {} or {"lock"}
    CallerOps,         \* the operations application threads may call
    EnabledAtStart,    \* the values enabled_ may have once the entity exists
    DropOnlyClosed     \* applications drop references to closed entities only

Threads == Deliverers \cup Callers

ASSUME KindAssumption == Kind \in {"reader", "writer", "topic"}

ASSUME ThreadsAssumption ==
    /\ Deliverers \cap Callers = {}
    /\ IsFiniteSet(Deliverers)
    /\ NoThread \notin Threads

ASSUME NullsAssumption == NoListener \notin Listeners /\ NoArg \notin Args

ASSUME OpsAssumption ==
    /\ CallbackOps \subseteq {"lock"}
    /\ CallerOps \subseteq {"lock", "listener", "enable", "close", "drop"}
    /\ EnabledAtStart \subseteq BOOLEAN
    /\ DropOnlyClosed \in BOOLEAN

VARIABLES
    pc,           \* pc[t]: where thread t is
    op,           \* op[t]: the member function t is executing
    la,           \* la[t]: the ListenerArg t read from the C layer (callback)
                  \*        or from listener_callbacks (enable)
    lsn,          \* lsn[d]: the listener pointer callback thread d loaded
    count,        \* callback_count: -1 refuses callbacks
    waiters,      \* threads blocked on callback_cond
    owner,        \* owner of the object mutex
    closed,       \* ObjectDelegate::closed
    destroyed,    \* the delegate's memory has been released
    refs,         \* threads that hold a shared_ptr to the delegate
    enabled,      \* enabled_
    listener,     \* listener
    mask,         \* listener_mask selects the status
    stored,       \* the argument of listener_callbacks
    fresh,        \* the argument of the local "callbacks" of listener_set
    live,         \* the ListenerArgs allocated and not deleted
    hooked,       \* the arguments whose dds_listener_t has the callback set
    installed     \* external: the argument the C entity calls back with

vars == <<pc, op, la, lsn, count, waiters, owner, closed, destroyed, refs,
          enabled, listener, mask, stored, fresh, live, hooked, installed>>

gateVars == <<count, waiters>>
argVars == <<stored, fresh, live, hooked, installed>>
setting == <<enabled, listener, mask>>
life == <<closed, destroyed, refs>>

-----------------------------------------------------------------------------
(* The C layer runs a callback on the threads of Pending: it counts the    *)
(* callback as pending from before it reads the listener until the         *)
(* callback returns, and dds_set_listener waits until none is.             *)
Pending == {d \in Deliverers : pc[d] # "idle"}

(* External: what dds_set_listener and dds_delete wait for.                *)
Quiescent == Pending = {}

(* Only DataReader closes through the gate; the other classes do not.      *)
Gated == Kind = "reader"
StartClose == IF Gated THEN "gate" ELSE "lock"

(* The callback threads between obtain_ and release_callback_lock.         *)
InGate == {d \in Deliverers : pc[d] \notin {"idle", "called", "return"}}

(* The callback threads in the application's code.                         *)
InListener == {d \in Deliverers : lsn[d] # NoListener}

(* Where t continues when the member function it executes returns.         *)
Return(t) == IF op[t] = "destroy" THEN "dtor"
             ELSE IF t \in Deliverers THEN "unref" ELSE "idle"

Init ==
    /\ pc = [t \in Threads |-> "idle"]
    /\ op = [t \in Threads |-> "none"]
    /\ la = [t \in Threads |-> NoArg]
    /\ lsn = [d \in Deliverers |-> NoListener]
    /\ count = 0
    /\ waiters = {}
    /\ owner = NoThread
    /\ closed = FALSE
    /\ destroyed = FALSE
    /\ refs = Callers
    /\ enabled \in EnabledAtStart
    /\ listener \in Listeners \cup {NoListener}
    /\ mask \in BOOLEAN
    /\ stored \in Args
    /\ fresh = NoArg
    /\ live = {stored}
    /\ hooked = IF mask THEN {stored} ELSE {}
    /\ installed = IF mask /\ (enabled \/ Kind = "topic") THEN stored ELSE NoArg

(***************************************************************************)
(* Callbacks (ListenerDispatcher.cpp and the on_... members).              *)
(***************************************************************************)

(* External: an event makes the C layer invoke the installed callback.     *)
Invoke(d) ==
    /\ pc[d] = "idle"
    /\ installed # NoArg
    /\ la' = [la EXCEPT ![d] = installed]
    /\ pc' = [pc EXCEPT ![d] = "called"]
    /\ UNCHANGED <<op, lsn, owner, gateVars, life, setting, argVars>>

(* obtain_callback_lock admits a callback unless the gate was shut.        *)
GateOpen == count >= 0

Obtain(d) ==
    /\ pc[d] = "called"
    /\ IF GateOpen
       THEN count' = count + 1 /\ pc' = [pc EXCEPT ![d] = "promote"]
       ELSE pc' = [pc EXCEPT ![d] = "return"] /\ UNCHANGED count
    /\ UNCHANGED <<op, la, lsn, waiters, owner, life, setting, argVars>>

(* get_strong_ref: null once the last shared_ptr has gone. A reader or a   *)
(* writer then skips the listener; a topic goes on with a null reference.  *)
Promote(d) ==
    /\ pc[d] = "promote"
    /\ refs' = IF refs = {} THEN refs ELSE refs \cup {d}
    /\ pc' = [pc EXCEPT ![d] = IF refs = {} /\ Kind # "topic" THEN "release" ELSE "fetch"]
    /\ UNCHANGED <<op, la, lsn, owner, closed, destroyed, gateVars, setting, argVars>>

(* listener_get, without the object mutex; a topic also checks the mask.   *)
Fetch(d) ==
    /\ pc[d] = "fetch"
    /\ IF listener = NoListener \/ (Kind = "topic" /\ ~mask)
       THEN pc' = [pc EXCEPT ![d] = "unref"] /\ UNCHANGED lsn
       ELSE /\ pc' = [pc EXCEPT ![d] = "user"]
            /\ lsn' = [lsn EXCEPT ![d] = listener]
    /\ UNCHANGED <<op, la, owner, gateVars, life, setting, argVars>>

(* The application's callback calls a member that takes the object mutex:  *)
(* take(), read(), qos(), listener(), ...                                  *)
UserLock(d) ==
    /\ pc[d] = "user"
    /\ "lock" \in CallbackOps
    /\ op' = [op EXCEPT ![d] = "lock"]
    /\ pc' = [pc EXCEPT ![d] = "lock"]
    /\ UNCHANGED <<la, lsn, owner, gateVars, life, setting, argVars>>

(* ... or returns without doing so.                                        *)
UserReturn(d) ==
    /\ pc[d] = "user"
    /\ pc' = [pc EXCEPT ![d] = "unref"]
    /\ UNCHANGED <<op, la, lsn, owner, gateVars, life, setting, argVars>>

(* Thread t gives up its shared_ptr; the last one to do so destroys the    *)
(* delegate, and the destructor closes it first if nobody has.             *)
Release(t, next) ==
    /\ refs' = refs \ {t}
    /\ IF refs = {t}
       THEN /\ op' = [op EXCEPT ![t] = "destroy"]
            /\ pc' = [pc EXCEPT ![t] = IF closed THEN "dtor" ELSE StartClose]
       ELSE /\ pc' = [pc EXCEPT ![t] = next]
            /\ UNCHANGED op

Unref(d) ==
    /\ pc[d] = "unref"
    /\ lsn' = [lsn EXCEPT ![d] = NoListener]
    /\ Release(d, "release")
    /\ UNCHANGED <<la, owner, closed, destroyed, gateVars, setting, argVars>>

(* release_callback_lock wakes the closers when the last callback leaves.  *)
WakeNobody == waiters           \* mutant: no broadcast
WakeAtZero == IF count = 1 THEN {} ELSE waiters

Leave(d) ==
    /\ pc[d] = "release"
    /\ count' = count - 1
    /\ waiters' = WakeAtZero
    /\ pc' = [pc EXCEPT ![d] = "return"]
    /\ UNCHANGED <<op, la, lsn, owner, life, setting, argVars>>

(* External: the callback is no longer pending in the C layer.             *)
Complete(d) ==
    /\ pc[d] = "return"
    /\ la' = [la EXCEPT ![d] = NoArg]
    /\ pc' = [pc EXCEPT ![d] = "idle"]
    /\ UNCHANGED <<op, lsn, owner, gateVars, life, setting, argVars>>

(***************************************************************************)
(* Operations of the application.                                          *)
(***************************************************************************)
Ready(t, o) == t \in Callers /\ pc[t] = "idle" /\ t \in refs /\ o \in CallerOps

Call(t, o, next) ==
    /\ Ready(t, o)
    /\ op' = [op EXCEPT ![t] = o]
    /\ pc' = [pc EXCEPT ![t] = next]
    /\ UNCHANGED <<la, lsn, owner, gateVars, life, setting, argVars>>

CallLock(t) == Call(t, "lock", "lock")
CallListener(t) == Call(t, "listener", "lock")
CallClose(t) == Call(t, "close", StartClose)

(* The application drops its reference.                                    *)
Drop(t) ==
    /\ Ready(t, "drop")
    /\ DropOnlyClosed => closed
    /\ Release(t, "idle")
    /\ UNCHANGED <<la, lsn, owner, closed, destroyed, gateVars, setting, argVars>>

(* enable() holds no mutex: it raises enabled_ and loads the pointer ...   *)
CallEnable(t) ==
    /\ Ready(t, "enable")
    /\ enabled' = TRUE
    /\ la' = [la EXCEPT ![t] = stored]
    /\ op' = [op EXCEPT ![t] = "enable"]
    /\ pc' = [pc EXCEPT ![t] = "reinstall"]
    /\ UNCHANGED <<lsn, owner, gateVars, life, listener, mask, argVars>>

(* ... and dds_set_listener installs it; a closed entity makes it throw.   *)
Reinstall(t) ==
    /\ pc[t] = "reinstall"
    /\ IF closed
       THEN UNCHANGED installed
       ELSE /\ Quiescent
            /\ installed' = IF la[t] \in hooked THEN la[t] ELSE NoArg
    /\ la' = [la EXCEPT ![t] = NoArg]
    /\ op' = [op EXCEPT ![t] = "none"]
    /\ pc' = [pc EXCEPT ![t] = "idle"]
    /\ UNCHANGED <<lsn, owner, gateVars, life, setting, stored, fresh, live, hooked>>

(***************************************************************************)
(* prevent_callbacks.                                                      *)
(***************************************************************************)

(* Entered, or woken by the broadcast: the wait loop tests the count again.*)
AtGate(t) == pc[t] = "gate" \/ (pc[t] = "gatewait" /\ t \notin waiters)
BusyIgnored == FALSE            \* mutant: prevent_callbacks does not wait
BusyOffByOne == count > 1       \* mutant: waits for all callbacks but one
Busy == count > 0

GateWait(t) ==
    /\ AtGate(t)
    /\ Busy
    /\ waiters' = waiters \cup {t}
    /\ pc' = [pc EXCEPT ![t] = "gatewait"]
    /\ UNCHANGED <<op, la, lsn, count, owner, life, setting, argVars>>

GateShut(t) ==
    /\ AtGate(t)
    /\ ~Busy
    /\ count' = -1
    /\ pc' = [pc EXCEPT ![t] = "lock"]
    /\ UNCHANGED <<op, la, lsn, waiters, owner, life, setting, argVars>>

(***************************************************************************)
(* Members that hold the object mutex.                                     *)
(***************************************************************************)

(* ScopedObjectLock throws AlreadyClosedError on a closed object.          *)
Lock(t) ==
    /\ pc[t] = "lock"
    /\ owner = NoThread
    /\ IF closed
       THEN /\ pc' = [pc EXCEPT ![t] = Return(t)]
            /\ op' = [op EXCEPT ![t] = "none"]
            /\ UNCHANGED owner
       ELSE /\ owner' = t
            /\ pc' = [pc EXCEPT ![t] = IF op[t] = "lock" THEN "held" ELSE "swap"]
            /\ UNCHANGED op
    /\ UNCHANGED <<la, lsn, gateVars, life, setting, argVars>>

(* listener_set, first part: the members change and a new dds_listener_t   *)
(* and ListenerArg are built. close() passes the null listener.            *)
Swap(t, l, m, a) ==
    /\ pc[t] = "swap"
    /\ op[t] # "listener" => l = NoListener /\ ~m
    /\ a \notin live
    /\ listener' = l
    /\ mask' = m
    /\ fresh' = a
    /\ live' = live \cup {a}
    /\ hooked' = IF m THEN hooked \cup {a} ELSE hooked \ {a}
    /\ pc' = [pc EXCEPT ![t] = "install"]
    /\ UNCHANGED <<op, la, lsn, owner, gateVars, life, enabled, stored, installed>>

(* dds_set_listener, for an enabled entity only.                           *)
NeverInstalls == FALSE          \* mutant: the C listener is not replaced
AlwaysInstalls == TRUE          \* mutant: not only when enabled
NeedsInstall == enabled

Install(t) ==
    /\ pc[t] = "install"
    /\ IF NeedsInstall
       THEN /\ Quiescent
            /\ installed' = IF mask THEN fresh ELSE NoArg
       ELSE UNCHANGED installed
    /\ pc' = [pc EXCEPT ![t] = "free"]
    /\ UNCHANGED <<op, la, lsn, owner, gateVars, life, setting, stored, fresh, live, hooked>>

(* The previous dds_listener_t and its argument are deleted.               *)
Free(t) ==
    /\ pc[t] = "free"
    /\ live' = live \ {stored}
    /\ stored' = fresh
    /\ fresh' = NoArg
    /\ pc' = [pc EXCEPT ![t] = IF op[t] = "listener" THEN "held" ELSE "teardown"]
    /\ UNCHANGED <<op, la, lsn, owner, gateVars, life, setting, hooked, installed>>

(* The rest of close(): dds_delete ends the C entity.                      *)
Teardown(t) ==
    /\ pc[t] = "teardown"
    /\ Quiescent
    /\ installed' = NoArg
    /\ closed' = TRUE
    /\ pc' = [pc EXCEPT ![t] = "held"]
    /\ UNCHANGED <<op, la, lsn, owner, destroyed, refs, gateVars, setting, stored, fresh,
                   live, hooked>>

Unlock(t) ==
    /\ pc[t] = "held"
    /\ owner' = NoThread
    /\ pc' = [pc EXCEPT ![t] = Return(t)]
    /\ op' = [op EXCEPT ![t] = "none"]
    /\ UNCHANGED <<la, lsn, gateVars, life, setting, argVars>>

(* ~EntityDelegate deletes the remaining ListenerArg and the memory goes.  *)
Destruct(t) ==
    /\ pc[t] = "dtor"
    /\ destroyed' = TRUE
    /\ live' = live \ {stored}
    /\ stored' = NoArg
    /\ op' = [op EXCEPT ![t] = "none"]
    /\ pc' = [pc EXCEPT ![t] = IF t \in Deliverers THEN "release" ELSE "idle"]
    /\ UNCHANGED <<la, lsn, owner, closed, refs, gateVars, setting, fresh, hooked, installed>>

(* All references are gone and every thread is done.                       *)
Finished ==
    /\ destroyed
    /\ \A t \in Threads : pc[t] = "idle"
    /\ UNCHANGED vars

Callback(d) ==
    \/ Obtain(d) \/ Promote(d) \/ Fetch(d) \/ UserLock(d) \/ UserReturn(d)
    \/ Unref(d) \/ Leave(d) \/ Complete(d)

Operation(t) ==
    \/ CallLock(t) \/ CallListener(t) \/ CallClose(t) \/ CallEnable(t) \/ Drop(t)

Swapping(t) ==
    \E l \in Listeners \cup {NoListener}, m \in BOOLEAN, a \in Args : Swap(t, l, m, a)

Member(t) ==
    \/ GateWait(t) \/ GateShut(t) \/ Lock(t) \/ Swapping(t) \/ Install(t) \/ Free(t)
    \/ Teardown(t) \/ Unlock(t) \/ Destruct(t) \/ Reinstall(t)

Next ==
    \/ \E d \in Deliverers : Invoke(d) \/ Callback(d)
    \/ \E t \in Callers : Operation(t)
    \/ \E t \in Threads : Member(t)
    \/ Finished

Spec == Init /\ [][Next]_vars

(* Threads that execute code of the library or of a callback are scheduled *)
(* and callbacks return; nothing obliges an event to occur or the          *)
(* application to call anything.                                           *)
Fairness ==
    /\ \A d \in Deliverers : WF_vars(Callback(d))
    /\ \A t \in Threads : WF_vars(Member(t))

FairSpec == Spec /\ Fairness

-----------------------------------------------------------------------------
(***************************************************************************)
(* Properties.                                                             *)
(***************************************************************************)
PCs == {"idle", "called", "promote", "fetch", "user", "unref", "release", "return",
        "gate", "gatewait", "lock", "swap", "install", "free", "teardown", "held",
        "dtor", "reinstall"}

(* Every variable has its type.                                            *)
TypeOK ==
    /\ pc \in [Threads -> PCs]
    /\ op \in [Threads -> {"none", "lock", "listener", "enable", "close", "destroy"}]
    /\ la \in [Threads -> Args \cup {NoArg}]
    /\ lsn \in [Deliverers -> Listeners \cup {NoListener}]
    /\ count \in -1 .. Cardinality(Deliverers)
    /\ waiters \subseteq Threads
    /\ owner \in Threads \cup {NoThread}
    /\ closed \in BOOLEAN
    /\ destroyed \in BOOLEAN
    /\ refs \subseteq Threads
    /\ enabled \in BOOLEAN
    /\ listener \in Listeners \cup {NoListener}
    /\ mask \in BOOLEAN
    /\ stored \in Args \cup {NoArg}
    /\ fresh \in Args \cup {NoArg}
    /\ live \subseteq Args
    /\ hooked \subseteq Args
    /\ installed \in Args \cup {NoArg}

(* callback_count is exact: it counts the callbacks between obtain_ and    *)
(* release_callback_lock, and once prevent_callbacks has set it to -1 no   *)
(* callback is there, however callers, wake-ups and new callbacks are      *)
(* interleaved (EntityDelegate.cpp, the three functions on callback_mutex).*)
GateExact ==
    IF count < 0 THEN count = -1 /\ InGate = {}
                 ELSE count = Cardinality(InGate)

(* A callback thread dereferences its ListenerArg when it is called and    *)
(* when it releases the gate, and the delegate in between. None of that    *)
(* memory is released under it by a setter, a close() or the destructor,   *)
(* which delete the argument after dds_set_listener has returned.          *)
MemorySafe ==
    \A d \in Pending :
        /\ pc[d] # "return" => ~destroyed
        /\ pc[d] \in {"called", "release"} => la[d] \in live

(* The C layer never holds a ListenerArg that was deleted.                 *)
InstalledIsLive == installed # NoArg => installed \in live /\ ~destroyed

(* When listener(l) or close() has returned, no callback of an earlier     *)
(* listener is still running, so the application may delete that listener. *)
OldListenerQuiet ==
    (\A t \in Threads : pc[t] # "install") =>
        \A d \in InListener : lsn[d] = listener

(* The arrivals pause: events, and calls that take the mutex for a while.  *)
Pause ==
    <>[][/\ \A d \in Deliverers : ~Invoke(d)
         /\ \A t \in Callers : ~CallLock(t) /\ ~CallListener(t)]_vars

(* close() of an entity returns, provided that the arrivals of callbacks    *)
(* and of other calls pause at some time: prevent_callbacks admits new     *)
(* callbacks while it waits, and neither lock is fair, so an endless       *)
(* stream of them may hold it up. Callbacks may take the object mutex, and *)
(* several threads may close at once (DataReader<T>::close).               *)
CloseReturns == Pause => \A t \in Callers : op[t] = "close" ~> op[t] # "close"

(* listener(l, mask) returns once the arrivals pause, as long as callbacks *)
(* do not themselves take the object mutex. When they do it may not: a run *)
(* refutes it against "Listener un-registration is performed by setting    *)
(* the listener to NULL and mask none()" (TDataReader.hpp).                *)
SetterReturns == Pause => \A t \in Callers : op[t] = "listener" ~> op[t] # "listener"

(* The entity keeps the promise of ListenerContract.                       *)
Contract == INSTANCE ListenerContract WITH
    registered <- listener,
    running <- lsn,
    settled <- \A t \in Threads : pc[t] # "install",
    open <- IF Gated THEN count >= 0 ELSE ~closed

KeepsContract == Contract!Spec

(* "The Listeners associated with an entity are not called until the       *)
(* entity is enabled" (TEntity.hpp): not so for a topic, whose constructor *)
(* passes listener_callbacks to the C layer.                               *)
NotCalledUntilEnabled == InListener # {} => enabled
=============================================================================
