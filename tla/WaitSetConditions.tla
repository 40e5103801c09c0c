------------------------- MODULE WaitSetConditions -------------------------
(***************************************************************************)
(* WaitSets, the conditions attached to them, and the threads that attach, *)
(* detach, wait, dispatch and close.                                       *)
(*                                                                         *)
(* Who is attached to whom is recorded three times: in the map conditions_ *)
(* of the waitset (which keeps the condition alive), in the waitSetList of *)
(* the condition, and in the C waitset. Three kinds of mutexes protect     *)
(* them: the object mutex of the waitset, the object mutex of the          *)
(* condition and the mutex of its waitSetList. The two sides take them in  *)
(* different orders:                                                       *)
(*                                                                         *)
(*   attach, detach, close of a waitset:   waitset, list, condition        *)
(*   close of a condition:                 condition, list; waitset, list  *)
(***************************************************************************)
EXTENDS Integers, FiniteSets

CONSTANTS
    Threads,       \* application threads
    WaitSets,
    Conditions,
    Kind,          \* Kind[c]: "guard", "read" or "status"
    Calls,         \* the calls threads may make: <<thread, function, condition>>
    Nobody         \* the owner of a free mutex; also "no argument"

Ops == {"attach", "detach", "closeW", "closeC", "wait", "dispatch", "set", "drop"}

ASSUME KindAssumption == Kind \in [Conditions -> {"guard", "read", "status"}]

ASSUME FiniteAssumption == IsFiniteSet(Threads) /\ IsFiniteSet(Conditions)

ASSUME CallsAssumption == Calls \subseteq Threads \X Ops \X (Conditions \cup {Nobody})

ASSUME NobodyAssumption == Nobody \notin Threads \cup WaitSets \cup Conditions

VARIABLES
    pc, op,        \* where thread t is, and the member function it executes
    w, c,          \* the waitset and the condition it is working on
    todo,          \* the elements its loop has still to visit
    size,          \* wait(): the length of the array for dds_waitset_wait
    hold,          \* the conditions its local containers keep alive
    wOwner,        \* wOwner[ws]: owner of the waitset's object mutex
    cOwner,        \* cOwner[x]: owner of the condition's object mutex
    lOwner,        \* lOwner[x]: owner of its waitSetListUpdateMutex
    wClosed,       \* ObjectDelegate::closed of the waitset
    state,         \* state[x]: "open", "closed", or for a status condition
                   \*           "nil" once close() zeroed its handle
    conditions,    \* conditions[ws]: the keys of conditions_
    listed,        \* listed[x]: waitSetList
    attached,      \* external: attached[ws], what the C waitset observes
    trig,          \* external: the conditions that are triggered
    app            \* the conditions the application holds a reference to

locals == <<pc, op, w, c, todo, size, hold>>
owners == <<wOwner, cOwner, lOwner>>
shared == <<wClosed, state, conditions, listed, attached>>
vars == <<pc, op, w, c, todo, size, hold, wOwner, cOwner, lOwner,
          wClosed, state, conditions, listed, attached, trig, app>>

-----------------------------------------------------------------------------
(* A condition lives while something holds a shared_ptr to its delegate.   *)
Alive(x) ==
    \/ x \in app
    \/ \E ws \in WaitSets : x \in conditions[ws]
    \/ \E t \in Threads : x \in hold[t]

(* trigger_value(): dds_triggered of a handle that was zeroed is an error, *)
(* which the conversion to bool turns into true.                           *)
Triggered(x) == x \in trig \/ state[x] = "nil"

Init ==
    /\ pc = [t \in Threads |-> "idle"]
    /\ op = [t \in Threads |-> "none"]
    /\ w = [t \in Threads |-> Nobody]
    /\ c = [t \in Threads |-> Nobody]
    /\ todo = [t \in Threads |-> {}]
    /\ size = [t \in Threads |-> 0]
    /\ hold = [t \in Threads |-> {}]
    /\ wOwner = [ws \in WaitSets |-> Nobody]
    /\ cOwner = [x \in Conditions |-> Nobody]
    /\ lOwner = [x \in Conditions |-> Nobody]
    /\ wClosed = [ws \in WaitSets |-> FALSE]
    /\ state = [x \in Conditions |-> "open"]
    /\ conditions = [ws \in WaitSets |-> {}]
    /\ listed = [x \in Conditions |-> {}]
    /\ attached = [ws \in WaitSets |-> {}]
    /\ trig = {}
    /\ app = Conditions

Goto(t, next) == pc' = [pc EXCEPT ![t] = next]

(* The member function returns, or throws; its locals are destroyed.       *)
Return(t) ==
    /\ Goto(t, "idle")
    /\ op' = [op EXCEPT ![t] = "none"]
    /\ w' = [w EXCEPT ![t] = Nobody]
    /\ c' = [c EXCEPT ![t] = Nobody]
    /\ todo' = [todo EXCEPT ![t] = {}]
    /\ hold' = [hold EXCEPT ![t] = {}]
    /\ size' = [size EXCEPT ![t] = 0]

(* The scoped locks thread t holds go when an exception unwinds its stack. *)
Released(owner, t) == [o \in DOMAIN owner |-> IF owner[o] = t THEN Nobody ELSE owner[o]]

Throw(t) ==
    /\ pc[t] = "throw"
    /\ Return(t)
    /\ wOwner' = Released(wOwner, t)
    /\ cOwner' = Released(cOwner, t)
    /\ lOwner' = Released(lOwner, t)
    /\ UNCHANGED <<shared, trig, app>>

(***************************************************************************)
(* Calls.                                                                  *)
(***************************************************************************)
Call(t, o, ws, x, next) ==
    /\ pc[t] = "idle"
    /\ <<t, o, x>> \in Calls
    /\ op' = [op EXCEPT ![t] = o]
    /\ w' = [w EXCEPT ![t] = ws]
    /\ c' = [c EXCEPT ![t] = x]
    /\ Goto(t, next)
    /\ UNCHANGED <<todo, size, hold, owners, shared, trig, app>>

CallAttach(t, ws, x) == x \in app /\ Call(t, "attach", ws, x, "lockW")
CallDetach(t, ws, x) == x \in app /\ Call(t, "detach", ws, x, "lockW")
CallCloseW(t, ws) == Call(t, "closeW", ws, Nobody, "lockW")
CallWait(t, ws) == Call(t, "wait", ws, Nobody, "lockW")
CallDispatch(t, ws) == Call(t, "dispatch", ws, Nobody, "lockW")

(* close() of a condition tests closed before it takes the mutex.          *)
CallCloseC(t, x) ==
    /\ x \in app
    /\ Call(t, "closeC", Nobody, x, IF state[x] = "closed" THEN "throw" ELSE "lockC")

(* GuardCondition::trigger_value(v).                                       *)
CallSet(t, x) == x \in app /\ Kind[x] = "guard" /\ Call(t, "set", Nobody, x, "lockC")

(* The application drops its last reference; it does so only when no call  *)
(* with that condition as its argument is in progress.                     *)
Drop(t, x) ==
    /\ pc[t] = "idle"
    /\ <<t, "drop", x>> \in Calls
    /\ x \in app
    /\ \A u \in Threads : op[u] \in {"attach", "detach", "closeC", "set"} => c[u] # x
    /\ app' = app \ {x}
    /\ UNCHANGED <<locals, owners, shared, trig>>

(* External: the trigger of a read or a status condition changes.          *)
Event(x) ==
    /\ Kind[x] # "guard"
    /\ trig' = IF x \in trig THEN trig \ {x} ELSE trig \cup {x}
    /\ UNCHANGED <<locals, owners, shared, app>>

(***************************************************************************)
(* The object mutex of a waitset. ScopedObjectLock throws when it is       *)
(* closed.                                                                 *)
(***************************************************************************)
AtWaitSet(t, ops) == pc[t] = "lockW" /\ op[t] \in ops /\ wOwner[w[t]] = Nobody

LockClosedW(t) ==
    /\ AtWaitSet(t, Ops)
    /\ wClosed[w[t]]
    /\ Goto(t, "throw")
    /\ UNCHANGED <<op, w, c, todo, size, hold, owners, shared, trig, app>>

LockW(t) ==
    /\ AtWaitSet(t, {"attach", "detach", "closeC"})
    /\ ~wClosed[w[t]]
    /\ wOwner' = [wOwner EXCEPT ![w[t]] = t]
    /\ Goto(t, "lockL")
    /\ UNCHANGED <<op, w, c, todo, size, hold, cOwner, lOwner, shared, trig, app>>

(* close() of a waitset copies its conditions and visits the copy.         *)
BeginCloseW(t) ==
    /\ AtWaitSet(t, {"closeW"})
    /\ ~wClosed[w[t]]
    /\ wOwner' = [wOwner EXCEPT ![w[t]] = t]
    /\ todo' = [todo EXCEPT ![t] = conditions[w[t]]]
    /\ hold' = [hold EXCEPT ![t] = conditions[w[t]]]
    /\ Goto(t, "nextC")
    /\ UNCHANGED <<op, w, c, size, cOwner, lOwner, shared, trig, app>>

(* wait() holds the mutex while it reads the size of conditions_ only.     *)
RoomForOneMore(ws) == Cardinality(conditions[ws]) + 1   \* mutant: off by one
RoomFor(ws) == Cardinality(conditions[ws])

Measure(t) ==
    /\ AtWaitSet(t, {"wait", "dispatch"})
    /\ ~wClosed[w[t]]
    /\ size' = [size EXCEPT ![t] = RoomFor(w[t])]
    /\ Goto(t, "block")
    /\ UNCHANGED <<op, w, c, todo, hold, owners, shared, trig, app>>

(***************************************************************************)
(* The mutex of a waitSetList, and what is done under it: add_waitset with *)
(* add_condition_locked, remove_waitset with remove_condition_locked.      *)
(***************************************************************************)
LockL(t) ==
    /\ pc[t] = "lockL"
    /\ lOwner[c[t]] = Nobody
    /\ lOwner' = [lOwner EXCEPT ![c[t]] = t]
    /\ Goto(t, IF op[t] = "attach" THEN "insert" ELSE "erase")
    /\ UNCHANGED <<op, w, c, todo, size, hold, wOwner, cOwner, shared, trig, app>>

ListUnchanged(t) == listed[c[t]]     \* mutant: waitSetList is not updated
ListWith(t) == listed[c[t]] \cup {w[t]}

Insert(t) ==
    /\ pc[t] = "insert"
    /\ listed' = [listed EXCEPT ![c[t]] = ListWith(t)]
    /\ Goto(t, IF w[t] \in listed[c[t]] \/ c[t] \in conditions[w[t]]
               THEN "done" ELSE "handle")
    /\ UNCHANGED <<op, w, c, todo, size, hold, owners, wClosed, state, conditions,
                   attached, trig, app>>

(* Only a closing condition passes its handle, for it holds its own mutex. *)
HandleNeverPassed(t) == FALSE   \* mutant: remove_condition_locked always asks for it
HandlePassed(t) == op[t] = "closeC"

Erase(t) ==
    /\ pc[t] = "erase"
    /\ listed' = [listed EXCEPT ![c[t]] = @ \ {w[t]}]
    /\ Goto(t, IF w[t] \notin listed[c[t]] \/ c[t] \notin conditions[w[t]] THEN "done"
               ELSE IF HandlePassed(t) THEN "cdetach" ELSE "handle")
    /\ UNCHANGED <<op, w, c, todo, size, hold, owners, wClosed, state, conditions,
                   attached, trig, app>>

(* get_ddsc_entity locks the condition for a moment, and throws if closed. *)
Handle(t) ==
    /\ pc[t] = "handle"
    /\ cOwner[c[t]] = Nobody
    /\ Goto(t, IF state[c[t]] = "closed" THEN "throw"
               ELSE IF op[t] = "attach" THEN "cattach" ELSE "cdetach")
    /\ UNCHANGED <<op, w, c, todo, size, hold, owners, shared, trig, app>>

(* dds_waitset_attach fails when the handle was zeroed or deleted. The map *)
(* entry holds a reference to the condition.                               *)
MapWith(t) == conditions[w[t]] \cup {c[t]}

CAttach(t) ==
    /\ pc[t] = "cattach"
    /\ IF state[c[t]] # "open"
       THEN Goto(t, "throw") /\ UNCHANGED <<conditions, attached>>
       ELSE /\ conditions' = [conditions EXCEPT ![w[t]] = MapWith(t)]
            /\ attached' = [attached EXCEPT ![w[t]] = @ \cup {c[t]}]
            /\ Goto(t, "done")
    /\ UNCHANGED <<op, w, c, todo, size, hold, owners, wClosed, state, listed, trig, app>>

(* So does dds_waitset_detach, and for what is not attached.               *)
CDetach(t) ==
    /\ pc[t] = "cdetach"
    /\ IF state[c[t]] # "open" \/ c[t] \notin attached[w[t]]
       THEN Goto(t, "throw") /\ UNCHANGED <<conditions, attached>>
       ELSE /\ conditions' = [conditions EXCEPT ![w[t]] = @ \ {c[t]}]
            /\ attached' = [attached EXCEPT ![w[t]] = @ \ {c[t]}]
            /\ Goto(t, "done")
    /\ UNCHANGED <<op, w, c, todo, size, hold, owners, wClosed, state, listed, trig, app>>

(* The list mutex goes, and except in close() of a waitset its mutex too.  *)
DoneOne(t) ==
    /\ pc[t] = "done"
    /\ lOwner' = [lOwner EXCEPT ![c[t]] = Nobody]
    /\ IF op[t] = "closeW" THEN UNCHANGED wOwner
                           ELSE wOwner' = [wOwner EXCEPT ![w[t]] = Nobody]
    /\ IF op[t] \in {"attach", "detach"}
       THEN Return(t)
       ELSE /\ Goto(t, IF op[t] = "closeW" THEN "nextC" ELSE "nextW")
            /\ UNCHANGED <<op, w, c, todo, size, hold>>
    /\ UNCHANGED <<cOwner, shared, trig, app>>

(***************************************************************************)
(* The loops of the two close() functions.                                 *)
(***************************************************************************)
NeverAdvances(S, e) == S        \* mutant: the loop stays at its first element
Beyond(S, e) == S \ {e}

NextC(t) ==
    /\ pc[t] = "nextC"
    /\ \E x \in todo[t] :
          /\ c' = [c EXCEPT ![t] = x]
          /\ todo' = [todo EXCEPT ![t] = Beyond(@, x)]
    /\ Goto(t, "lockL")
    /\ UNCHANGED <<op, w, size, hold, owners, shared, trig, app>>

FinishW(t) ==
    /\ pc[t] = "nextC"
    /\ todo[t] = {}
    /\ wClosed' = [wClosed EXCEPT ![w[t]] = TRUE]
    /\ attached' = [attached EXCEPT ![w[t]] = {}]
    /\ wOwner' = [wOwner EXCEPT ![w[t]] = Nobody]
    /\ Return(t)
    /\ UNCHANGED <<cOwner, lOwner, state, conditions, listed, trig, app>>

AtCondition(t) == pc[t] = "lockC" /\ cOwner[c[t]] = Nobody

LockClosedC(t) ==
    /\ AtCondition(t)
    /\ state[c[t]] = "closed"
    /\ Goto(t, "throw")
    /\ UNCHANGED <<op, w, c, todo, size, hold, owners, shared, trig, app>>

LockC(t) ==
    /\ AtCondition(t)
    /\ op[t] = "closeC"
    /\ state[c[t]] # "closed"
    /\ cOwner' = [cOwner EXCEPT ![c[t]] = t]
    /\ Goto(t, "snapshot")
    /\ UNCHANGED <<op, w, c, todo, size, hold, wOwner, lOwner, shared, trig, app>>

SetTrigger(t) ==
    /\ AtCondition(t)
    /\ op[t] = "set"
    /\ state[c[t]] # "closed"
    /\ \E v \in BOOLEAN : trig' = IF v THEN trig \cup {c[t]} ELSE trig \ {c[t]}
    /\ Return(t)
    /\ UNCHANGED <<owners, shared, app>>

(* detach_from_waitset copies waitSetList under its mutex.                 *)
SnapshotNothing(t) == {}        \* mutant: close() does not detach
SnapshotOf(t) == listed[c[t]]

Snapshot(t) ==
    /\ pc[t] = "snapshot"
    /\ lOwner[c[t]] = Nobody
    /\ todo' = [todo EXCEPT ![t] = SnapshotOf(t)]
    /\ Goto(t, "nextW")
    /\ UNCHANGED <<op, w, c, size, hold, owners, shared, trig, app>>

NextW(t) ==
    /\ pc[t] = "nextW"
    /\ \E ws \in todo[t] :
          /\ w' = [w EXCEPT ![t] = ws]
          /\ todo' = [todo EXCEPT ![t] = Beyond(@, ws)]
    /\ Goto(t, "lockW")
    /\ UNCHANGED <<op, c, size, hold, owners, shared, trig, app>>

(* A status condition shares the handle of its entity, which is zeroed and *)
(* not deleted; the flag "closed" stays FALSE.                             *)
FinishC(t) ==
    /\ pc[t] = "nextW"
    /\ todo[t] = {}
    /\ IF Kind[c[t]] = "status"
       THEN state' = [state EXCEPT ![c[t]] = "nil"] /\ UNCHANGED attached
       ELSE /\ state' = [state EXCEPT ![c[t]] = "closed"]
            /\ attached' = [ws \in WaitSets |-> attached[ws] \ {c[t]}]
    /\ cOwner' = [cOwner EXCEPT ![c[t]] = Nobody]
    /\ Return(t)
    /\ UNCHANGED <<wOwner, lOwner, wClosed, conditions, listed, trig, app>>

(***************************************************************************)
(* wait() and dispatch().                                                  *)
(***************************************************************************)

(* get_ddsc_entity locks the waitset once more.                            *)
Block(t) ==
    /\ pc[t] = "block"
    /\ wOwner[w[t]] = Nobody
    /\ Goto(t, IF wClosed[w[t]] THEN "throw" ELSE "waiting")
    /\ UNCHANGED <<op, w, c, todo, size, hold, owners, shared, trig, app>>

(* External: dds_waitset_wait returns as many of the triggered conditions  *)
(* as the array has room for.                                              *)
Lesser(a, b) == IF a < b THEN a ELSE b

WakeUp(t) ==
    /\ pc[t] = "waiting"
    /\ LET ready == attached[w[t]] \cap trig
       IN /\ ready # {}
          /\ \E K \in SUBSET ready :
                /\ Cardinality(K) = Lesser(Cardinality(ready), size[t])
                /\ todo' = [todo EXCEPT ![t] = K]
    /\ Goto(t, "each")
    /\ UNCHANGED <<op, w, c, size, hold, owners, shared, trig, app>>

(* External: it times out, or the waitset was closed.                      *)
TimeOut(t) ==
    /\ pc[t] = "waiting"
    /\ Goto(t, "throw")
    /\ UNCHANGED <<op, w, c, todo, size, hold, owners, shared, trig, app>>

Each(t) ==
    /\ pc[t] = "each"
    /\ \E x \in todo[t] :
          /\ c' = [c EXCEPT ![t] = x]
          /\ todo' = [todo EXCEPT ![t] = Beyond(@, x)]
    /\ Goto(t, "trigger")
    /\ UNCHANGED <<op, w, size, hold, owners, shared, trig, app>>

(* ConditionDelegate::dispatch: a guard is locked for its trigger value.   *)
Trigger(t) ==
    /\ pc[t] = "trigger"
    /\ Kind[c[t]] = "guard" => cOwner[c[t]] = Nobody
    /\ Goto(t, IF state[c[t]] = "closed" THEN "throw"
               ELSE IF Triggered(c[t]) THEN "functor" ELSE "collect")
    /\ UNCHANGED <<op, w, c, todo, size, hold, owners, shared, trig, app>>

(* The functor of the application runs.                                    *)
Functor(t) ==
    /\ pc[t] = "functor"
    /\ Goto(t, "collect")
    /\ UNCHANGED <<op, w, c, todo, size, hold, owners, shared, trig, app>>

(* wrapper(): a reference, or null when the delegate is on its way out.    *)
Collect(t) ==
    /\ pc[t] = "collect"
    /\ hold' = [hold EXCEPT ![t] = IF Alive(c[t]) THEN @ \cup {c[t]} ELSE @]
    /\ Goto(t, "each")
    /\ UNCHANGED <<op, w, c, todo, size, owners, shared, trig, app>>

FinishWait(t) ==
    /\ pc[t] = "each"
    /\ op[t] # "dispatch"
    /\ todo[t] = {}
    /\ Return(t)
    /\ UNCHANGED <<owners, shared, trig, app>>

(* dispatch() visits what wait() returned, and dispatches it once more.    *)
Redispatch(t) ==
    /\ pc[t] = "each"
    /\ op[t] = "dispatch"
    /\ todo[t] = {}
    /\ op' = [op EXCEPT ![t] = "redispatch"]
    /\ todo' = [todo EXCEPT ![t] = hold[t]]
    /\ UNCHANGED <<pc, w, c, size, hold, owners, shared, trig, app>>

-----------------------------------------------------------------------------
Calling(t) ==
    \/ \E ws \in WaitSets :
          \/ CallCloseW(t, ws) \/ CallWait(t, ws) \/ CallDispatch(t, ws)
          \/ \E x \in Conditions : CallAttach(t, ws, x) \/ CallDetach(t, ws, x)
    \/ \E x \in Conditions : CallCloseC(t, x) \/ CallSet(t, x) \/ Drop(t, x)

Step(t) ==
    \/ LockClosedW(t) \/ LockW(t) \/ BeginCloseW(t) \/ Measure(t) \/ LockL(t) \/ Insert(t)
    \/ Erase(t) \/ Handle(t) \/ CAttach(t) \/ CDetach(t) \/ DoneOne(t) \/ NextC(t)
    \/ FinishW(t) \/ LockClosedC(t) \/ LockC(t) \/ SetTrigger(t) \/ Snapshot(t) \/ NextW(t)
    \/ FinishC(t) \/ Block(t) \/ WakeUp(t) \/ Each(t) \/ Trigger(t) \/ Functor(t)
    \/ Collect(t) \/ FinishWait(t) \/ Redispatch(t) \/ Throw(t)

Next ==
    \/ \E t \in Threads : Calling(t) \/ Step(t) \/ TimeOut(t)
    \/ \E x \in Conditions : Event(x)

Spec == Init /\ [][Next]_vars

(* Threads inside the library are scheduled; nothing forces a call, an     *)
(* event, a trigger or a time-out.                                         *)
FairSpec == Spec /\ \A t \in Threads : WF_vars(Step(t))

-----------------------------------------------------------------------------
(***************************************************************************)
(* Properties.                                                             *)
(***************************************************************************)
PCs == {"idle", "throw", "lockW", "lockL", "insert", "erase", "handle", "cattach", "cdetach",
        "done", "nextC", "lockC", "snapshot", "nextW", "block", "waiting", "each", "trigger",
        "functor", "collect"}

(* Every variable has its type.                                            *)
TypeOK ==
    /\ pc \in [Threads -> PCs]
    /\ op \in [Threads -> (Ops \ {"drop"}) \cup {"none", "redispatch"}]
    /\ w \in [Threads -> WaitSets \cup {Nobody}]
    /\ c \in [Threads -> Conditions \cup {Nobody}]
    /\ todo \in [Threads -> (SUBSET WaitSets) \cup (SUBSET Conditions)]
    /\ size \in [Threads -> 0 .. Cardinality(Conditions)]
    /\ hold \in [Threads -> SUBSET Conditions]
    /\ wOwner \in [WaitSets -> Threads \cup {Nobody}]
    /\ cOwner \in [Conditions -> Threads \cup {Nobody}]
    /\ lOwner \in [Conditions -> Threads \cup {Nobody}]
    /\ wClosed \in [WaitSets -> BOOLEAN]
    /\ state \in [Conditions -> {"open", "closed", "nil"}]
    /\ conditions \in [WaitSets -> SUBSET Conditions]
    /\ listed \in [Conditions -> SUBSET WaitSets]
    /\ attached \in [WaitSets -> SUBSET Conditions]
    /\ trig \subseteq Conditions
    /\ app \subseteq Conditions

(* A closed condition is attached to no waitset, and a closed waitset has  *)
(* no condition, however attach and the two close() functions are          *)
(* interleaved (WaitSet.cpp, detach_after_close).                          *)
ClosedIsDetached ==
    \A ws \in WaitSets, x \in Conditions :
        state[x] # "open" \/ wClosed[ws] => x \notin conditions[ws]

(* A condition whose last reference goes is attached nowhere: "the         *)
(* destructor can never be invoked for Conditions that are still attached  *)
(* to WaitSets" (ReadConditionDelegate.cpp).                               *)
DestroyedIsDetached ==
    \A x \in Conditions : ~Alive(x) => \A ws \in WaitSets : x \notin attached[ws]

(* What is gone, closed or destroyed, is attached nowhere.                 *)
GoneIsDetached == ClosedIsDetached /\ DestroyedIsDetached

(* What a waitset has attached, the condition knows: its close() can find  *)
(* every waitset it has to leave.                                          *)
AttachedIsListed ==
    \A ws \in WaitSets : \A x \in conditions[ws] :
        ws \in listed[x] \/ lOwner[x] # Nobody

(* Waitsets and conditions agree on what is attached to what.              *)
AttachmentsAgree == GoneIsDetached /\ AttachedIsListed

(* The owner of the mutex thread t is about to lock.                       *)
WaitsFor(t) ==
    CASE pc[t] \in {"lockW", "block"} -> wOwner[w[t]]
      [] pc[t] \in {"lockL", "snapshot"} -> lOwner[c[t]]
      [] pc[t] \in {"handle", "lockC"} -> cOwner[c[t]]
      [] pc[t] = "trigger" /\ Kind[c[t]] = "guard" -> cOwner[c[t]]
      [] OTHER -> Nobody

(* The threads in T wait for one another in a circle.                      *)
Stuck(T) == T # {} /\ \A t \in T : WaitsFor(t) \in T

(* No thread waits for itself, and threads wait for one another in a circle *)
(* only when one of them closes a condition: whatever else two threads do   *)
(* with waitsets, guards and status conditions, waiting and dispatching     *)
(* included, their mutexes are taken in an order that lets one of them go on. *)
NoDeadlock ==
    \A T \in SUBSET Threads :
        Stuck(T) => Cardinality(T) > 1 /\ \E t \in T : op[t] = "closeC"

(* The arrivals of other calls pause at some time: mutexes are not fair.   *)
Pause ==
    <>[][\A t \in Threads : op[t] # "none" \/ op'[t] = "none"]_vars

(* attach, detach and the close() functions return, unless a circle with a *)
(* thread that closes a condition has formed.                              *)
CallsReturn ==
    Pause => \A t \in Threads :
        op[t] \in {"attach", "detach", "closeW", "closeC", "set"}
            ~> (op[t] = "none" \/ \E T \in SUBSET Threads : Stuck(T))

-----------------------------------------------------------------------------
(* What documentation and tests of the repository say, and the code does   *)
(* not do: each is checked by a run that expects a violation.              *)

(* "Check if the waitset destructor does not deadlock" (WaitSet.cpp): not  *)
(* with a thread that closes one of its conditions either.                 *)
DestructorDoesNotDeadlock ==
    \A T \in SUBSET Threads : Stuck(T) => \A t \in T : op[t] # "closeW"

(* "The result of the wait operation is the list of all the attached       *)
(* Conditions that have a trigger_value of TRUE (i.e., the Conditions that *)
(* unblocked the wait)": it has at least one of them.                      *)
WaitReportsUnblockers ==
    \A t \in Threads : pc[t] = "each" => todo[t] # {} \/ hold[t] # {}
=============================================================================
