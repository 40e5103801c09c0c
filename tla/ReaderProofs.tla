---------------------------- MODULE ReaderProofs ----------------------------
(***************************************************************************)
(* Proofs about what surrounds a reader: the listener of an entity that is *)
(* replaced and closed while it is called, for any number of threads,      *)
(* listeners and addresses; the filters of filtered topics, for any number *)
(* of threads, views, readers, C topics and functors; and the states that  *)
(* samples and entities are selected by and shown in, for any number of    *)
(* samples and every kind of entity. The last theorem is about the parts   *)
(* together.                                                               *)
(***************************************************************************)
EXTENDS MCReader, FiniteSetTheorems, TLAPS

-----------------------------------------------------------------------------
(***************************************************************************)
(* The listener of an entity.                                              *)
(***************************************************************************)
(* The types without the bound on the callback counter, which follows from *)
(* GateExact.                                                              *)
Typed ==
    /\ pc \in [Threads -> PCs]
    /\ op \in [Threads -> {"none", "lock", "listener", "enable", "close", "destroy"}]
    /\ la \in [Threads -> Args \cup {NoArg}]
    /\ lsn \in [Deliverers -> Listeners \cup {NoListener}]
    /\ count \in Int
    /\ waiters \subseteq Threads
    /\ owner \in Threads \cup {NoThread}
    /\ closed \in BOOLEAN
    /\ destroyed \in BOOLEAN
    /\ refs \subseteq Threads
    /\ enabled \in BOOLEAN
    /\ listener \in Listeners \cup {NoListener}
    /\ mask \in BOOLEAN
    /\ stored \in Args \cup {NoArg}
    /\ fresh \in Args \cup {NoArg}
    /\ live \subseteq Args
    /\ hooked \subseteq Args
    /\ installed \in Args \cup {NoArg}

(* A callback thread never executes enable(), so it leaves a member only   *)
(* to a point inside the gate.                                             *)
CallbacksDoNotEnable == \A d \in Deliverers : pc[d] # "reinstall"

GateInv == Typed /\ CallbacksDoNotEnable /\ GateExact

-----------------------------------------------------------------------------
LEMMA TypedInit == Init => Typed
<1> SUFFICES ASSUME Init PROVE Typed
  OBVIOUS
<1>1. enabled \in BOOLEAN
  BY OpsAssumption DEF Init
<1>2. /\ hooked \subseteq Args
      /\ installed \in Args \cup {NoArg}
  BY DEF Init
<1>3. /\ pc \in [Threads -> PCs]
      /\ op \in [Threads -> {"none", "lock", "listener", "enable", "close", "destroy"}]
      /\ la \in [Threads -> Args \cup {NoArg}]
      /\ lsn \in [Deliverers -> Listeners \cup {NoListener}]
  BY DEF Init, PCs
<1>4. /\ owner \in Threads \cup {NoThread}
      /\ refs \subseteq Threads
      /\ stored \in Args \cup {NoArg}
      /\ live \subseteq Args
      /\ count \in Int
      /\ waiters \subseteq Threads
  BY DEF Init, Threads
<1>5. /\ fresh \in Args \cup {NoArg}
      /\ closed \in BOOLEAN
      /\ destroyed \in BOOLEAN
      /\ listener \in Listeners \cup {NoListener}
      /\ mask \in BOOLEAN
  BY DEF Init
<1> QED
  BY <1>1, <1>2, <1>3, <1>4, <1>5 DEF Typed

LEMMA TypedStep == Typed /\ [Next]_vars => Typed'
<1> SUFFICES ASSUME Typed, [Next]_vars PROVE Typed'
  OBVIOUS
<1> USE DEF Typed, PCs, Threads, gateVars, argVars, setting, life
<1>1. CASE \E d \in Deliverers : Invoke(d) \/ Callback(d)
  <2> PICK d \in Deliverers : Invoke(d) \/ Callback(d)
    BY <1>1
  <2>1. CASE Invoke(d)
    BY <2>1 DEF Invoke
  <2>2. CASE Obtain(d)
    BY <2>2 DEF Obtain
  <2>3. CASE Promote(d)
    BY <2>3 DEF Promote
  <2>4. CASE Fetch(d)
    BY <2>4 DEF Fetch
  <2>5. CASE UserLock(d)
    BY <2>5 DEF UserLock
  <2>6. CASE UserReturn(d)
    BY <2>6 DEF UserReturn
  <2>7. CASE Unref(d)
    BY <2>7 DEF Unref, Release, StartClose
  <2>8. CASE Leave(d)
    BY <2>8 DEF Leave, WakeAtZero
  <2>9. CASE Complete(d)
    BY <2>9 DEF Complete
  <2> QED
    BY <2>1, <2>2, <2>3, <2>4, <2>5, <2>6, <2>7, <2>8, <2>9 DEF Callback
<1>2. CASE \E t \in Callers : Operation(t)
  <2> PICK t \in Callers : Operation(t)
    BY <1>2
  <2>1. CASE CallLock(t)
    BY <2>1 DEF CallLock, Call
  <2>2. CASE CallListener(t)
    BY <2>2 DEF CallListener, Call
  <2>3. CASE CallClose(t)
    BY <2>3 DEF CallClose, Call, StartClose
  <2>4. CASE CallEnable(t)
    BY <2>4 DEF CallEnable
  <2>5. CASE Drop(t)
    BY <2>5 DEF Drop, Release, StartClose
  <2> QED
    BY <2>1, <2>2, <2>3, <2>4, <2>5 DEF Operation
<1>3. CASE \E t \in Threads : Member(t)
  <2> PICK t \in Threads : Member(t)
    BY <1>3
  <2>1. CASE GateWait(t)
    BY <2>1 DEF GateWait
  <2>2. CASE GateShut(t)
    BY <2>2 DEF GateShut
  <2>3. CASE Lock(t)
    BY <2>3 DEF Lock, Return
  <2>4. CASE Swapping(t)
    BY <2>4 DEF Swapping, Swap
  <2>5. CASE Install(t)
    BY <2>5 DEF Install
  <2>6. CASE Free(t)
    BY <2>6 DEF Free
  <2>7. CASE Teardown(t)
    BY <2>7 DEF Teardown
  <2>8. CASE Unlock(t)
    BY <2>8 DEF Unlock, Return
  <2>9. CASE Destruct(t)
    BY <2>9 DEF Destruct
  <2>10. CASE Reinstall(t)
    BY <2>10 DEF Reinstall
  <2> QED
    BY <2>1, <2>2, <2>3, <2>4, <2>5, <2>6, <2>7, <2>8, <2>9, <2>10 DEF Member
<1>4. CASE UNCHANGED vars
  BY <1>4 DEF vars
<1> QED
  BY <1>1, <1>2, <1>3, <1>4 DEF Next, Finished

-----------------------------------------------------------------------------
(* The gate counts a finite set of threads.                                *)
LEMMA InGateFinite ==
    /\ IsFiniteSet(InGate)
    /\ Cardinality(InGate) \in Nat
    /\ Cardinality(InGate) = 0 <=> InGate = {}
    /\ Cardinality(InGate) <= Cardinality(Deliverers)
<1>1. InGate \subseteq Deliverers /\ IsFiniteSet(Deliverers)
  BY ThreadsAssumption DEF InGate
<1>2. IsFiniteSet(InGate) /\ Cardinality(InGate) <= Cardinality(Deliverers)
  BY <1>1, FS_Subset
<1> QED
  BY <1>2, FS_CardinalityType, FS_EmptySet

(* The points of the program outside the gate.                             *)
Outside == {"idle", "called", "return"}

(* A step that leaves the counter alone and moves no callback in or out.   *)
LEMMA SameSide ==
    ASSUME GateInv, NEW t \in Threads, NEW next,
           pc' = [pc EXCEPT ![t] = next],
           count' = count,
           t \in Deliverers => next # "reinstall" /\ (pc[t] \in Outside <=> next \in Outside)
    PROVE  CallbacksDoNotEnable' /\ GateExact'
<1>1. pc \in [Threads -> PCs] /\ Deliverers \subseteq Threads
  BY DEF GateInv, Typed, Threads
<1>2. \A d \in Deliverers : pc'[d] = IF d = t THEN next ELSE pc[d]
  BY <1>1
<1>3. CallbacksDoNotEnable'
  BY <1>2 DEF GateInv, CallbacksDoNotEnable
<1>4. InGate' = InGate
  BY <1>2 DEF InGate, Outside
<1> QED
  BY <1>3, <1>4 DEF GateInv, GateExact

(* A callback enters through an open gate.                                 *)
LEMMA Enters ==
    ASSUME GateInv, NEW d \in Deliverers, Obtain(d), GateOpen
    PROVE  CallbacksDoNotEnable' /\ GateExact'
<1>1. pc \in [Threads -> PCs] /\ Deliverers \subseteq Threads
  BY DEF GateInv, Typed, Threads
<1>2. /\ pc[d] = "called"
      /\ pc' = [pc EXCEPT ![d] = "promote"]
      /\ count' = count + 1
  BY DEF Obtain
<1>3. \A e \in Deliverers : pc'[e] = IF e = d THEN "promote" ELSE pc[e]
  BY <1>1, <1>2
<1>4. CallbacksDoNotEnable'
  BY <1>3 DEF GateInv, CallbacksDoNotEnable
<1>5. InGate' = InGate \cup {d} /\ d \notin InGate
  BY <1>2, <1>3 DEF InGate
<1>6. Cardinality(InGate') = Cardinality(InGate) + 1
  BY <1>5, InGateFinite, FS_AddElement
<1>7. count = Cardinality(InGate) /\ Cardinality(InGate) \in Nat
  BY InGateFinite DEF GateInv, GateExact, GateOpen
<1>8. count' = Cardinality(InGate') /\ ~(count' < 0)
  BY <1>2, <1>6, <1>7
<1>9. GateExact'
  BY <1>8 DEF GateExact
<1> QED
  BY <1>4, <1>9

(* A callback leaves: the gate is not shut, for this callback is in it.    *)
LEMMA Leaves ==
    ASSUME GateInv, NEW d \in Deliverers, Leave(d)
    PROVE  CallbacksDoNotEnable' /\ GateExact'
<1>1. pc \in [Threads -> PCs] /\ Deliverers \subseteq Threads
  BY DEF GateInv, Typed, Threads
<1>2. /\ pc[d] = "release"
      /\ pc' = [pc EXCEPT ![d] = "return"]
      /\ count' = count - 1
  BY DEF Leave
<1>3. \A e \in Deliverers : pc'[e] = IF e = d THEN "return" ELSE pc[e]
  BY <1>1, <1>2
<1>4. CallbacksDoNotEnable'
  BY <1>3 DEF GateInv, CallbacksDoNotEnable
<1>5. InGate' = InGate \ {d} /\ d \in InGate
  BY <1>2, <1>3 DEF InGate
<1>6. Cardinality(InGate') = Cardinality(InGate) - 1
  BY <1>5, InGateFinite, FS_RemoveElement
<1>7. count = Cardinality(InGate) /\ Cardinality(InGate) \in Nat \ {0}
  BY <1>5, InGateFinite DEF GateInv, GateExact
<1>8. count' = Cardinality(InGate') /\ ~(count' < 0)
  BY <1>2, <1>6, <1>7
<1>9. GateExact'
  BY <1>8 DEF GateExact
<1> QED
  BY <1>4, <1>9

(* prevent_callbacks shuts an empty gate, and thread t, which is not       *)
(* counted, stays outside it.                                              *)
LEMMA Shuts ==
    ASSUME GateInv, NEW t \in Threads, GateShut(t)
    PROVE  CallbacksDoNotEnable' /\ GateExact'
<1>1. pc \in [Threads -> PCs] /\ Deliverers \subseteq Threads
  BY DEF GateInv, Typed, Threads
<1>2. /\ pc[t] \in {"gate", "gatewait"}
      /\ pc' = [pc EXCEPT ![t] = "lock"]
      /\ count' = -1
  BY DEF GateShut, AtGate
<1>3. InGate = {}
  BY InGateFinite DEF GateShut, Busy, GateInv, GateExact, Typed
<1>4. t \notin Deliverers
  BY <1>2, <1>3 DEF InGate
<1>5. \A e \in Deliverers : pc'[e] = pc[e]
  BY <1>1, <1>2, <1>4
<1>6. CallbacksDoNotEnable' /\ InGate' = {}
  BY <1>3, <1>5 DEF GateInv, CallbacksDoNotEnable, InGate
<1> QED
  BY <1>2, <1>6 DEF GateExact

LEMMA CallbackGate ==
    ASSUME GateInv, NEW d \in Deliverers, Invoke(d) \/ Callback(d)
    PROVE  CallbacksDoNotEnable' /\ GateExact'
<1>0. d \in Threads
  BY DEF Threads
<1> USE <1>0 DEF Outside, gateVars
<1>1. CASE Invoke(d)
  BY <1>1, SameSide DEF Invoke
<1>2. CASE Obtain(d)
  <2>1. CASE GateOpen
    BY <1>2, <2>1, Enters
  <2>2. CASE ~GateOpen
    BY <1>2, <2>2, SameSide DEF Obtain
  <2> QED
    BY <2>1, <2>2
<1>3. CASE Promote(d)
  BY <1>3, SameSide DEF Promote
<1>4. CASE Fetch(d)
  BY <1>4, SameSide DEF Fetch
<1>5. CASE UserLock(d)
  BY <1>5, SameSide DEF UserLock
<1>6. CASE UserReturn(d)
  BY <1>6, SameSide DEF UserReturn
<1>7. CASE Unref(d)
  BY <1>7, SameSide DEF Unref, Release, StartClose
<1>8. CASE Leave(d)
  BY <1>8, Leaves
<1>9. CASE Complete(d)
  BY <1>9, SameSide DEF Complete
<1> QED
  BY <1>1, <1>2, <1>3, <1>4, <1>5, <1>6, <1>7, <1>8, <1>9 DEF Callback

LEMMA OperationGate ==
    ASSUME GateInv, NEW t \in Callers, Operation(t)
    PROVE  CallbacksDoNotEnable' /\ GateExact'
<1>0. t \in Threads /\ t \notin Deliverers
  BY ThreadsAssumption DEF Threads
<1> USE <1>0 DEF gateVars
<1>1. CASE CallLock(t)
  BY <1>1, SameSide DEF CallLock, Call
<1>2. CASE CallListener(t)
  BY <1>2, SameSide DEF CallListener, Call
<1>3. CASE CallClose(t)
  BY <1>3, SameSide DEF CallClose, Call
<1>4. CASE CallEnable(t)
  BY <1>4, SameSide DEF CallEnable
<1>5. CASE Drop(t)
  BY <1>5, SameSide DEF Drop, Release
<1> QED
  BY <1>1, <1>2, <1>3, <1>4, <1>5 DEF Operation

LEMMA MemberGate ==
    ASSUME GateInv, NEW t \in Threads, Member(t)
    PROVE  CallbacksDoNotEnable' /\ GateExact'
<1> USE DEF Outside, gateVars
<1>1. CASE GateWait(t)
  BY <1>1, SameSide DEF GateWait, AtGate
<1>2. CASE GateShut(t)
  BY <1>2, Shuts
<1>3. CASE Lock(t)
  <2>1. CASE closed
    BY <1>3, <2>1, SameSide DEF Lock, Return
  <2>2. CASE ~closed
    BY <1>3, <2>2, SameSide DEF Lock
  <2> QED
    BY <2>1, <2>2
<1>4. CASE Swapping(t)
  BY <1>4, SameSide DEF Swapping, Swap
<1>5. CASE Install(t)
  BY <1>5, SameSide DEF Install
<1>6. CASE Free(t)
  BY <1>6, SameSide DEF Free
<1>7. CASE Teardown(t)
  BY <1>7, SameSide DEF Teardown
<1>8. CASE Unlock(t)
  BY <1>8, SameSide DEF Unlock, Return
<1>9. CASE Destruct(t)
  BY <1>9, SameSide DEF Destruct
<1>10. CASE Reinstall(t)
  <2>1. t \notin Deliverers
    BY <1>10 DEF Reinstall, GateInv, CallbacksDoNotEnable
  <2> QED
    BY <1>10, <2>1, SameSide DEF Reinstall
<1> QED
  BY <1>1, <1>2, <1>3, <1>4, <1>5, <1>6, <1>7, <1>8, <1>9, <1>10 DEF Member

-----------------------------------------------------------------------------
LEMMA GateInvInductive ==
    /\ Init => GateInv
    /\ GateInv /\ [Next]_vars => GateInv'
<1>1. ASSUME Init PROVE GateInv
  <2>1. InGate = {} /\ CallbacksDoNotEnable
    BY <1>1 DEF Init, InGate, CallbacksDoNotEnable, Threads
  <2> QED
    BY <1>1, <2>1, TypedInit, FS_EmptySet DEF GateInv, GateExact, Init
<1>2. ASSUME GateInv, [Next]_vars PROVE GateInv'
  <2>1. Typed'
    BY <1>2, TypedStep DEF GateInv
  <2>2. CASE UNCHANGED vars
    <3>1. pc' = pc /\ count' = count
      BY <2>2 DEF vars
    <3>2. InGate' = InGate /\ CallbacksDoNotEnable'
      BY <1>2, <3>1 DEF InGate, GateInv, CallbacksDoNotEnable
    <3> QED
      BY <1>2, <2>1, <3>1, <3>2 DEF GateInv, GateExact
  <2>3. CASE Next
    BY <1>2, <2>1, <2>2, <2>3, CallbackGate, OperationGate, MemberGate
    DEF Next, Finished, GateInv
  <2> QED
    BY <1>2, <2>2, <2>3
<1> QED
  BY <1>1, <1>2

(* The callback counter equals the number of callbacks between obtain_ and *)
(* release_callback_lock as long as the gate is open, and no callback is   *)
(* in there any more when it has been shut, for any number of threads.     *)
THEOREM GateIsExact == Spec => []GateExact
<1>1. GateInv => GateExact
  BY DEF GateInv
<1> QED
  BY <1>1, GateInvInductive, PTL DEF Spec

(* Every variable keeps its type; the counter stays in its range because   *)
(* it is exact.                                                            *)
THEOREM TypeCorrect == Spec => []TypeOK
<1>1. GateInv => TypeOK
  <2> SUFFICES ASSUME GateInv PROVE TypeOK
    OBVIOUS
  <2>1. Cardinality(Deliverers) \in Nat
    BY ThreadsAssumption, FS_CardinalityType
  <2>2. count \in -1 .. Cardinality(Deliverers)
    BY <2>1, InGateFinite DEF GateInv, GateExact
  <2> QED
    BY <2>2 DEF GateInv, Typed, TypeOK
<1> QED
  BY <1>1, GateInvInductive, PTL DEF Spec

-----------------------------------------------------------------------------
(* Before enable() the C layer has nothing to call back with and runs no   *)
(* callback, and no enable() is under way that could give it something.    *)
QuietBefore ==
    ~enabled =>
        /\ installed = NoArg
        /\ \A d \in Deliverers : pc[d] = "idle" /\ lsn[d] = NoListener
        /\ \A t \in Threads : pc[t] # "reinstall"

EnableInv == Typed /\ QuietBefore

(* What a step does before and after enable().                             *)
LEMMA QuietBeforeStep ==
    ASSUME EnableInv, [Next]_vars
    PROVE  QuietBefore'
<1> USE DEF EnableInv, gateVars, argVars, setting, life
<1> SUFFICES ASSUME ~enabled' PROVE QuietBefore'
  BY DEF QuietBefore
<1>1. enabled => enabled'
  BY DEF Next, Callback, Operation, Member, Swapping, Finished, vars,
         Invoke, Obtain, Promote, Fetch, UserLock, UserReturn, Unref, Leave, Complete,
         CallLock, CallListener, CallClose, Call, CallEnable, Drop, GateWait, GateShut, Lock,
         Swap, Install, Free, Teardown, Unlock, Destruct, Reinstall
<1>2. /\ ~enabled /\ installed = NoArg
      /\ \A d \in Deliverers : pc[d] = "idle" /\ lsn[d] = NoListener
      /\ \A t \in Threads : pc[t] # "reinstall"
  BY <1>1 DEF QuietBefore
<1>3. Deliverers \subseteq Threads /\ Callers \subseteq Threads /\ Deliverers \cap Callers = {}
      /\ pc \in [Threads -> PCs]
  BY ThreadsAssumption DEF Threads, Typed
<1>4. CASE \E d \in Deliverers : Invoke(d) \/ Callback(d)
  BY <1>2, <1>4 DEF Callback, Invoke, Obtain, Promote, Fetch, UserLock, UserReturn, Unref, Leave,
                    Complete
<1>5. CASE \E t \in Callers : Operation(t)
  <2> PICK t \in Callers : Operation(t)
    BY <1>5
  <2>1. t \notin Deliverers /\ ~CallEnable(t)
    BY <1>3 DEF CallEnable
  <2>2. \E next : next # "reinstall" /\ pc' = [pc EXCEPT ![t] = next]
    BY <2>1 DEF Operation, CallLock, CallListener, CallClose, Call, StartClose, Drop, Release
  <2>3. lsn' = lsn /\ installed' = installed
    BY <2>1 DEF Operation, CallLock, CallListener, CallClose, Call, Drop
  <2> QED
    BY <1>2, <1>3, <2>1, <2>2, <2>3 DEF QuietBefore
<1>6. CASE \E t \in Threads : Member(t)
  <2> PICK t \in Threads : Member(t)
    BY <1>6
  <2>1. pc[t] \notin {"idle", "reinstall"} /\ lsn' = lsn
    BY <1>2 DEF Member, GateWait, GateShut, AtGate, Lock, Swapping, Swap, Install, Free,
                Teardown, Unlock, Destruct, Reinstall
  <2>2. t \notin Deliverers
    BY <1>2, <2>1
  <2>3. \E next : next # "reinstall" /\ pc' = [pc EXCEPT ![t] = next]
    BY <2>1, <2>2 DEF Member, GateWait, GateShut, AtGate, Lock, Swapping, Swap, Install, Free,
                      Teardown, Unlock, Destruct, Reinstall, Return
  <2>4. installed' = NoArg
    BY <1>2, <2>1 DEF Member, GateWait, GateShut, AtGate, Lock, Swapping, Swap, Install,
                      NeedsInstall, Free, Teardown, Unlock, Destruct, Reinstall
  <2> QED
    BY <1>2, <1>3, <2>1, <2>2, <2>3, <2>4 DEF QuietBefore
<1>7. CASE UNCHANGED vars
  BY <1>2, <1>7 DEF QuietBefore, vars
<1> QED
  BY <1>4, <1>5, <1>6, <1>7 DEF Next, Finished

(* The listener of an entity that is no topic is not called before the     *)
(* entity is enabled, for any number of threads and whatever listener() is *)
(* set: the setter leaves the C layer alone until enable() has run.        *)
THEOREM ListenerWaitsForEnable ==
    ASSUME Kind # "topic"
    PROVE  Spec => []NotCalledUntilEnabled
<1>1. Init => EnableInv
  <2> SUFFICES ASSUME Init PROVE EnableInv
    OBVIOUS
  <2>1. QuietBefore
    BY DEF Init, QuietBefore, Threads
  <2> QED
    BY <2>1, TypedInit DEF EnableInv
<1>2. EnableInv /\ [Next]_vars => EnableInv'
  BY QuietBeforeStep, TypedStep DEF EnableInv
<1>3. EnableInv => NotCalledUntilEnabled
  BY DEF EnableInv, QuietBefore, NotCalledUntilEnabled, InListener
<1> QED
  BY <1>1, <1>2, <1>3, PTL DEF Spec

-----------------------------------------------------------------------------
(***************************************************************************)
(* The entity keeps the promise of ListenerContract, while it is enabled,  *)
(* locked, closed and dropped by any number of threads: what a callback    *)
(* runs is the listener that is set.                                       *)
(***************************************************************************)

(* The C layer has nothing to call back with before enable(). It is not so *)
(* for a topic that is created disabled: see ListenerWaitsForEnable.       *)
WaitsForEnable == Kind # "topic" \/ EnabledAtStart = {TRUE}

Holding == {"swap", "install", "free", "teardown", "held"}
Closing == {"swap", "install", "free", "teardown"}

(* The object mutex is held by the thread inside a member, and only by it. *)
MutexOwned == \A t \in Threads : pc[t] \in Holding <=> owner = t

(* The member functions that replace the listener run before the entity is *)
(* closed, its C entity goes quiet when it is, and only a closed entity is *)
(* destroyed.                                                              *)
ClosedIsQuiet ==
    /\ \A t \in Threads : pc[t] \in Closing => ~closed
    /\ \A t \in Threads : pc[t] = "dtor" => closed
    /\ \A t \in Threads : pc[t] = "held" /\ op[t] = "destroy" => closed
    /\ destroyed => closed
    /\ closed => Quiescent /\ installed = NoArg

(* The thread that destroys the entity executes close() or the destructor; *)
(* a callback that runs a listener is between fetch and unref, or executes *)
(* a member for it, and it is not the one that destroys the entity.        *)
RunningIsPending ==
  /\ \A t \in Threads : op[t] = "destroy" =>
        pc[t] \in Holding \cup {"gate", "gatewait", "lock", "dtor"}
  /\ \A d \in Deliverers : lsn[d] # NoListener =>
        /\ pc[d] \notin {"idle", "called", "promote", "fetch", "release", "return", "dtor"}
        /\ op[d] # "destroy"

(* The part that a step is shown to keep here; that it keeps GateInv and   *)
(* QuietBefore is proved above.                                            *)
Quietness == MutexOwned /\ ClosedIsQuiet /\ RunningIsPending /\ OldListenerQuiet

QuietInv == GateInv /\ QuietBefore /\ Quietness

-----------------------------------------------------------------------------
LEMMA CallbackQuiet ==
    ASSUME QuietInv, NEW d \in Deliverers, Invoke(d) \/ Callback(d)
    PROVE  Quietness'
<1>0. /\ Typed /\ QuietBefore /\ CallbacksDoNotEnable
      /\ MutexOwned /\ ClosedIsQuiet /\ RunningIsPending /\ OldListenerQuiet
  BY DEF QuietInv, Quietness, GateInv
<1>00. d \in Threads /\ Deliverers \subseteq Threads
    /\ Callers \subseteq Threads /\ NoThread \notin Threads
    /\ NoListener \notin Listeners /\ NoArg \notin Args
  BY ThreadsAssumption, NullsAssumption DEF Threads
<1> USE <1>0, <1>00 DEF Typed, gateVars, argVars, setting, life
<1>1. CASE Invoke(d)
  <2> USE <1>1 DEF Invoke
  <2>1. MutexOwned'
    BY DEF MutexOwned, Holding
  <2>2. ClosedIsQuiet'
    BY DEF ClosedIsQuiet, Closing, Holding, MutexOwned, Quiescent, Pending
  <2>3. RunningIsPending'
    BY DEF RunningIsPending, CallbacksDoNotEnable, Holding, ClosedIsQuiet, Quiescent, Pending
  <2>4. OldListenerQuiet'
    BY DEF OldListenerQuiet, RunningIsPending, InListener, MutexOwned, Holding, QuietBefore, Quiescent, Pending
  <2> QED
    BY <2>1, <2>2, <2>3, <2>4 DEF Quietness
<1>2. CASE Obtain(d)
  <2> USE <1>2 DEF Obtain
  <2>1. MutexOwned'
    BY DEF MutexOwned, Holding
  <2>2. ClosedIsQuiet'
    BY DEF ClosedIsQuiet, Closing, Holding, MutexOwned, Quiescent, Pending
  <2>3. RunningIsPending'
    BY DEF RunningIsPending, CallbacksDoNotEnable, Holding, ClosedIsQuiet, Quiescent, Pending
  <2>4. OldListenerQuiet'
    BY DEF OldListenerQuiet, RunningIsPending, InListener, MutexOwned, Holding, QuietBefore, Quiescent, Pending
  <2> QED
    BY <2>1, <2>2, <2>3, <2>4 DEF Quietness
<1>3. CASE Promote(d)
  <2> USE <1>3 DEF Promote
  <2>1. MutexOwned'
    BY DEF MutexOwned, Holding
  <2>2. ClosedIsQuiet'
    BY DEF ClosedIsQuiet, Closing, Holding, MutexOwned, Quiescent, Pending
  <2>3. RunningIsPending'
    BY DEF RunningIsPending, CallbacksDoNotEnable, Holding, ClosedIsQuiet, Quiescent, Pending
  <2>4. OldListenerQuiet'
    BY DEF OldListenerQuiet, RunningIsPending, InListener, MutexOwned, Holding, QuietBefore, Quiescent, Pending
  <2> QED
    BY <2>1, <2>2, <2>3, <2>4 DEF Quietness
<1>4. CASE Fetch(d)
  <2> USE <1>4 DEF Fetch
  <2>1. MutexOwned'
    BY DEF MutexOwned, Holding
  <2>2. ClosedIsQuiet'
    BY DEF ClosedIsQuiet, Closing, Holding, MutexOwned, Quiescent, Pending
  <2>3. RunningIsPending'
    BY DEF RunningIsPending, CallbacksDoNotEnable, Holding, ClosedIsQuiet, Quiescent, Pending
  <2>4. OldListenerQuiet'
    BY DEF OldListenerQuiet, RunningIsPending, InListener, MutexOwned, Holding, QuietBefore, Quiescent, Pending
  <2> QED
    BY <2>1, <2>2, <2>3, <2>4 DEF Quietness
<1>5. CASE UserLock(d)
  <2> USE <1>5 DEF UserLock
  <2>1. MutexOwned'
    BY DEF MutexOwned, Holding
  <2>2. ClosedIsQuiet'
    BY DEF ClosedIsQuiet, Closing, Holding, MutexOwned, Quiescent, Pending
  <2>3. RunningIsPending'
    BY DEF RunningIsPending, CallbacksDoNotEnable, Holding, ClosedIsQuiet, Quiescent, Pending
  <2>4. OldListenerQuiet'
    BY DEF OldListenerQuiet, RunningIsPending, InListener, MutexOwned, Holding, QuietBefore, Quiescent, Pending
  <2> QED
    BY <2>1, <2>2, <2>3, <2>4 DEF Quietness
<1>6. CASE UserReturn(d)
  <2> USE <1>6 DEF UserReturn
  <2>1. MutexOwned'
    BY DEF MutexOwned, Holding
  <2>2. ClosedIsQuiet'
    BY DEF ClosedIsQuiet, Closing, Holding, MutexOwned, Quiescent, Pending
  <2>3. RunningIsPending'
    BY DEF RunningIsPending, CallbacksDoNotEnable, Holding, ClosedIsQuiet, Quiescent, Pending
  <2>4. OldListenerQuiet'
    BY DEF OldListenerQuiet, RunningIsPending, InListener, MutexOwned, Holding, QuietBefore, Quiescent, Pending
  <2> QED
    BY <2>1, <2>2, <2>3, <2>4 DEF Quietness
<1>7. CASE Unref(d)
  <2> USE <1>7 DEF Unref, Release, StartClose
  <2>1. MutexOwned'
    BY DEF MutexOwned, Holding
  <2>2. ClosedIsQuiet'
    BY DEF ClosedIsQuiet, Closing, Holding, MutexOwned, Quiescent, Pending
  <2>3. RunningIsPending'
    BY DEF RunningIsPending, CallbacksDoNotEnable, Holding, ClosedIsQuiet, Quiescent, Pending
  <2>4. OldListenerQuiet'
    BY DEF OldListenerQuiet, RunningIsPending, InListener, MutexOwned, Holding, QuietBefore, Quiescent, Pending
  <2> QED
    BY <2>1, <2>2, <2>3, <2>4 DEF Quietness
<1>8. CASE Leave(d)
  <2> USE <1>8 DEF Leave
  <2>1. MutexOwned'
    BY DEF MutexOwned, Holding
  <2>2. ClosedIsQuiet'
    BY DEF ClosedIsQuiet, Closing, Holding, MutexOwned, Quiescent, Pending
  <2>3. RunningIsPending'
    BY DEF RunningIsPending, CallbacksDoNotEnable, Holding, ClosedIsQuiet, Quiescent, Pending
  <2>4. OldListenerQuiet'
    BY DEF OldListenerQuiet, RunningIsPending, InListener, MutexOwned, Holding, QuietBefore, Quiescent, Pending
  <2> QED
    BY <2>1, <2>2, <2>3, <2>4 DEF Quietness
<1>9. CASE Complete(d)
  <2> USE <1>9 DEF Complete
  <2>1. MutexOwned'
    BY DEF MutexOwned, Holding
  <2>2. ClosedIsQuiet'
    BY DEF ClosedIsQuiet, Closing, Holding, MutexOwned, Quiescent, Pending
  <2>3. RunningIsPending'
    BY DEF RunningIsPending, CallbacksDoNotEnable, Holding, ClosedIsQuiet, Quiescent, Pending
  <2>4. OldListenerQuiet'
    BY DEF OldListenerQuiet, RunningIsPending, InListener, MutexOwned, Holding, QuietBefore, Quiescent, Pending
  <2> QED
    BY <2>1, <2>2, <2>3, <2>4 DEF Quietness
<1> QED
  BY <1>1, <1>2, <1>3, <1>4, <1>5, <1>6, <1>7, <1>8, <1>9 DEF Callback

LEMMA OperationQuiet ==
    ASSUME QuietInv, NEW t \in Callers, Operation(t)
    PROVE  Quietness'
<1>0. /\ Typed /\ QuietBefore /\ CallbacksDoNotEnable
      /\ MutexOwned /\ ClosedIsQuiet /\ RunningIsPending /\ OldListenerQuiet
  BY DEF QuietInv, Quietness, GateInv
<1>00. t \in Threads /\ t \notin Deliverers /\ Deliverers \subseteq Threads
    /\ NoThread \notin Threads
    /\ NoListener \notin Listeners /\ NoArg \notin Args
  BY ThreadsAssumption, NullsAssumption DEF Threads
<1> USE <1>0, <1>00 DEF Typed, gateVars, argVars, setting, life
<1>1. CASE CallLock(t)
  <2> USE <1>1 DEF CallLock, Call, Ready
  <2>1. MutexOwned'
    BY DEF MutexOwned, Holding
  <2>2. ClosedIsQuiet'
    BY DEF ClosedIsQuiet, Closing, Holding, MutexOwned, Quiescent, Pending
  <2>3. RunningIsPending'
    BY DEF RunningIsPending, CallbacksDoNotEnable, Holding, ClosedIsQuiet, Quiescent, Pending
  <2>4. OldListenerQuiet'
    BY DEF OldListenerQuiet, RunningIsPending, InListener, MutexOwned, Holding, QuietBefore, Quiescent, Pending
  <2> QED
    BY <2>1, <2>2, <2>3, <2>4 DEF Quietness
<1>2. CASE CallListener(t)
  <2> USE <1>2 DEF CallListener, Call, Ready
  <2>1. MutexOwned'
    BY DEF MutexOwned, Holding
  <2>2. ClosedIsQuiet'
    BY DEF ClosedIsQuiet, Closing, Holding, MutexOwned, Quiescent, Pending
  <2>3. RunningIsPending'
    BY DEF RunningIsPending, CallbacksDoNotEnable, Holding, ClosedIsQuiet, Quiescent, Pending
  <2>4. OldListenerQuiet'
    BY DEF OldListenerQuiet, RunningIsPending, InListener, MutexOwned, Holding, QuietBefore, Quiescent, Pending
  <2> QED
    BY <2>1, <2>2, <2>3, <2>4 DEF Quietness
<1>3. CASE CallClose(t)
  <2> USE <1>3 DEF CallClose, Call, Ready, StartClose
  <2>1. MutexOwned'
    BY DEF MutexOwned, Holding
  <2>2. ClosedIsQuiet'
    BY DEF ClosedIsQuiet, Closing, Holding, MutexOwned, Quiescent, Pending
  <2>3. RunningIsPending'
    BY DEF RunningIsPending, CallbacksDoNotEnable, Holding, ClosedIsQuiet, Quiescent, Pending
  <2>4. OldListenerQuiet'
    BY DEF OldListenerQuiet, RunningIsPending, InListener, MutexOwned, Holding, QuietBefore, Quiescent, Pending
  <2> QED
    BY <2>1, <2>2, <2>3, <2>4 DEF Quietness
<1>4. CASE CallEnable(t)
  <2> USE <1>4 DEF CallEnable, Ready
  <2>1. MutexOwned'
    BY DEF MutexOwned, Holding
  <2>2. ClosedIsQuiet'
    BY DEF ClosedIsQuiet, Closing, Holding, MutexOwned, Quiescent, Pending
  <2>3. RunningIsPending'
    BY DEF RunningIsPending, CallbacksDoNotEnable, Holding, ClosedIsQuiet, Quiescent, Pending
  <2>4. OldListenerQuiet'
    BY DEF OldListenerQuiet, RunningIsPending, InListener, MutexOwned, Holding, QuietBefore, Quiescent, Pending
  <2> QED
    BY <2>1, <2>2, <2>3, <2>4 DEF Quietness
<1>5. CASE Drop(t)
  <2> USE <1>5 DEF Drop, Ready, Release, StartClose
  <2>1. MutexOwned'
    BY DEF MutexOwned, Holding
  <2>2. ClosedIsQuiet'
    BY DEF ClosedIsQuiet, Closing, Holding, MutexOwned, Quiescent, Pending
  <2>3. RunningIsPending'
    BY DEF RunningIsPending, CallbacksDoNotEnable, Holding, ClosedIsQuiet, Quiescent, Pending
  <2>4. OldListenerQuiet'
    BY DEF OldListenerQuiet, RunningIsPending, InListener, MutexOwned, Holding, QuietBefore, Quiescent, Pending
  <2> QED
    BY <2>1, <2>2, <2>3, <2>4 DEF Quietness
<1> QED
  BY <1>1, <1>2, <1>3, <1>4, <1>5 DEF Operation

LEMMA MemberQuiet ==
    ASSUME QuietInv, NEW t \in Threads, Member(t)
    PROVE  Quietness'
<1>0. /\ Typed /\ QuietBefore /\ CallbacksDoNotEnable
      /\ MutexOwned /\ ClosedIsQuiet /\ RunningIsPending /\ OldListenerQuiet
  BY DEF QuietInv, Quietness, GateInv
<1>00. Deliverers \subseteq Threads /\ Callers \subseteq Threads /\ NoThread \notin Threads
    /\ NoListener \notin Listeners /\ NoArg \notin Args
  BY ThreadsAssumption, NullsAssumption DEF Threads
<1> USE <1>0, <1>00 DEF Typed, gateVars, argVars, setting, life
<1>1. CASE GateWait(t)
  <2> USE <1>1 DEF GateWait, AtGate
  <2>1. MutexOwned'
    BY DEF MutexOwned, Holding
  <2>2. ClosedIsQuiet'
    BY DEF ClosedIsQuiet, Closing, Holding, MutexOwned, Quiescent, Pending
  <2>3. RunningIsPending'
    BY DEF RunningIsPending, CallbacksDoNotEnable, Holding, ClosedIsQuiet, Quiescent, Pending
  <2>4. OldListenerQuiet'
    BY DEF OldListenerQuiet, RunningIsPending, InListener, MutexOwned, Holding, QuietBefore, Quiescent, Pending
  <2> QED
    BY <2>1, <2>2, <2>3, <2>4 DEF Quietness
<1>2. CASE GateShut(t)
  <2> USE <1>2 DEF GateShut, AtGate
  <2>1. MutexOwned'
    BY DEF MutexOwned, Holding
  <2>2. ClosedIsQuiet'
    BY DEF ClosedIsQuiet, Closing, Holding, MutexOwned, Quiescent, Pending
  <2>3. RunningIsPending'
    BY DEF RunningIsPending, CallbacksDoNotEnable, Holding, ClosedIsQuiet, Quiescent, Pending
  <2>4. OldListenerQuiet'
    BY DEF OldListenerQuiet, RunningIsPending, InListener, MutexOwned, Holding, QuietBefore, Quiescent, Pending
  <2> QED
    BY <2>1, <2>2, <2>3, <2>4 DEF Quietness
<1>3. CASE Lock(t)
  <2> USE <1>3 DEF Lock, Return
  <2>1. MutexOwned'
    BY DEF MutexOwned, Holding
  <2>2. ClosedIsQuiet'
    BY DEF ClosedIsQuiet, Closing, Holding, MutexOwned, Quiescent, Pending
  <2>3. RunningIsPending'
    BY DEF RunningIsPending, CallbacksDoNotEnable, Holding, ClosedIsQuiet, Quiescent, Pending
  <2>4. OldListenerQuiet'
    BY DEF OldListenerQuiet, RunningIsPending, InListener, MutexOwned, Holding, QuietBefore, Quiescent, Pending
  <2> QED
    BY <2>1, <2>2, <2>3, <2>4 DEF Quietness
<1>4. CASE Swapping(t)
  <2> USE <1>4 DEF Swapping, Swap
  <2>1. MutexOwned'
    BY DEF MutexOwned, Holding
  <2>2. ClosedIsQuiet'
    BY DEF ClosedIsQuiet, Closing, Holding, MutexOwned, Quiescent, Pending
  <2>3. RunningIsPending'
    BY DEF RunningIsPending, CallbacksDoNotEnable, Holding, ClosedIsQuiet, Quiescent, Pending
  <2>4. OldListenerQuiet'
    BY DEF OldListenerQuiet, RunningIsPending, InListener, MutexOwned, Holding, QuietBefore, Quiescent, Pending
  <2> QED
    BY <2>1, <2>2, <2>3, <2>4 DEF Quietness
<1>5. CASE Install(t)
  <2> USE <1>5 DEF Install, NeedsInstall
  <2>1. MutexOwned'
    BY DEF MutexOwned, Holding
  <2>2. ClosedIsQuiet'
    BY DEF ClosedIsQuiet, Closing, Holding, MutexOwned, Quiescent, Pending
  <2>3. RunningIsPending'
    BY DEF RunningIsPending, CallbacksDoNotEnable, Holding, ClosedIsQuiet, Quiescent, Pending
  <2>4. OldListenerQuiet'
    BY DEF OldListenerQuiet, RunningIsPending, InListener, MutexOwned, Holding, QuietBefore, Quiescent, Pending
  <2> QED
    BY <2>1, <2>2, <2>3, <2>4 DEF Quietness
<1>6. CASE Free(t)
  <2> USE <1>6 DEF Free
  <2>1. MutexOwned'
    BY DEF MutexOwned, Holding
  <2>2. ClosedIsQuiet'
    BY DEF ClosedIsQuiet, Closing, Holding, MutexOwned, Quiescent, Pending
  <2>3. RunningIsPending'
    BY DEF RunningIsPending, CallbacksDoNotEnable, Holding, ClosedIsQuiet, Quiescent, Pending
  <2>4. OldListenerQuiet'
    BY DEF OldListenerQuiet, RunningIsPending, InListener, MutexOwned, Holding, QuietBefore, Quiescent, Pending
  <2> QED
    BY <2>1, <2>2, <2>3, <2>4 DEF Quietness
<1>7. CASE Teardown(t)
  <2> USE <1>7 DEF Teardown
  <2>1. MutexOwned'
    BY DEF MutexOwned, Holding
  <2>2. ClosedIsQuiet'
    BY DEF ClosedIsQuiet, Closing, Holding, MutexOwned, Quiescent, Pending
  <2>3. RunningIsPending'
    BY DEF RunningIsPending, CallbacksDoNotEnable, Holding, ClosedIsQuiet, Quiescent, Pending
  <2>4. OldListenerQuiet'
    BY DEF OldListenerQuiet, RunningIsPending, InListener, MutexOwned, Holding, QuietBefore, Quiescent, Pending
  <2> QED
    BY <2>1, <2>2, <2>3, <2>4 DEF Quietness
<1>8. CASE Unlock(t)
  <2> USE <1>8 DEF Unlock, Return
  <2>1. MutexOwned'
    BY DEF MutexOwned, Holding
  <2>2. ClosedIsQuiet'
    BY DEF ClosedIsQuiet, Closing, Holding, MutexOwned, Quiescent, Pending
  <2>3. RunningIsPending'
    BY DEF RunningIsPending, CallbacksDoNotEnable, Holding, ClosedIsQuiet, Quiescent, Pending
  <2>4. OldListenerQuiet'
    BY DEF OldListenerQuiet, RunningIsPending, InListener, MutexOwned, Holding, QuietBefore, Quiescent, Pending
  <2> QED
    BY <2>1, <2>2, <2>3, <2>4 DEF Quietness
<1>9. CASE Destruct(t)
  <2> USE <1>9 DEF Destruct
  <2>1. MutexOwned'
    BY DEF MutexOwned, Holding
  <2>2. ClosedIsQuiet'
    BY DEF ClosedIsQuiet, Closing, Holding, MutexOwned, Quiescent, Pending
  <2>3. RunningIsPending'
    BY DEF RunningIsPending, CallbacksDoNotEnable, Holding, ClosedIsQuiet, Quiescent, Pending
  <2>4. OldListenerQuiet'
    BY DEF OldListenerQuiet, RunningIsPending, InListener, MutexOwned, Holding, QuietBefore, Quiescent, Pending
  <2> QED
    BY <2>1, <2>2, <2>3, <2>4 DEF Quietness
<1>10. CASE Reinstall(t)
  <2> USE <1>10 DEF Reinstall
  <2>1. MutexOwned'
    BY DEF MutexOwned, Holding
  <2>2. ClosedIsQuiet'
    BY DEF ClosedIsQuiet, Closing, Holding, MutexOwned, Quiescent, Pending
  <2>3. RunningIsPending'
    BY DEF RunningIsPending, CallbacksDoNotEnable, Holding, ClosedIsQuiet, Quiescent, Pending
  <2>4. OldListenerQuiet'
    BY DEF OldListenerQuiet, RunningIsPending, InListener, MutexOwned, Holding, QuietBefore, Quiescent, Pending
  <2> QED
    BY <2>1, <2>2, <2>3, <2>4 DEF Quietness
<1> QED
  BY <1>1, <1>2, <1>3, <1>4, <1>5, <1>6, <1>7, <1>8, <1>9, <1>10 DEF Member

LEMMA QuietInvInductive ==
    /\ WaitsForEnable /\ Init => QuietInv
    /\ QuietInv /\ [Next]_vars => QuietInv'
<1>1. ASSUME WaitsForEnable, Init PROVE QuietInv
  <2>1. GateInv
    BY <1>1, GateInvInductive
  <2>2. QuietBefore
    <3>1. CASE Kind # "topic"
      BY <1>1, <3>1 DEF Init, QuietBefore, Threads
    <3>2. CASE EnabledAtStart = {TRUE}
      BY <1>1, <3>2 DEF Init, QuietBefore
    <3> QED
      BY <1>1, <3>1, <3>2 DEF WaitsForEnable
  <2>3. MutexOwned /\ ClosedIsQuiet
    BY <1>1, ThreadsAssumption DEF Init, MutexOwned, ClosedIsQuiet, Holding, Closing, Threads
  <2>4. RunningIsPending /\ OldListenerQuiet
    BY <1>1 DEF Init, RunningIsPending, OldListenerQuiet, InListener, Threads
  <2> QED
    BY <2>1, <2>2, <2>3, <2>4 DEF QuietInv, Quietness
<1>2. ASSUME QuietInv, [Next]_vars PROVE QuietInv'
  <2>1. GateInv'
    BY <1>2, GateInvInductive DEF QuietInv
  <2>2. QuietBefore'
    BY <1>2, QuietBeforeStep DEF QuietInv, GateInv, EnableInv
  <2>3. Quietness'
    <3>1. CASE UNCHANGED vars
      BY <1>2, <3>1
      DEF vars, QuietInv, Quietness, MutexOwned, ClosedIsQuiet, Quiescent, Pending,
          RunningIsPending, OldListenerQuiet, InListener
    <3>2. CASE Next
      BY <1>2, <3>1, <3>2, CallbackQuiet, OperationQuiet, MemberQuiet DEF Next, Finished
    <3> QED
      BY <1>2, <3>1, <3>2
  <2> QED
    BY <2>1, <2>2, <2>3 DEF QuietInv
<1> QED
  BY <1>1, <1>2

-----------------------------------------------------------------------------
(* Once a setter or close() is past dds_set_listener, no callback runs an  *)
(* earlier listener.                                                       *)
THEOREM OldListenersAreQuiet == ASSUME WaitsForEnable PROVE Spec => []OldListenerQuiet
<1>1. QuietInv => OldListenerQuiet
  BY DEF QuietInv, Quietness
<1> QED
  BY <1>1, QuietInvInductive, PTL DEF Spec

-----------------------------------------------------------------------------
(* The refinement mapping, by name.                                        *)
Settled == \A t \in Threads : pc[t] # "install"
OpenGate == IF Gated THEN count >= 0 ELSE ~closed

LEMMA ContractInit == Init => Contract!Init
  BY DEF Init, Contract!Init, Gated, Threads

(* A step that changes nothing the contract mentions.                      *)
LEMMA ContractStutter ==
    ASSUME UNCHANGED <<listener, lsn>>, Settled' = Settled, OpenGate' = OpenGate
    PROVE  UNCHANGED Contract!vars
  BY DEF Contract!vars, Settled, OpenGate

LEMMA CallbackKeeps ==
    ASSUME QuietInv, NEW d \in Deliverers, Invoke(d) \/ Callback(d)
    PROVE  Contract!Next \/ UNCHANGED Contract!vars
<1>0. Typed /\ ClosedIsQuiet /\ RunningIsPending /\ GateExact
  BY DEF QuietInv, Quietness, GateInv
<1>00. d \in Threads /\ Deliverers \subseteq Threads
  BY DEF Threads
<1> USE <1>0, <1>00 DEF Typed, gateVars, life, setting
<1>1. CASE Invoke(d)
  BY <1>1, ContractStutter DEF Invoke, Settled, OpenGate
<1>2. CASE Obtain(d)
  <2>1. Settled' = Settled
    BY <1>2 DEF Obtain, Settled
  <2>2. OpenGate' = OpenGate
    BY <1>2 DEF Obtain, GateOpen, OpenGate, Gated
  <2> QED
    BY <1>2, <2>1, <2>2, ContractStutter DEF Obtain
<1>3. CASE Promote(d)
  BY <1>3, ContractStutter DEF Promote, Settled, OpenGate
<1>4. CASE Fetch(d)
  <2>1. Settled' = Settled
    BY <1>4 DEF Fetch, Settled
  <2>2. OpenGate /\ OpenGate' = OpenGate
    <3>1. d \in InGate /\ d \in Pending
      BY <1>4 DEF Fetch, InGate, Pending
    <3>2. ~(count < 0) /\ ~closed
      BY <3>1 DEF GateExact, ClosedIsQuiet, Quiescent
    <3> QED
      BY <1>4, <3>2 DEF Fetch, OpenGate
  <2>3. CASE lsn' = lsn
    BY <1>4, <2>1, <2>2, <2>3, ContractStutter DEF Fetch
  <2>4. CASE lsn' = [lsn EXCEPT ![d] = listener] /\ listener # NoListener
    <3>1. lsn[d] = NoListener
      BY <1>4 DEF Fetch, RunningIsPending
    <3>2. Contract!Begin(d)
      BY <1>4, <2>1, <2>2, <2>4, <3>1 DEF Fetch, Contract!Begin, Settled, OpenGate
    <3> QED
      BY <3>2 DEF Contract!Next
  <2> QED
    BY <1>4, <2>3, <2>4 DEF Fetch
<1>5. CASE UserLock(d)
  BY <1>5, ContractStutter DEF UserLock, Settled, OpenGate
<1>6. CASE UserReturn(d)
  BY <1>6, ContractStutter DEF UserReturn, Settled, OpenGate
<1>7. CASE Unref(d)
  <2>1. Settled' = Settled
    BY <1>7 DEF Unref, Release, StartClose, Settled
  <2>2. OpenGate' = OpenGate
    BY <1>7 DEF Unref, OpenGate
  <2>3. CASE lsn[d] = NoListener
    BY <1>7, <2>1, <2>2, <2>3, ContractStutter DEF Unref
  <2>4. CASE lsn[d] # NoListener
    <3>1. Contract!Finish(d)
      BY <1>7, <2>1, <2>2, <2>4 DEF Unref, Contract!Finish, Settled, OpenGate
    <3> QED
      BY <3>1 DEF Contract!Next
  <2> QED
    BY <2>3, <2>4
<1>8. CASE Leave(d)
  <2>1. Settled' = Settled
    BY <1>8 DEF Leave, Settled
  <2>2. d \in InGate
    BY <1>8 DEF Leave, InGate
  <2>3. count = Cardinality(InGate) /\ Cardinality(InGate) \in Nat \ {0}
    BY <2>2, InGateFinite DEF GateExact
  <2>4. count >= 0 /\ count' >= 0
    BY <1>8, <2>3 DEF Leave
  <2>5. OpenGate' = OpenGate
    BY <1>8, <2>4 DEF Leave, OpenGate
  <2> QED
    BY <1>8, <2>1, <2>5, ContractStutter DEF Leave
<1>9. CASE Complete(d)
  BY <1>9, ContractStutter DEF Complete, Settled, OpenGate
<1> QED
  BY <1>1, <1>2, <1>3, <1>4, <1>5, <1>6, <1>7, <1>8, <1>9 DEF Callback

LEMMA OperationKeeps ==
    ASSUME QuietInv, NEW t \in Callers, Operation(t)
    PROVE  Contract!Next \/ UNCHANGED Contract!vars
<1>1. pc \in [Threads -> PCs] /\ t \in Threads /\ pc[t] # "install"
  BY DEF QuietInv, GateInv, Typed, Threads, Operation, CallLock, CallListener, CallClose, Call,
         CallEnable, Drop, Ready
<1>2. Settled' = Settled
  BY <1>1 DEF Settled, Operation, CallLock, CallListener, CallClose, Call, CallEnable, Drop,
              Release, StartClose
<1>3. UNCHANGED <<listener, lsn, count, closed>>
  BY DEF Operation, CallLock, CallListener, CallClose, Call, CallEnable, Drop, Release,
         gateVars, setting, life
<1> QED
  BY <1>2, <1>3, ContractStutter DEF OpenGate

LEMMA MemberKeeps ==
    ASSUME QuietInv, NEW t \in Threads, Member(t)
    PROVE  Contract!Next \/ UNCHANGED Contract!vars
<1>0. /\ Typed /\ ClosedIsQuiet /\ RunningIsPending /\ GateExact
      /\ QuietBefore /\ MutexOwned /\ CallbacksDoNotEnable
  BY DEF QuietInv, Quietness, GateInv
<1>00. Deliverers \subseteq Threads /\ NoThread \notin Threads
  BY ThreadsAssumption DEF Threads
<1> USE <1>0, <1>00 DEF Typed, gateVars, life, setting, argVars
<1>1. CASE GateWait(t)
  BY <1>1, ContractStutter DEF GateWait, AtGate, Settled, OpenGate
<1>2. CASE GateShut(t)
  <2>1. Settled' = Settled
    BY <1>2 DEF GateShut, AtGate, Settled
  <2>2. CASE Gated /\ count >= 0
    <3>1. InGate = {}
      BY <1>2, <2>2, InGateFinite DEF GateShut, Busy, GateExact
    <3>2. \A d \in Deliverers : lsn[d] = NoListener
      BY <3>1 DEF InGate, RunningIsPending
    <3>3. Contract!Shut
      BY <1>2, <2>1, <2>2, <3>2 DEF GateShut, Contract!Shut, Settled, OpenGate
    <3> QED
      BY <3>3 DEF Contract!Next
  <2>3. CASE ~(Gated /\ count >= 0)
    BY <1>2, <2>1, <2>3, ContractStutter DEF GateShut, OpenGate
  <2> QED
    BY <2>2, <2>3
<1>3. CASE Lock(t)
  BY <1>3, ContractStutter DEF Lock, Return, Settled, OpenGate
<1>4. CASE Swapping(t)
  <2> PICK l \in Listeners \cup {NoListener}, m \in BOOLEAN, a \in Args : Swap(t, l, m, a)
    BY <1>4 DEF Swapping
  <2>1. Settled
    BY DEF Swap, Settled, MutexOwned, Holding
  <2>2. ~Settled'
    BY DEF Swap, Settled
  <2>3. Contract!Register(l)
    BY <2>1, <2>2 DEF Swap, Contract!Register, Settled, OpenGate
  <2> QED
    BY <2>3 DEF Contract!Next
<1>5. CASE Install(t)
  <2>1. ~Settled
    BY <1>5 DEF Install, Settled
  <2>2. Settled'
    BY <1>5 DEF Install, Settled, MutexOwned, Holding
  <2>3. \A d \in Deliverers : lsn[d] = NoListener
    BY <1>5 DEF Install, NeedsInstall, QuietBefore, Quiescent, Pending, RunningIsPending
  <2>4. Contract!Settle
    BY <1>5, <2>1, <2>2, <2>3 DEF Install, Contract!Settle, Settled, OpenGate
  <2> QED
    BY <2>4 DEF Contract!Next
<1>6. CASE Free(t)
  BY <1>6, ContractStutter DEF Free, Settled, OpenGate
<1>7. CASE Teardown(t)
  <2>1. Settled' = Settled
    BY <1>7 DEF Teardown, Settled
  <2>2. \A d \in Deliverers : lsn[d] = NoListener
    BY <1>7 DEF Teardown, Quiescent, Pending, RunningIsPending
  <2>3. ~closed
    BY <1>7 DEF Teardown, ClosedIsQuiet, Closing
  <2>4. CASE Gated
    BY <1>7, <2>1, <2>4, ContractStutter DEF Teardown, OpenGate
  <2>5. CASE ~Gated
    <3>1. Contract!Shut
      BY <1>7, <2>1, <2>2, <2>3, <2>5 DEF Teardown, Contract!Shut, Settled, OpenGate
    <3> QED
      BY <3>1 DEF Contract!Next
  <2> QED
    BY <2>4, <2>5
<1>8. CASE Unlock(t)
  BY <1>8, ContractStutter DEF Unlock, Return, Settled, OpenGate
<1>9. CASE Destruct(t)
  BY <1>9, ContractStutter DEF Destruct, Settled, OpenGate
<1>10. CASE Reinstall(t)
  BY <1>10, ContractStutter DEF Reinstall, Settled, OpenGate
<1> QED
  BY <1>1, <1>2, <1>3, <1>4, <1>5, <1>6, <1>7, <1>8, <1>9, <1>10 DEF Member

(* The entity, with its locks, gate, reference counts and enable(),        *)
(* implements the promise made to the application (ListenerContract).      *)
THEOREM Implements == ASSUME WaitsForEnable PROVE Spec => KeepsContract
<1>1. QuietInv /\ [Next]_vars => [Contract!Next]_(Contract!vars)
  <2> SUFFICES ASSUME QuietInv, [Next]_vars
               PROVE  Contract!Next \/ UNCHANGED Contract!vars
    OBVIOUS
  <2>1. CASE UNCHANGED vars
    BY <2>1, ContractStutter DEF vars, Settled, OpenGate
  <2> QED
    BY <2>1, CallbackKeeps, OperationKeeps, MemberKeeps DEF Next, Finished
<1> QED
  BY <1>1, ContractInit, QuietInvInductive, PTL DEF Spec, KeepsContract, Contract!Spec

-----------------------------------------------------------------------------
(***************************************************************************)
(* Memory. It is safe if enable() is not called, or by the only thread the *)
(* application has: enable() holds no mutex between loading the            *)
(* ListenerArg and installing it, and a setter of another thread may       *)
(* delete it in between.                                                   *)
(***************************************************************************)
EnablesAlone ==
    /\ WaitsForEnable
    /\ "enable" \in CallerOps => \A t \in Callers, u \in Callers : t = u

(* Who executes a member has a reference, except that the delegate is      *)
(* destroyed when nobody has one; callback threads close only to destroy.  *)
MembersRefer ==
    /\ \A t \in Threads : op[t] = "destroy" \/ pc[t] = "dtor" => refs = {}
    /\ \A t \in Callers : pc[t] \notin {"idle", "dtor"} /\ op[t] # "destroy" => t \in refs
    /\ \A d \in Deliverers :
           /\ pc[d] \in Closing \cup {"gate", "gatewait"} => op[d] = "destroy"
           /\ pc[d] = "lock" => op[d] \in {"lock", "destroy"}

(* What enable() has loaded is still there when it is installed.           *)
EnableIsAlone ==
    \A t \in Threads : pc[t] = "reinstall" =>
        /\ "enable" \in CallerOps /\ t \in Callers
        /\ la[t] = stored
        /\ \A u \in Threads : pc[u] \notin Closing

(* The argument in listener_callbacks is allocated; so are the new one     *)
(* while a setter is at work, the one the C layer holds and the ones of    *)
(* the callbacks in progress. The last two are no longer the old one when  *)
(* the setter deletes it.                                                  *)
ArgsAlive ==
    /\ ~destroyed => stored \in live
    /\ \A t \in Threads : pc[t] \in {"install", "free"} => fresh \in live /\ fresh # stored
    /\ installed # NoArg => installed \in live
    /\ \A d \in Pending : la[d] \in live
    /\ \A t \in Threads : pc[t] = "free" =>
           installed # stored /\ \A d \in Pending : la[d] # stored

Aliveness == MembersRefer /\ EnableIsAlone /\ ArgsAlive

SafeInv == QuietInv /\ Aliveness

(* While the one caller is in enable(), nobody closes the entity or        *)
(* replaces its listener: a callback closes only to destroy.               *)
LEMMA NobodyCloses ==
    ASSUME EnablesAlone, SafeInv, "enable" \in CallerOps, NEW t \in Callers, t \in refs,
           NEW u \in Threads, u # t
    PROVE  /\ pc[u] \notin Closing \cup {"dtor", "reinstall"}
           /\ pc[u] = "lock" => op[u] = "lock"
<1>1. u \in Deliverers
  BY DEF EnablesAlone, Threads
<1>2. op[u] # "destroy" /\ pc[u] # "dtor"
  BY DEF SafeInv, Aliveness, MembersRefer
<1>3. pc[u] # "reinstall"
  BY <1>1, ThreadsAssumption DEF SafeInv, Aliveness, EnableIsAlone
<1> QED
  BY <1>1, <1>2, <1>3 DEF SafeInv, Aliveness, MembersRefer

LEMMA CallbackAlive ==
    ASSUME EnablesAlone, SafeInv, NEW d \in Deliverers, Invoke(d) \/ Callback(d)
    PROVE  Aliveness'
<1>0. /\ Typed /\ QuietBefore /\ CallbacksDoNotEnable
      /\ MutexOwned /\ ClosedIsQuiet /\ RunningIsPending /\ OldListenerQuiet
  BY DEF SafeInv, QuietInv, Quietness, GateInv
<1>000. MembersRefer /\ EnableIsAlone /\ ArgsAlive
  BY DEF SafeInv, Aliveness
<1>00. d \in Threads /\ Deliverers \cap Callers = {} /\ Deliverers \subseteq Threads
    /\ Callers \subseteq Threads /\ NoThread \notin Threads
    /\ NoListener \notin Listeners /\ NoArg \notin Args
  BY ThreadsAssumption, NullsAssumption DEF Threads
<1> USE <1>0, <1>00, <1>000 DEF Typed, gateVars, argVars, setting, life
<1>1. CASE Invoke(d)
  <2> USE <1>1 DEF Invoke
  <2>1. MembersRefer'
    BY DEF MembersRefer, CallbacksDoNotEnable, Closing, Holding, RunningIsPending
  <2>2. EnableIsAlone'
    BY DEF EnableIsAlone, EnablesAlone, MembersRefer, CallbacksDoNotEnable, Closing, Holding, MutexOwned
  <2>3. ArgsAlive'
    BY DEF ArgsAlive, EnableIsAlone, QuietBefore, ClosedIsQuiet, MutexOwned, Holding, Closing, Quiescent, Pending
  <2> QED
    BY <2>1, <2>2, <2>3 DEF Aliveness
<1>2. CASE Obtain(d)
  <2> USE <1>2 DEF Obtain
  <2>1. MembersRefer'
    BY DEF MembersRefer, CallbacksDoNotEnable, Closing, Holding, RunningIsPending
  <2>2. EnableIsAlone'
    BY DEF EnableIsAlone, EnablesAlone, MembersRefer, CallbacksDoNotEnable, Closing, Holding, MutexOwned
  <2>3. ArgsAlive'
    BY DEF ArgsAlive, EnableIsAlone, QuietBefore, ClosedIsQuiet, MutexOwned, Holding, Closing, Quiescent, Pending
  <2> QED
    BY <2>1, <2>2, <2>3 DEF Aliveness
<1>3. CASE Promote(d)
  <2> USE <1>3 DEF Promote
  <2>1. MembersRefer'
    <3>1. (\A u \in Threads : op[u] = "destroy" \/ pc[u] = "dtor" => refs = {})'
      BY DEF MembersRefer, RunningIsPending, Holding
    <3>2. (\A u \in Callers : pc[u] \notin {"idle", "dtor"} /\ op[u] # "destroy" => u \in refs)'
      <4> SUFFICES ASSUME NEW u \in Callers, pc'[u] \notin {"idle", "dtor"}, op'[u] # "destroy"
                   PROVE  u \in refs'
        OBVIOUS
      <4>1. CASE u = d
        BY <4>1 DEF MembersRefer, CallbacksDoNotEnable, RunningIsPending
      <4>2. CASE u # d
        <5>1. pc'[u] = pc[u] /\ op'[u] = op[u] /\ u \in Threads
          BY <4>2
        <5>2. u \in refs
          BY <5>1 DEF MembersRefer
        <5> QED
          BY <4>2, <5>2
      <4> QED
        BY <4>1, <4>2
    <3>3. (\A u \in Deliverers :
              /\ pc[u] \in Closing \cup {"gate", "gatewait"} => op[u] = "destroy"
              /\ pc[u] = "lock" => op[u] \in {"lock", "destroy"})'
      BY DEF MembersRefer, RunningIsPending, Closing
    <3> QED
      BY <3>1, <3>2, <3>3 DEF MembersRefer
  <2>2. EnableIsAlone'
    BY DEF EnableIsAlone, EnablesAlone, MembersRefer, CallbacksDoNotEnable, Closing, Holding, MutexOwned
  <2>3. ArgsAlive'
    BY DEF ArgsAlive, EnableIsAlone, QuietBefore, ClosedIsQuiet, MutexOwned, Holding, Closing, Quiescent, Pending
  <2> QED
    BY <2>1, <2>2, <2>3 DEF Aliveness
<1>4. CASE Fetch(d)
  <2> USE <1>4 DEF Fetch
  <2>1. MembersRefer'
    BY DEF MembersRefer, CallbacksDoNotEnable, Closing, Holding, RunningIsPending
  <2>2. EnableIsAlone'
    BY DEF EnableIsAlone, EnablesAlone, MembersRefer, CallbacksDoNotEnable, Closing, Holding, MutexOwned
  <2>3. ArgsAlive'
    BY DEF ArgsAlive, EnableIsAlone, QuietBefore, ClosedIsQuiet, MutexOwned, Holding, Closing, Quiescent, Pending
  <2> QED
    BY <2>1, <2>2, <2>3 DEF Aliveness
<1>5. CASE UserLock(d)
  <2> USE <1>5 DEF UserLock
  <2>1. MembersRefer'
    BY DEF MembersRefer, CallbacksDoNotEnable, Closing, Holding, RunningIsPending
  <2>2. EnableIsAlone'
    BY DEF EnableIsAlone, EnablesAlone, MembersRefer, CallbacksDoNotEnable, Closing, Holding, MutexOwned
  <2>3. ArgsAlive'
    BY DEF ArgsAlive, EnableIsAlone, QuietBefore, ClosedIsQuiet, MutexOwned, Holding, Closing, Quiescent, Pending
  <2> QED
    BY <2>1, <2>2, <2>3 DEF Aliveness
<1>6. CASE UserReturn(d)
  <2> USE <1>6 DEF UserReturn
  <2>1. MembersRefer'
    BY DEF MembersRefer, CallbacksDoNotEnable, Closing, Holding, RunningIsPending
  <2>2. EnableIsAlone'
    BY DEF EnableIsAlone, EnablesAlone, MembersRefer, CallbacksDoNotEnable, Closing, Holding, MutexOwned
  <2>3. ArgsAlive'
    BY DEF ArgsAlive, EnableIsAlone, QuietBefore, ClosedIsQuiet, MutexOwned, Holding, Closing, Quiescent, Pending
  <2> QED
    BY <2>1, <2>2, <2>3 DEF Aliveness
<1>7. CASE Unref(d)
  <2> USE <1>7 DEF Unref, Release, StartClose
  <2>1. MembersRefer'
    <3>1. (\A u \in Threads : op[u] = "destroy" \/ pc[u] = "dtor" => refs = {})'
      BY DEF MembersRefer, RunningIsPending, Holding
    <3>2. (\A u \in Callers : pc[u] \notin {"idle", "dtor"} /\ op[u] # "destroy" => u \in refs)'
      <4> SUFFICES ASSUME NEW u \in Callers, pc'[u] \notin {"idle", "dtor"}, op'[u] # "destroy"
                   PROVE  u \in refs'
        OBVIOUS
      <4>1. CASE u = d
        BY <4>1 DEF MembersRefer, CallbacksDoNotEnable, RunningIsPending
      <4>2. CASE u # d
        <5>1. pc'[u] = pc[u] /\ op'[u] = op[u] /\ u \in Threads
          BY <4>2
        <5>2. u \in refs
          BY <5>1 DEF MembersRefer
        <5> QED
          BY <4>2, <5>2
      <4> QED
        BY <4>1, <4>2
    <3>3. (\A u \in Deliverers :
              /\ pc[u] \in Closing \cup {"gate", "gatewait"} => op[u] = "destroy"
              /\ pc[u] = "lock" => op[u] \in {"lock", "destroy"})'
      BY DEF MembersRefer, RunningIsPending, Closing
    <3> QED
      BY <3>1, <3>2, <3>3 DEF MembersRefer
  <2>2. EnableIsAlone'
    BY DEF EnableIsAlone, EnablesAlone, MembersRefer, CallbacksDoNotEnable, Closing, Holding, MutexOwned
  <2>3. ArgsAlive'
    BY DEF ArgsAlive, EnableIsAlone, QuietBefore, ClosedIsQuiet, MutexOwned, Holding, Closing, Quiescent, Pending
  <2> QED
    BY <2>1, <2>2, <2>3 DEF Aliveness
<1>8. CASE Leave(d)
  <2> USE <1>8 DEF Leave
  <2>1. MembersRefer'
    BY DEF MembersRefer, CallbacksDoNotEnable, Closing, Holding, RunningIsPending
  <2>2. EnableIsAlone'
    BY DEF EnableIsAlone, EnablesAlone, MembersRefer, CallbacksDoNotEnable, Closing, Holding, MutexOwned
  <2>3. ArgsAlive'
    BY DEF ArgsAlive, EnableIsAlone, QuietBefore, ClosedIsQuiet, MutexOwned, Holding, Closing, Quiescent, Pending
  <2> QED
    BY <2>1, <2>2, <2>3 DEF Aliveness
<1>9. CASE Complete(d)
  <2> USE <1>9 DEF Complete
  <2>1. MembersRefer'
    BY DEF MembersRefer, CallbacksDoNotEnable, Closing, Holding, RunningIsPending
  <2>2. EnableIsAlone'
    BY DEF EnableIsAlone, EnablesAlone, MembersRefer, CallbacksDoNotEnable, Closing, Holding, MutexOwned
  <2>3. ArgsAlive'
    BY DEF ArgsAlive, EnableIsAlone, QuietBefore, ClosedIsQuiet, MutexOwned, Holding, Closing, Quiescent, Pending
  <2> QED
    BY <2>1, <2>2, <2>3 DEF Aliveness
<1> QED
  BY <1>1, <1>2, <1>3, <1>4, <1>5, <1>6, <1>7, <1>8, <1>9 DEF Callback

LEMMA OperationAlive ==
    ASSUME EnablesAlone, SafeInv, NEW t \in Callers, Operation(t)
    PROVE  Aliveness'
<1>0. /\ Typed /\ QuietBefore /\ CallbacksDoNotEnable
      /\ MutexOwned /\ ClosedIsQuiet /\ RunningIsPending /\ OldListenerQuiet
  BY DEF SafeInv, QuietInv, Quietness, GateInv
<1>000. MembersRefer /\ EnableIsAlone /\ ArgsAlive
  BY DEF SafeInv, Aliveness
<1>00. t \in Threads /\ t \notin Deliverers /\ Callers \subseteq Threads /\ Deliverers \subseteq Threads
    /\ NoThread \notin Threads
    /\ NoListener \notin Listeners /\ NoArg \notin Args
  BY ThreadsAssumption, NullsAssumption DEF Threads
<1> USE <1>0, <1>00, <1>000 DEF Typed, gateVars, argVars, setting, life
<1>1. CASE CallLock(t)
  <2> USE <1>1 DEF CallLock, Call, Ready
  <2>1. MembersRefer'
    BY DEF MembersRefer, CallbacksDoNotEnable, Closing, Holding, RunningIsPending
  <2>2. EnableIsAlone'
    BY DEF EnableIsAlone, EnablesAlone, MembersRefer, CallbacksDoNotEnable, Closing, Holding, MutexOwned
  <2>3. ArgsAlive'
    BY DEF ArgsAlive, EnableIsAlone, QuietBefore, ClosedIsQuiet, MutexOwned, Holding, Closing, Quiescent, Pending
  <2> QED
    BY <2>1, <2>2, <2>3 DEF Aliveness
<1>2. CASE CallListener(t)
  <2> USE <1>2 DEF CallListener, Call, Ready
  <2>1. MembersRefer'
    BY DEF MembersRefer, CallbacksDoNotEnable, Closing, Holding, RunningIsPending
  <2>2. EnableIsAlone'
    BY DEF EnableIsAlone, EnablesAlone, MembersRefer, CallbacksDoNotEnable, Closing, Holding, MutexOwned
  <2>3. ArgsAlive'
    BY DEF ArgsAlive, EnableIsAlone, QuietBefore, ClosedIsQuiet, MutexOwned, Holding, Closing, Quiescent, Pending
  <2> QED
    BY <2>1, <2>2, <2>3 DEF Aliveness
<1>3. CASE CallClose(t)
  <2> USE <1>3 DEF CallClose, Call, Ready, StartClose
  <2>1. MembersRefer'
    BY DEF MembersRefer, CallbacksDoNotEnable, Closing, Holding, RunningIsPending
  <2>2. EnableIsAlone'
    BY DEF EnableIsAlone, EnablesAlone, MembersRefer, CallbacksDoNotEnable, Closing, Holding, MutexOwned
  <2>3. ArgsAlive'
    BY DEF ArgsAlive, EnableIsAlone, QuietBefore, ClosedIsQuiet, MutexOwned, Holding, Closing, Quiescent, Pending
  <2> QED
    BY <2>1, <2>2, <2>3 DEF Aliveness
<1>4. CASE CallEnable(t)
  <2> USE <1>4 DEF CallEnable, Ready
  <2>1. MembersRefer'
    BY DEF MembersRefer, CallbacksDoNotEnable, Closing, Holding, RunningIsPending
  <2>2. EnableIsAlone'
    <3>1. "enable" \in CallerOps /\ t \in refs /\ pc[t] = "idle"
      OBVIOUS
    <3>2. \A u \in Threads \ {t} : pc[u] \notin Closing \cup {"reinstall"}
      BY <3>1, NobodyCloses
    <3>3. pc' = [pc EXCEPT ![t] = "reinstall"] /\ la' = [la EXCEPT ![t] = stored] /\ stored' = stored
      OBVIOUS
    <3> QED
      BY <3>1, <3>2, <3>3 DEF EnableIsAlone, Closing
  <2>3. ArgsAlive'
    BY DEF ArgsAlive, EnableIsAlone, QuietBefore, ClosedIsQuiet, MutexOwned, Holding, Closing, Quiescent, Pending
  <2> QED
    BY <2>1, <2>2, <2>3 DEF Aliveness
<1>5. CASE Drop(t)
  <2> USE <1>5 DEF Drop, Ready, Release, StartClose
  <2>1. MembersRefer'
    <3>1. (\A u \in Threads : op[u] = "destroy" \/ pc[u] = "dtor" => refs = {})'
      BY DEF MembersRefer, RunningIsPending, Holding
    <3>2. (\A u \in Callers : pc[u] \notin {"idle", "dtor"} /\ op[u] # "destroy" => u \in refs)'
      <4> SUFFICES ASSUME NEW u \in Callers, pc'[u] \notin {"idle", "dtor"}, op'[u] # "destroy"
                   PROVE  u \in refs'
        OBVIOUS
      <4>1. CASE u = t
        BY <4>1 DEF MembersRefer, CallbacksDoNotEnable, RunningIsPending
      <4>2. CASE u # t
        <5>1. pc'[u] = pc[u] /\ op'[u] = op[u] /\ u \in Threads
          BY <4>2
        <5>2. u \in refs
          BY <5>1 DEF MembersRefer
        <5> QED
          BY <4>2, <5>2
      <4> QED
        BY <4>1, <4>2
    <3>3. (\A u \in Deliverers :
              /\ pc[u] \in Closing \cup {"gate", "gatewait"} => op[u] = "destroy"
              /\ pc[u] = "lock" => op[u] \in {"lock", "destroy"})'
      BY DEF MembersRefer, RunningIsPending, Closing
    <3> QED
      BY <3>1, <3>2, <3>3 DEF MembersRefer
  <2>2. EnableIsAlone'
    BY DEF EnableIsAlone, EnablesAlone, MembersRefer, CallbacksDoNotEnable, Closing, Holding, MutexOwned
  <2>3. ArgsAlive'
    BY DEF ArgsAlive, EnableIsAlone, QuietBefore, ClosedIsQuiet, MutexOwned, Holding, Closing, Quiescent, Pending
  <2> QED
    BY <2>1, <2>2, <2>3 DEF Aliveness
<1> QED
  BY <1>1, <1>2, <1>3, <1>4, <1>5 DEF Operation

LEMMA MemberAlive ==
    ASSUME EnablesAlone, SafeInv, NEW t \in Threads, Member(t)
    PROVE  Aliveness'
<1>0. /\ Typed /\ QuietBefore /\ CallbacksDoNotEnable
      /\ MutexOwned /\ ClosedIsQuiet /\ RunningIsPending /\ OldListenerQuiet
  BY DEF SafeInv, QuietInv, Quietness, GateInv
<1>000. MembersRefer /\ EnableIsAlone /\ ArgsAlive
  BY DEF SafeInv, Aliveness
<1>00. Deliverers \cap Callers = {} /\ Deliverers \subseteq Threads
    /\ Callers \subseteq Threads /\ NoThread \notin Threads
    /\ NoListener \notin Listeners /\ NoArg \notin Args
  BY ThreadsAssumption, NullsAssumption DEF Threads
<1> USE <1>0, <1>00, <1>000 DEF Typed, gateVars, argVars, setting, life
<1>1. CASE GateWait(t)
  <2> USE <1>1 DEF GateWait, AtGate
  <2>1. MembersRefer'
    BY DEF MembersRefer, CallbacksDoNotEnable, Closing, Holding, RunningIsPending
  <2>2. EnableIsAlone'
    BY DEF EnableIsAlone, EnablesAlone, MembersRefer, CallbacksDoNotEnable, Closing, Holding, MutexOwned
  <2>3. ArgsAlive'
    BY DEF ArgsAlive, EnableIsAlone, QuietBefore, ClosedIsQuiet, MutexOwned, Holding, Closing, Quiescent, Pending
  <2> QED
    BY <2>1, <2>2, <2>3 DEF Aliveness
<1>2. CASE GateShut(t)
  <2> USE <1>2 DEF GateShut, AtGate
  <2>1. MembersRefer'
    BY DEF MembersRefer, CallbacksDoNotEnable, Closing, Holding, RunningIsPending
  <2>2. EnableIsAlone'
    BY DEF EnableIsAlone, EnablesAlone, MembersRefer, CallbacksDoNotEnable, Closing, Holding, MutexOwned
  <2>3. ArgsAlive'
    BY DEF ArgsAlive, EnableIsAlone, QuietBefore, ClosedIsQuiet, MutexOwned, Holding, Closing, Quiescent, Pending
  <2> QED
    BY <2>1, <2>2, <2>3 DEF Aliveness
<1>3. CASE Lock(t)
  <2> USE <1>3 DEF Lock, Return
  <2>1. MembersRefer'
    BY DEF MembersRefer, CallbacksDoNotEnable, Closing, Holding, RunningIsPending
  <2>2. EnableIsAlone'
    <3>1. CASE \A u \in Threads : pc[u] # "reinstall"
      BY <3>1 DEF EnableIsAlone
    <3>2. CASE \E u \in Threads : pc[u] = "reinstall"
      <4> PICK u \in Threads : pc[u] = "reinstall"
        BY <3>2
      <4>1. "enable" \in CallerOps /\ u \in Callers /\ u # t /\ la[u] = stored
            /\ \A v \in Threads : pc[v] \notin Closing
        BY DEF EnableIsAlone
      <4>2. op[u] # "destroy"
        BY DEF RunningIsPending, Holding
      <4>3. u \in refs
        BY <4>1, <4>2 DEF MembersRefer
      <4>4. op[t] = "lock"
        BY <4>1, <4>3, NobodyCloses
      <4>5. pc'[t] \notin Closing \cup {"reinstall"} /\ \A v \in Threads \ {t} : pc'[v] = pc[v]
        BY <4>4 DEF Closing
      <4> QED
        BY <4>1, <4>5 DEF EnableIsAlone
    <3> QED
      BY <3>1, <3>2
  <2>3. ArgsAlive'
    BY DEF ArgsAlive, EnableIsAlone, QuietBefore, ClosedIsQuiet, MutexOwned, Holding, Closing, Quiescent, Pending
  <2> QED
    BY <2>1, <2>2, <2>3 DEF Aliveness
<1>4. CASE Swapping(t)
  <2> USE <1>4 DEF Swapping, Swap
  <2>1. MembersRefer'
    BY DEF MembersRefer, CallbacksDoNotEnable, Closing, Holding, RunningIsPending
  <2>2. EnableIsAlone'
    BY DEF EnableIsAlone, EnablesAlone, MembersRefer, CallbacksDoNotEnable, Closing, Holding, MutexOwned
  <2>3. ArgsAlive'
    BY DEF ArgsAlive, EnableIsAlone, QuietBefore, ClosedIsQuiet, MutexOwned, Holding, Closing, Quiescent, Pending
  <2> QED
    BY <2>1, <2>2, <2>3 DEF Aliveness
<1>5. CASE Install(t)
  <2> USE <1>5 DEF Install, NeedsInstall
  <2>1. MembersRefer'
    BY DEF MembersRefer, CallbacksDoNotEnable, Closing, Holding, RunningIsPending
  <2>2. EnableIsAlone'
    BY DEF EnableIsAlone, EnablesAlone, MembersRefer, CallbacksDoNotEnable, Closing, Holding, MutexOwned
  <2>3. ArgsAlive'
    BY DEF ArgsAlive, EnableIsAlone, QuietBefore, ClosedIsQuiet, MutexOwned, Holding, Closing, Quiescent, Pending
  <2> QED
    BY <2>1, <2>2, <2>3 DEF Aliveness
<1>6. CASE Free(t)
  <2> USE <1>6 DEF Free
  <2>1. MembersRefer'
    BY DEF MembersRefer, CallbacksDoNotEnable, Closing, Holding, RunningIsPending
  <2>2. EnableIsAlone'
    BY DEF EnableIsAlone, EnablesAlone, MembersRefer, CallbacksDoNotEnable, Closing, Holding, MutexOwned
  <2>3. ArgsAlive'
    BY DEF ArgsAlive, EnableIsAlone, QuietBefore, ClosedIsQuiet, MutexOwned, Holding, Closing, Quiescent, Pending
  <2> QED
    BY <2>1, <2>2, <2>3 DEF Aliveness
<1>7. CASE Teardown(t)
  <2> USE <1>7 DEF Teardown
  <2>1. MembersRefer'
    BY DEF MembersRefer, CallbacksDoNotEnable, Closing, Holding, RunningIsPending
  <2>2. EnableIsAlone'
    BY DEF EnableIsAlone, EnablesAlone, MembersRefer, CallbacksDoNotEnable, Closing, Holding, MutexOwned
  <2>3. ArgsAlive'
    BY DEF ArgsAlive, EnableIsAlone, QuietBefore, ClosedIsQuiet, MutexOwned, Holding, Closing, Quiescent, Pending
  <2> QED
    BY <2>1, <2>2, <2>3 DEF Aliveness
<1>8. CASE Unlock(t)
  <2> USE <1>8 DEF Unlock, Return
  <2>1. MembersRefer'
    BY DEF MembersRefer, CallbacksDoNotEnable, Closing, Holding, RunningIsPending
  <2>2. EnableIsAlone'
    BY DEF EnableIsAlone, EnablesAlone, MembersRefer, CallbacksDoNotEnable, Closing, Holding, MutexOwned
  <2>3. ArgsAlive'
    BY DEF ArgsAlive, EnableIsAlone, QuietBefore, ClosedIsQuiet, MutexOwned, Holding, Closing, Quiescent, Pending
  <2> QED
    BY <2>1, <2>2, <2>3 DEF Aliveness
<1>9. CASE Destruct(t)
  <2> USE <1>9 DEF Destruct
  <2>1. MembersRefer'
    <3>1. (\A u \in Threads : op[u] = "destroy" \/ pc[u] = "dtor" => refs = {})'
      BY DEF MembersRefer, RunningIsPending, Holding
    <3>2. (\A u \in Callers : pc[u] \notin {"idle", "dtor"} /\ op[u] # "destroy" => u \in refs)'
      <4> SUFFICES ASSUME NEW u \in Callers, pc'[u] \notin {"idle", "dtor"}, op'[u] # "destroy"
                   PROVE  u \in refs'
        OBVIOUS
      <4>1. CASE u = t
        BY <4>1 DEF MembersRefer, CallbacksDoNotEnable, RunningIsPending
      <4>2. CASE u # t
        <5>1. pc'[u] = pc[u] /\ op'[u] = op[u] /\ u \in Threads
          BY <4>2
        <5>2. u \in refs
          BY <5>1 DEF MembersRefer
        <5> QED
          BY <4>2, <5>2
      <4> QED
        BY <4>1, <4>2
    <3>3. (\A u \in Deliverers :
              /\ pc[u] \in Closing \cup {"gate", "gatewait"} => op[u] = "destroy"
              /\ pc[u] = "lock" => op[u] \in {"lock", "destroy"})'
      BY DEF MembersRefer, RunningIsPending, Closing
    <3> QED
      BY <3>1, <3>2, <3>3 DEF MembersRefer
  <2>2. EnableIsAlone'
    <3>1. refs = {}
      BY DEF MembersRefer
    <3>2. \A u \in Threads : pc[u] # "reinstall"
      BY <3>1 DEF MembersRefer, EnableIsAlone, RunningIsPending, Holding
    <3> QED
      BY <3>2 DEF EnableIsAlone
  <2>3. ArgsAlive'
    BY DEF ArgsAlive, EnableIsAlone, QuietBefore, ClosedIsQuiet, MutexOwned, Holding, Closing, Quiescent, Pending
  <2> QED
    BY <2>1, <2>2, <2>3 DEF Aliveness
<1>10. CASE Reinstall(t)
  <2> USE <1>10 DEF Reinstall
  <2>1. MembersRefer'
    BY DEF MembersRefer, CallbacksDoNotEnable, Closing, Holding, RunningIsPending
  <2>2. EnableIsAlone'
    BY DEF EnableIsAlone, EnablesAlone, MembersRefer, CallbacksDoNotEnable, Closing, Holding, MutexOwned
  <2>3. ArgsAlive'
    BY DEF ArgsAlive, EnableIsAlone, QuietBefore, ClosedIsQuiet, MutexOwned, Holding, Closing, Quiescent, Pending
  <2> QED
    BY <2>1, <2>2, <2>3 DEF Aliveness
<1> QED
  BY <1>1, <1>2, <1>3, <1>4, <1>5, <1>6, <1>7, <1>8, <1>9, <1>10 DEF Member

LEMMA SafeInvInductive ==
    ASSUME EnablesAlone
    PROVE  /\ Init => SafeInv
           /\ SafeInv /\ [Next]_vars => SafeInv'
<1>1. ASSUME Init PROVE SafeInv
  <2>1. QuietInv
    BY <1>1, QuietInvInductive DEF EnablesAlone
  <2>2. MembersRefer /\ EnableIsAlone
    BY <1>1, ThreadsAssumption DEF Init, MembersRefer, EnableIsAlone, Closing, Threads
  <2>3. ArgsAlive
    BY <1>1 DEF Init, ArgsAlive, Pending, Threads
  <2> QED
    BY <2>1, <2>2, <2>3 DEF SafeInv, Aliveness
<1>2. ASSUME SafeInv, [Next]_vars PROVE SafeInv'
  <2>1. QuietInv'
    BY <1>2, QuietInvInductive DEF SafeInv
  <2>2. Aliveness'
    <3>1. CASE UNCHANGED vars
      BY <1>2, <3>1
      DEF vars, SafeInv, Aliveness, MembersRefer, EnableIsAlone, ArgsAlive, Pending
    <3>2. CASE Next
      BY <1>2, <3>1, <3>2, CallbackAlive, OperationAlive, MemberAlive DEF Next, Finished
    <3> QED
      BY <1>2, <3>1, <3>2
  <2> QED
    BY <2>1, <2>2 DEF SafeInv
<1> QED
  BY <1>1, <1>2

-----------------------------------------------------------------------------
(* No setter, close() or destructor releases the delegate or a ListenerArg *)
(* a callback thread is going to use, as long as no other application      *)
(* thread runs beside one that calls enable().                             *)
THEOREM MemoryIsSafe == ASSUME EnablesAlone PROVE Spec => []MemorySafe
<1>1. SafeInv => MemorySafe
  BY DEF SafeInv, Aliveness, QuietInv, Quietness, MemorySafe, ArgsAlive, ClosedIsQuiet, Quiescent
<1> QED
  BY <1>1, SafeInvInductive, PTL DEF Spec

(* The C layer never keeps a pointer to a deleted ListenerArg, under the   *)
(* same condition.                                                         *)
THEOREM InstalledStaysLive == ASSUME EnablesAlone PROVE Spec => []InstalledIsLive
<1>1. SafeInv => InstalledIsLive
  BY DEF SafeInv, Aliveness, QuietInv, Quietness, InstalledIsLive, ArgsAlive, ClosedIsQuiet
<1> QED
  BY <1>1, SafeInvInductive, PTL DEF Spec

-----------------------------------------------------------------------------
(***************************************************************************)
(* The filters of filtered topics.                                         *)
(*                                                                         *)
(* A reader is filtered by the functor of its view because the C topic it  *)
(* was created on belongs to that view (TopicsAreOwn), was complete when   *)
(* its constructor got it (CompleteWhenQuiet), and gets no other functor   *)
(* as long as the reader is quiet (ReaderFiltered). That the functor still *)
(* exists rests on who refers to the view (CallsRefer) and on every view   *)
(* having a functor of its own (FunctorsAreOwn).                           *)
(***************************************************************************)
Setting(t) == filterCall[t].op \in {"publish", "install"}
Constructing(t) == filterCall[t].op \in {"topic", "create"}

(* C topics and functors are numbered in the order they are made.          *)
Numbered ==
    /\ \E n \in 1 .. MaxTopics : DOMAIN filter = 1 .. n
    /\ \E m \in 0 .. MaxFunctors : born = 1 .. m
    /\ filter[OriginalTopic] = 0
    /\ \A v \in Views : cTopic[v] \in DOMAIN filter \cup {0} /\ myFunctor[v] \in born \cup {0}
    /\ \A r \in ViewReaders : readOn[r] \in DOMAIN filter \cup {0}
    /\ \A t \in FilterUsers : filterCall[t].topic \in DOMAIN filter \cup {0}

(* What each call is about, and what it holds on to.                       *)
CallsRefer ==
    /\ \A t \in FilterUsers : filterCall[t].op = "none" => filterCall[t] = Idle
    /\ \A t \in FilterUsers : Setting(t) =>
          /\ filterCall[t].on \in Views
          /\ "app" \in viewRefs[filterCall[t].on]
          /\ filterCall[t].topic \in DOMAIN filter \ {OriginalTopic}
          /\ filterCall[t].reader = NoUser
    /\ \A t \in FilterUsers : Constructing(t) =>
          /\ filterCall[t].reader \in ViewReaders
          /\ filterCall[t].on \in Views \cup {Original}
          /\ td[filterCall[t].reader] = filterCall[t].on
          /\ readOn[filterCall[t].reader] = 0
          /\ filterCall[t].op = "create" /\ filterCall[t].on = Original =>
                filterCall[t].topic = OriginalTopic
    /\ \A t \in FilterUsers : filterCall[t].op = "delete" =>
          /\ filterCall[t].reader \in ViewReaders
          /\ td[filterCall[t].reader] = NoUser
          /\ readOn[filterCall[t].reader] # 0
    /\ \A t, u \in FilterUsers :
          filterCall[t].reader = filterCall[u].reader /\ filterCall[t].reader # NoUser => t = u
    /\ \A v \in Views : (viewFate[v] = "gone") = (viewRefs[v] = {})
    /\ \A r \in ViewReaders : td[r] \in Views => r \in viewRefs[td[r]]
    /\ \A r \in quiet : td[r] # NoUser
    /\ \A r \in ViewReaders : td[r] = Original => readOn[r] \in {0, OriginalTopic}

(* A view that exists has its functor to itself, and no functor outlives   *)
(* its view.                                                               *)
FunctorsAreOwn ==
    /\ \A v, w \in Views : myFunctor[v] = myFunctor[w] /\ myFunctor[v] # 0 => v = w
    /\ \A v \in Views : myFunctor[v] # 0 => viewFate[v] # "gone" /\ myFunctor[v] \in functors
    /\ \A f \in functors : \E v \in Views : myFunctor[v] = f

(* A private C topic whose filter is still to be set belongs to one call,  *)
(* and no other view and none of its readers has it.                       *)
TopicsAreOwn ==
    /\ \A t, u \in FilterUsers :
          Setting(t) /\ Setting(u) /\ filterCall[t].topic = filterCall[u].topic => t = u
    /\ \A t \in FilterUsers : Setting(t) =>
          /\ \A v \in Views \ {filterCall[t].on} : cTopic[v] # filterCall[t].topic
          /\ \A r \in ViewReaders : td[r] # NoUser /\ readOn[r] = filterCall[t].topic =>
                td[r] = filterCall[t].on
          /\ \A u \in FilterUsers :
                filterCall[u].op = "create" /\ filterCall[u].topic = filterCall[t].topic =>
                    filterCall[u].on = filterCall[t].on

(* The last filter_function() of a view was alone, and has set the filter  *)
(* of the C topic that the view has now.                                   *)
FilterSet(v) ==
    \/ cTopic[v] = 0
    \/ myFunctor[v] # 0 /\ filter[cTopic[v]] = myFunctor[v]

CompleteWhenQuiet ==
    \A v \in Views \ overlapped :
        /\ \A t, u \in SettingFilter(v) : t = u
        /\ \A t \in SettingFilter(v) :
              filterCall[t].op = "install" => cTopic[v] = filterCall[t].topic
        /\ viewFate[v] = "open" /\ SettingFilter(v) = {} => FilterSet(v)

Filtered(k, v) == myFunctor[v] # 0 /\ filter[k] = myFunctor[v]

ReaderFiltered ==
    /\ \A r \in quiet : td[r] \in Views =>
          /\ SettingFilter(td[r]) = {} /\ td[r] \notin overlapped
          /\ readOn[r] # 0 => Filtered(readOn[r], td[r])
    /\ \A t \in FilterUsers :
          /\ filterCall[t].op = "create" /\ filterCall[t].reader \in quiet
          /\ filterCall[t].on \in Views /\ filterCall[t].topic # 0
          => Filtered(filterCall[t].topic, filterCall[t].on)

FilterInv ==
    /\ FilterTypeOK /\ Numbered /\ CallsRefer /\ FunctorsAreOwn /\ TopicsAreOwn
    /\ CompleteWhenQuiet /\ ReaderFiltered

-----------------------------------------------------------------------------
(* The next C topic and the next functor have numbers that are not taken.  *)
LEMMA NextTopic ==
    ASSUME Numbered
    PROVE  /\ Cardinality(DOMAIN filter) \in 1 .. MaxTopics
           /\ DOMAIN filter = 1 .. Cardinality(DOMAIN filter)
<1>1. PICK n \in 1 .. MaxTopics : DOMAIN filter = 1 .. n
  BY DEF Numbered
<1>2. n \in Nat /\ n >= 1
  BY <1>1, FilterAssumption
<1>3. Cardinality(1 .. n) = n
  BY <1>2, FS_Interval
<1> QED
  BY <1>1, <1>3

LEMMA NextFunctor ==
    ASSUME Numbered
    PROVE  /\ Cardinality(born) \in 0 .. MaxFunctors
           /\ born = 1 .. Cardinality(born)
<1>1. PICK m \in 0 .. MaxFunctors : born = 1 .. m
  BY DEF Numbered
<1>2. m \in Nat
  BY <1>1, FilterAssumption
<1>3. Cardinality(1 .. m) = m
  BY <1>2, FS_Interval
<1> QED
  BY <1>1, <1>3

-----------------------------------------------------------------------------
(* What it means that a reference to a view goes.                          *)
LEMMA Forsaken ==
    ASSUME FilterTypeOK, CallsRefer, FunctorsAreOwn, NEW v \in Views, NEW h \in viewRefs[v],
           Forsake(v, h)
    PROVE  /\ viewFate' \in [Views -> {"open", "closed", "gone"}]
           /\ viewRefs' \in [Views -> SUBSET (ViewReaders \cup {"app"})]
           /\ myFunctor' \in [Views -> 0 .. MaxFunctors]
           /\ functors' \subseteq functors
           /\ \A w \in Views :
                 /\ viewRefs'[w] = IF w = v THEN viewRefs[w] \ {h} ELSE viewRefs[w]
                 /\ viewFate'[w] = IF viewRefs'[w] = {} THEN "gone" ELSE viewFate[w]
                 /\ myFunctor'[w] = IF viewRefs'[w] = {} THEN 0 ELSE myFunctor[w]
           /\ FunctorsAreOwn'
<1> USE FilterAssumption DEF FilterTypeOK, Forsake
<1>1. /\ viewFate' \in [Views -> {"open", "closed", "gone"}]
      /\ viewRefs' \in [Views -> SUBSET (ViewReaders \cup {"app"})]
      /\ myFunctor' \in [Views -> 0 .. MaxFunctors]
      /\ functors' \subseteq functors
  OBVIOUS
<1>2. \A w \in Views : myFunctor[w] # 0 => viewRefs[w] # {}
  BY DEF CallsRefer, FunctorsAreOwn
<1>3. \A w \in Views :
         /\ viewRefs'[w] = IF w = v THEN viewRefs[w] \ {h} ELSE viewRefs[w]
         /\ viewFate'[w] = IF viewRefs'[w] = {} THEN "gone" ELSE viewFate[w]
         /\ myFunctor'[w] = IF viewRefs'[w] = {} THEN 0 ELSE myFunctor[w]
  <2> SUFFICES ASSUME NEW w \in Views
               PROVE  /\ viewRefs'[w] = IF w = v THEN viewRefs[w] \ {h} ELSE viewRefs[w]
                      /\ viewFate'[w] = IF viewRefs'[w] = {} THEN "gone" ELSE viewFate[w]
                      /\ myFunctor'[w] = IF viewRefs'[w] = {} THEN 0 ELSE myFunctor[w]
    OBVIOUS
  <2>1. CASE w # v
    BY <2>1, <1>2 DEF CallsRefer
  <2>2. CASE w = v
    BY <2>2 DEF CallsRefer
  <2> QED
    BY <2>1, <2>2
<1>4. FunctorsAreOwn'
  <2>1. CASE viewRefs[v] = {h}
    BY <2>1, <1>3 DEF FunctorsAreOwn
  <2>2. CASE viewRefs[v] # {h}
    BY <2>2, <1>3 DEF FunctorsAreOwn, CallsRefer
  <2> QED
    BY <2>1, <2>2
<1> QED
  BY <1>1, <1>3, <1>4

LEMMA TopicForsaken ==
    ASSUME FilterTypeOK, CallsRefer, FunctorsAreOwn, NEW r \in ViewReaders, td[r] # NoUser,
           ForsakeTopic(r)
    PROVE  /\ viewFate' \in [Views -> {"open", "closed", "gone"}]
           /\ viewRefs' \in [Views -> SUBSET (ViewReaders \cup {"app"})]
           /\ myFunctor' \in [Views -> 0 .. MaxFunctors]
           /\ functors' \subseteq functors
           /\ td' = [td EXCEPT ![r] = NoUser]
           /\ quiet' = quiet \ {r}
           /\ \A w \in Views :
                 /\ viewRefs'[w] = IF w = td[r] THEN viewRefs[w] \ {r} ELSE viewRefs[w]
                 /\ viewFate'[w] = IF viewRefs'[w] = {} THEN "gone" ELSE viewFate[w]
                 /\ myFunctor'[w] = IF viewRefs'[w] = {} THEN 0 ELSE myFunctor[w]
           /\ FunctorsAreOwn'
<1>1. CASE td[r] = Original
  <2>1. /\ UNCHANGED <<viewRefs, viewFate, functors, myFunctor>>
        /\ td' = [td EXCEPT ![r] = NoUser] /\ quiet' = quiet \ {r}
    BY <1>1 DEF ForsakeTopic
  <2>2. \A w \in Views : myFunctor[w] # 0 => viewRefs[w] # {}
    BY DEF CallsRefer, FunctorsAreOwn
  <2>3. \A w \in Views : /\ viewRefs[w] = {} => viewFate[w] = "gone" /\ myFunctor[w] = 0
                         /\ w # td[r]
    BY <1>1, <2>2, FilterAssumption DEF CallsRefer, FilterTypeOK
  <2>4. FunctorsAreOwn'
    BY <2>1 DEF FunctorsAreOwn
  <2> QED
    BY <2>1, <2>3, <2>4 DEF FilterTypeOK
<1>2. CASE td[r] # Original
  <2>1. td[r] \in Views /\ r \in viewRefs[td[r]]
    BY <1>2 DEF FilterTypeOK, CallsRefer
  <2>2. Forsake(td[r], r) /\ td' = [td EXCEPT ![r] = NoUser] /\ quiet' = quiet \ {r}
    BY <1>2 DEF ForsakeTopic
  <2> QED
    BY <2>1, <2>2, Forsaken
<1> QED
  BY <1>1, <1>2

LEMMA FilterInvInit == FilterInit => FilterInv
<1> SUFFICES ASSUME FilterInit PROVE FilterInv
  OBVIOUS
<1> USE FilterAssumption DEF FilterInit
<1>1. FilterTypeOK
  BY DEF FilterTypeOK, FilterCalls, OriginalTopic, Idle, CallOn
<1>2. Numbered
  <2>1. DOMAIN filter = 1 .. 1 /\ 1 \in 1 .. MaxTopics
    BY DEF OriginalTopic
  <2>2. born = 1 .. 0 /\ 0 \in 0 .. MaxFunctors
    OBVIOUS
  <2> QED
    BY <2>1 DEF Numbered, OriginalTopic, Idle, CallOn
<1>3. CallsRefer
  BY DEF CallsRefer, Idle, CallOn, Setting, Constructing
<1>4. FunctorsAreOwn
  BY DEF FunctorsAreOwn
<1>5. TopicsAreOwn
  BY DEF TopicsAreOwn, Idle, CallOn, Setting
<1>6. CompleteWhenQuiet
  BY DEF CompleteWhenQuiet, FilterSet, SettingFilter, Idle, CallOn
<1>7. ReaderFiltered
  BY DEF ReaderFiltered, Idle, CallOn
<1> QED
  BY <1>1, <1>2, <1>3, <1>4, <1>5, <1>6, <1>7 DEF FilterInv

-----------------------------------------------------------------------------
LEMMA FilterFunctionStep ==
    ASSUME FilterInv, NEW t \in FilterUsers, NEW v \in Views, FilterFunction(t, v)
    PROVE  FilterInv'
<1> DEFINE k == Cardinality(DOMAIN filter) + 1
           c == CallOn("publish", v, k, NoUser)
<1> USE FilterAssumption DEF FilterInv, OriginalTopic
<1>1. k \in 2 .. MaxTopics /\ k \notin DOMAIN filter /\ DOMAIN filter = 1 .. k - 1
  BY NextTopic DEF FilterFunction
<1>2. /\ c \in FilterCalls /\ c.op = "publish" /\ c.on = v
      /\ c.topic = k /\ c.reader = NoUser
  <2>2. k \in 0 .. MaxTopics
    BY <1>1
  <2> QED
    BY <2>2 DEF FilterCalls, CallOn
<1>3. /\ filterCall[t] = Idle /\ filterCall' \in [FilterUsers -> FilterCalls]
      /\ \A u \in FilterUsers : filterCall'[u] = IF u = t THEN c ELSE filterCall[u]
  BY <1>2 DEF FilterFunction, Starts, FilterTypeOK
<1>4. /\ DOMAIN filter' = 1 .. k /\ DOMAIN filter' = DOMAIN filter \cup {k}
      /\ filter'[k] = 0 /\ \A x \in DOMAIN filter : filter'[x] = filter[x]
  <2>1. filter' = [x \in DOMAIN filter \cup {k} |-> IF x = k THEN 0 ELSE filter[x]]
    BY DEF FilterFunction
  <2>2. DOMAIN filter \cup {k} = 1 .. k
    BY <1>1
  <2> QED
    BY <1>1, <2>1, <2>2
<1>5. /\ "app" \in viewRefs[v]
      /\ overlapped' = IF SettingFilter(v) = {} THEN overlapped \ {v} ELSE overlapped \cup {v}
      /\ quiet' = {r \in quiet : td[r] # v}
      /\ UNCHANGED <<viewFate, viewRefs, cTopic, myFunctor, functors, born, readOn, td>>
  BY DEF FilterFunction, Usable
<1>13. /\ k \in 1 .. MaxTopics /\ k # 0 /\ k # 1 /\ 1 \in DOMAIN filter
      /\ \A w \in Views : cTopic[w] # k
      /\ \A r \in ViewReaders : readOn[r] # k
      /\ \A u \in FilterUsers : filterCall[u].topic # k
  BY <1>1 DEF Numbered
<1>14. Idle.op = "none" /\ Idle.reader = NoUser
  BY DEF Idle, CallOn
<1> HIDE DEF c, k
<1>6. FilterTypeOK'
  <2>1. DOMAIN filter' \subseteq 1 .. MaxTopics
    BY <1>4, <1>13 DEF FilterTypeOK
  <2>2. \A x \in DOMAIN filter' : filter'[x] \in born \cup {0}
    BY <1>4 DEF FilterTypeOK
  <2> QED
    BY <1>3, <1>5, <2>1, <2>2 DEF FilterTypeOK
<1>7. Numbered'
  <2>1. \A u \in FilterUsers : filterCall'[u].topic \in DOMAIN filter' \cup {0}
    BY <1>2, <1>3, <1>4 DEF Numbered
  <2> QED
    BY <1>4, <1>5, <1>13, <2>1 DEF Numbered
<1>8. CallsRefer'
  BY <1>1, <1>2, <1>3, <1>4, <1>5 DEF CallsRefer, Setting, Constructing, Idle, CallOn
<1>9. FunctorsAreOwn'
  BY <1>5 DEF FunctorsAreOwn
<1>10. TopicsAreOwn'
  <2>1. \A a \in FilterUsers : a # t => filterCall'[a] = filterCall[a] /\ Setting(a)' = Setting(a)
    BY <1>3 DEF Setting
  <2>2. filterCall'[t].op = "publish" /\ filterCall'[t].on = v /\ filterCall'[t].topic = k
    BY <1>2, <1>3
  <2>5. \A a \in FilterUsers : a # t => filterCall'[a].topic # k
    <3> SUFFICES ASSUME NEW a \in FilterUsers, a # t PROVE filterCall'[a].topic # k
      OBVIOUS
    <3>1. filterCall'[a] = filterCall[a]
      BY <2>1
    <3>2. filterCall[a].topic \in DOMAIN filter \cup {0} /\ k \notin DOMAIN filter \cup {0}
      BY <1>1 DEF Numbered
    <3> QED
      BY <3>1, <3>2
  <2>3. \A a, b \in FilterUsers :
           (Setting(a) /\ Setting(b) /\ filterCall[a].topic = filterCall[b].topic)' => a = b
    BY <2>1, <2>2, <2>5 DEF TopicsAreOwn
  <2>4. ASSUME NEW a \in FilterUsers, Setting(a)'
        PROVE  (/\ \A w \in Views \ {filterCall[a].on} : cTopic[w] # filterCall[a].topic
                /\ \A r \in ViewReaders : td[r] # NoUser /\ readOn[r] = filterCall[a].topic =>
                      td[r] = filterCall[a].on
                /\ \A u \in FilterUsers :
                      filterCall[u].op = "create" /\ filterCall[u].topic = filterCall[a].topic =>
                          filterCall[u].on = filterCall[a].on)'
    <3>1. CASE a = t
      BY <1>5, <1>13, <2>2, <2>5, <3>1
    <3>2. CASE a # t
      BY <1>2, <1>5, <2>1, <2>2, <2>4, <3>2 DEF TopicsAreOwn
    <3> QED
      BY <3>1, <3>2
  <2> QED
    BY <2>3, <2>4 DEF TopicsAreOwn
<1>15. \A w \in Views : SettingFilter(w)' = IF w = v THEN SettingFilter(w) \cup {t}
                                             ELSE SettingFilter(w)
  BY <1>2, <1>3, <1>14 DEF SettingFilter
<1>11. CompleteWhenQuiet'
  <2> SUFFICES ASSUME NEW w \in Views, w \notin overlapped'
               PROVE  /\ \A a, b \in SettingFilter(w)' : a = b
                      /\ \A a \in SettingFilter(w)' :
                            filterCall'[a].op = "install" => cTopic'[w] = filterCall'[a].topic
                      /\ viewFate'[w] = "open" /\ SettingFilter(w)' = {} => FilterSet(w)'
    BY DEF CompleteWhenQuiet
  <2>1. CASE w # v
    <3>1. w \notin overlapped /\ SettingFilter(w)' = SettingFilter(w)
      BY <1>5, <1>15, <2>1
    <3>2. \A a \in SettingFilter(w) : a \in FilterUsers /\ filterCall'[a] = filterCall[a]
      BY <1>3, <1>14 DEF SettingFilter
    <3>3. FilterSet(w) => FilterSet(w)'
      BY <1>4, <1>5 DEF FilterSet, Numbered
    <3> QED
      BY <1>5, <3>1, <3>2, <3>3 DEF CompleteWhenQuiet
  <2>2. CASE w = v
    BY <1>2, <1>3, <1>5, <1>15, <2>2
  <2> QED
    BY <2>1, <2>2
<1>12. ReaderFiltered'
  <2>1. ASSUME NEW r \in quiet', td[r] \in Views
        PROVE  (/\ SettingFilter(td[r]) = {} /\ td[r] \notin overlapped
                /\ readOn[r] # 0 => Filtered(readOn[r], td[r]))'
    <3>1. r \in quiet /\ r \in ViewReaders /\ td[r] # v
      BY <1>5, <2>1 DEF FilterTypeOK
    <3>2. SettingFilter(td[r]) = {} /\ td[r] \notin overlapped
          /\ (readOn[r] # 0 => Filtered(readOn[r], td[r]))
      BY <2>1, <3>1 DEF ReaderFiltered
    <3> QED
      BY <1>4, <1>5, <1>15, <2>1, <3>1, <3>2 DEF Filtered, Numbered
  <2>2. ASSUME NEW u \in FilterUsers, filterCall'[u].op = "create",
               filterCall'[u].reader \in quiet', filterCall'[u].on \in Views,
               filterCall'[u].topic # 0
        PROVE  Filtered(filterCall[u].topic, filterCall[u].on)'
    <3>1. filterCall'[u] = filterCall[u] /\ filterCall[u].reader \in quiet
      BY <1>2, <1>3, <1>5, <2>2
    <3>2. Filtered(filterCall[u].topic, filterCall[u].on)
      BY <2>2, <3>1 DEF ReaderFiltered
    <3> QED
      BY <1>4, <1>5, <2>2, <3>1, <3>2 DEF Filtered, Numbered
  <2> QED
    BY <1>5, <2>1, <2>2 DEF ReaderFiltered
<1> QED
  BY <1>6, <1>7, <1>8, <1>9, <1>10, <1>11, <1>12

LEMMA PublishTopicStep ==
    ASSUME FilterInv, NEW t \in FilterUsers, PublishTopic(t)
    PROVE  FilterInv'
<1> DEFINE v == filterCall[t].on
           k == filterCall[t].topic
           c == IF viewFate[v] = "closed" THEN Idle ELSE [filterCall[t] EXCEPT !.op = "install"]
<1> USE FilterAssumption DEF FilterInv, OriginalTopic
<1>1. /\ filterCall[t] \in FilterCalls /\ filterCall[t].op = "publish"
      /\ v \in Views /\ "app" \in viewRefs[v]
      /\ k \in DOMAIN filter \ {1}
  BY DEF PublishTopic, In, FilterTypeOK, CallsRefer, Setting
<1>2. /\ c \in FilterCalls
      /\ viewFate[v] = "closed" => c = Idle
      /\ viewFate[v] # "closed" =>
            c.op = "install" /\ c.on = v /\ c.topic = k /\ c.reader = filterCall[t].reader
  BY <1>1 DEF Idle, CallOn, FilterCalls
<1>3. /\ filterCall' \in [FilterUsers -> FilterCalls]
      /\ \A u \in FilterUsers : filterCall'[u] = IF u = t THEN c ELSE filterCall[u]
  BY <1>2 DEF PublishTopic, Ends, FilterTypeOK
<1>4. /\ cTopic' \in [Views -> 0 .. MaxTopics]
      /\ \A w \in Views : cTopic'[w] = IF w = v /\ viewFate[v] # "closed" THEN k ELSE cTopic[w]
  BY <1>1 DEF PublishTopic, FilterTypeOK, FilterCalls
<1>5. UNCHANGED <<viewFate, viewRefs, filter, myFunctor, functors, born, readOn, td,
                  overlapped, quiet>>
  BY DEF PublishTopic
<1> HIDE DEF c, k, v
<1>6. FilterTypeOK'
  BY <1>3, <1>4, <1>5 DEF FilterTypeOK
<1>7. Numbered'
  <2>1. c.topic \in DOMAIN filter \cup {0}
    BY <1>1, <1>2 DEF Idle, CallOn
  <2>2. \A u \in FilterUsers : filterCall'[u].topic \in DOMAIN filter \cup {0}
    BY <1>3, <2>1 DEF Numbered
  <2>3. \A w \in Views : cTopic'[w] \in DOMAIN filter \cup {0}
    BY <1>1, <1>4 DEF Numbered
  <2> QED
    BY <1>5, <2>2, <2>3 DEF Numbered
<1>8. CallsRefer'
  BY <1>1, <1>2, <1>3, <1>5 DEF CallsRefer, Setting, Constructing, Idle, CallOn, v, k
<1>9. FunctorsAreOwn'
  BY <1>5 DEF FunctorsAreOwn
<1>10. TopicsAreOwn'
  BY <1>1, <1>2, <1>3, <1>4, <1>5 DEF TopicsAreOwn, Setting, Idle, CallOn, v, k
<1>11. CompleteWhenQuiet'
  BY <1>1, <1>2, <1>3, <1>4, <1>5 DEF CompleteWhenQuiet, FilterSet, SettingFilter, Idle, CallOn, v, k
<1>12. ReaderFiltered'
  BY <1>1, <1>2, <1>3, <1>5 DEF ReaderFiltered, SettingFilter, Filtered, Idle, CallOn, v
<1> QED
  BY <1>6, <1>7, <1>8, <1>9, <1>10, <1>11, <1>12

LEMMA InstallFilterStep ==
    ASSUME FilterInv, NEW t \in FilterUsers, InstallFilter(t)
    PROVE  FilterInv'
<1> DEFINE v == filterCall[t].on
           k == filterCall[t].topic
           f == Cardinality(born) + 1
           mf(w) == IF w = v /\ viewFate[v] # "closed" THEN f ELSE myFunctor[w]
           fl(x) == IF x = k /\ viewFate[v] # "closed" THEN f ELSE filter[x]
<1> USE FilterAssumption DEF FilterInv, OriginalTopic
<1>1. /\ filterCall[t] \in FilterCalls /\ filterCall[t].op = "install"
      /\ v \in Views /\ "app" \in viewRefs[v]
      /\ k \in DOMAIN filter \ {1}
  BY DEF InstallFilter, In, FilterTypeOK, CallsRefer, Setting
<1>2. /\ filterCall' \in [FilterUsers -> FilterCalls]
      /\ \A u \in FilterUsers : filterCall'[u] = IF u = t THEN Idle ELSE filterCall[u]
  BY DEF InstallFilter, Ends, FilterTypeOK, Idle, CallOn, FilterCalls
<1>3. /\ f \notin born /\ f # 0
      /\ born' = IF viewFate[v] = "closed" THEN born ELSE born \cup {f}
      /\ \E m \in 0 .. MaxFunctors : born' = 1 .. m
  <2>1. Cardinality(born) \in 0 .. MaxFunctors /\ born = 1 .. Cardinality(born)
    BY NextFunctor
  <2>2. CASE viewFate[v] = "closed"
    BY <2>1, <2>2 DEF InstallFilter
  <2>3. CASE viewFate[v] # "closed"
    <3>1. f <= MaxFunctors /\ born' = born \cup {f}
      BY <2>3 DEF InstallFilter
    <3>2. born \cup {f} = 1 .. f
      BY <2>1
    <3> QED
      BY <2>1, <2>3, <3>1, <3>2
  <2> QED
    BY <2>2, <2>3
<1>4. /\ DOMAIN filter' = DOMAIN filter
      /\ \A x \in DOMAIN filter : filter'[x] = fl(x)
  BY <1>1 DEF InstallFilter
<1>5. /\ \A w \in Views : myFunctor'[w] = mf(w)
      /\ functors' = IF viewFate[v] = "closed" THEN functors
                     ELSE (functors \ {myFunctor[v]}) \cup {f}
      /\ DOMAIN myFunctor' = Views
      /\ myFunctor' = [w \in Views |-> myFunctor'[w]]
  BY <1>1 DEF InstallFilter, FilterTypeOK
<1>6. UNCHANGED <<viewFate, viewRefs, cTopic, readOn, td, overlapped, quiet>>
  BY DEF InstallFilter
<1>7. \A w \in Views : myFunctor[w] # f
  BY <1>3 DEF Numbered
<1> HIDE DEF k, v, f
<1>8. Numbered'
  <2>1. \A w \in Views : myFunctor'[w] \in born' \cup {0}
    BY <1>3, <1>5 DEF Numbered
  <2>2. \A u \in FilterUsers : filterCall'[u].topic \in DOMAIN filter \cup {0}
    BY <1>2 DEF Numbered, Idle, CallOn
  <2>3. filter'[1] = 0
    BY <1>1, <1>4 DEF Numbered
  <2> QED
    BY <1>3, <1>4, <1>6, <2>1, <2>2, <2>3 DEF Numbered
<1>9. FilterTypeOK'
  <2>1. born' \subseteq 1 .. MaxFunctors /\ functors' \subseteq born'
    BY <1>3, <1>5 DEF FilterTypeOK
  <2>2. \A w \in Views : myFunctor'[w] \in 0 .. MaxFunctors
    BY <1>8, <2>1 DEF Numbered
  <2>3. myFunctor' \in [Views -> 0 .. MaxFunctors]
    BY <1>5, <2>2
  <2>4. \A x \in DOMAIN filter' : filter'[x] \in born' \cup {0}
    BY <1>3, <1>4 DEF FilterTypeOK
  <2> QED
    BY <1>2, <1>4, <1>6, <2>1, <2>3, <2>4 DEF FilterTypeOK
<1>10. CallsRefer'
  BY <1>2, <1>4, <1>6 DEF CallsRefer, Setting, Constructing, Idle, CallOn
<1>11. FunctorsAreOwn'
  <2>1. CASE viewFate[v] = "closed"
    BY <1>5, <1>6, <2>1 DEF FunctorsAreOwn
  <2>2. CASE viewFate[v] # "closed"
    <3>1. viewFate[v] # "gone"
      BY <1>1 DEF CallsRefer
    <3> QED
      BY <1>1, <1>3, <1>5, <1>6, <1>7, <2>2, <3>1 DEF FunctorsAreOwn
  <2> QED
    BY <2>1, <2>2
<1>12. TopicsAreOwn'
  BY <1>2, <1>6 DEF TopicsAreOwn, Setting, Idle, CallOn
<1>13. CompleteWhenQuiet'
  <2> SUFFICES ASSUME NEW w \in Views, w \notin overlapped
               PROVE  /\ \A a, b \in SettingFilter(w)' : a = b
                      /\ \A a \in SettingFilter(w)' :
                            filterCall'[a].op = "install" => cTopic'[w] = filterCall'[a].topic
                      /\ viewFate'[w] = "open" /\ SettingFilter(w)' = {} => FilterSet(w)'
    BY <1>6 DEF CompleteWhenQuiet
  <2>1. SettingFilter(w)' = SettingFilter(w) \ {t}
    BY <1>2 DEF SettingFilter, Idle, CallOn
  <2>2. CASE w # v
    <3>1. cTopic[w] # k /\ t \notin SettingFilter(w)
      BY <1>1, <2>2 DEF TopicsAreOwn, Setting, SettingFilter, v, k
    <3> QED
      BY <1>2, <1>4, <1>5, <1>6, <2>1, <2>2, <3>1
         DEF CompleteWhenQuiet, FilterSet, Numbered, SettingFilter
  <2>3. CASE w = v
    <3>1. t \in SettingFilter(w) /\ cTopic[w] = k
      BY <1>1, <2>3 DEF SettingFilter, CompleteWhenQuiet, v, k
    <3> QED
      BY <1>1, <1>2, <1>3, <1>4, <1>5, <1>6, <2>1, <2>3, <3>1
         DEF CompleteWhenQuiet, FilterSet, SettingFilter
  <2> QED
    BY <2>2, <2>3
<1>14. ReaderFiltered'
  <2>1. \A r \in quiet : td[r] \in Views => td[r] # v
    BY <1>1 DEF ReaderFiltered, SettingFilter, v
  <2>2. ASSUME NEW r \in quiet, td[r] \in Views
        PROVE  (/\ SettingFilter(td[r]) = {} /\ td[r] \notin overlapped
                /\ readOn[r] # 0 => Filtered(readOn[r], td[r]))'
    <3>1. /\ td[r] # v /\ SettingFilter(td[r]) = {} /\ td[r] \notin overlapped
          /\ readOn[r] # 0 => Filtered(readOn[r], td[r])
      BY <2>1, <2>2 DEF ReaderFiltered
    <3>4. readOn[r] \in DOMAIN filter \cup {0}
      BY DEF Numbered, FilterTypeOK
    <3>2. SettingFilter(td[r])' = {}
      BY <1>2, <1>6, <3>1 DEF SettingFilter, Idle, CallOn
    <3>3. readOn[r] # k
      BY <1>1, <2>2, <3>1 DEF TopicsAreOwn, Setting, FilterTypeOK, CallsRefer, v, k
    <3> QED
      BY <1>4, <1>5, <1>6, <2>2, <3>1, <3>2, <3>3, <3>4 DEF Filtered
  <2>3. ASSUME NEW u \in FilterUsers, filterCall'[u].op = "create", filterCall'[u].reader \in quiet,
               filterCall'[u].on \in Views, filterCall'[u].topic # 0
        PROVE  Filtered(filterCall[u].topic, filterCall[u].on)'
    <3>1. u # t /\ filterCall'[u] = filterCall[u]
      BY <1>2, <2>3 DEF Idle, CallOn
    <3>2. filterCall[u].on # v
      BY <2>1, <2>3, <3>1 DEF CallsRefer, Constructing
    <3>3. filterCall[u].topic # k
      BY <1>1, <2>3, <3>1, <3>2 DEF TopicsAreOwn, Setting, v, k
    <3> QED
      BY <1>4, <1>5, <2>3, <3>1, <3>2, <3>3 DEF ReaderFiltered, Filtered, Numbered
  <2> QED
    BY <1>6, <2>2, <2>3 DEF ReaderFiltered
<1> QED
  BY <1>8, <1>9, <1>10, <1>11, <1>12, <1>13, <1>14

-----------------------------------------------------------------------------
(* A step that leaves the calls of filter_function() and the C topics      *)
(* alone, and changes the fate of a view only when its last reference      *)
(* goes, keeps the filters complete.                                       *)
LEMMA SettingsStay ==
    ASSUME FilterInv, UNCHANGED <<cTopic, filter, overlapped>>,
           \A u \in FilterUsers :
              Setting(u)' = Setting(u) /\ (Setting(u) => filterCall'[u] = filterCall[u]),
           \A w \in Views :
              /\ viewFate'[w] = IF viewRefs'[w] = {} THEN "gone" ELSE viewFate[w]
              /\ myFunctor'[w] = IF viewRefs'[w] = {} THEN 0 ELSE myFunctor[w]
    PROVE  CompleteWhenQuiet' /\ \A w \in Views : SettingFilter(w)' = SettingFilter(w)
<1>1. \A w \in Views : SettingFilter(w)' = SettingFilter(w)
  BY DEF SettingFilter, Setting
<1>2. \A w \in Views : \A u \in SettingFilter(w) : filterCall'[u] = filterCall[u]
  BY DEF SettingFilter, Setting
<1>3. \A w \in Views : viewFate'[w] = "open" /\ FilterSet(w) => FilterSet(w)'
  BY DEF FilterSet
<1> QED
  BY <1>1, <1>2, <1>3 DEF CompleteWhenQuiet, FilterInv

(* The same for whose C topics are, if no C reader is created.             *)
LEMMA TopicsStay ==
    ASSUME FilterInv, UNCHANGED cTopic,
           \A u \in FilterUsers :
              Setting(u)' = Setting(u) /\ (Setting(u) => filterCall'[u] = filterCall[u]),
           \A u \in FilterUsers : filterCall'[u].op = "create" => filterCall'[u] = filterCall[u],
           \A r \in ViewReaders : td'[r] # NoUser /\ readOn'[r] # 0 =>
              td'[r] = td[r] /\ readOn'[r] = readOn[r]
    PROVE  TopicsAreOwn'
<1>1. \A u \in FilterUsers : Setting(u) => filterCall[u].topic # 0
  BY FilterAssumption DEF FilterInv, CallsRefer, Numbered
<1> QED
  BY <1>1 DEF TopicsAreOwn, FilterInv

(* A constructor that fails, and close() of a reader: td_ goes.            *)
LEMMA ReaderLetsGo ==
    ASSUME FilterInv, NEW t \in FilterUsers, NEW r \in ViewReaders, NEW c \in FilterCalls,
           td[r] # NoUser, ForsakeTopic(r), filterCall' = [filterCall EXCEPT ![t] = c],
           UNCHANGED <<cTopic, filter, born, readOn, overlapped>>,
           \/ Constructing(t) /\ filterCall[t].reader = r /\ c = Idle
           \/ filterCall[t] = Idle /\ readOn[r] # 0 /\ c = CallOn("delete", NoUser, 0, r)
    PROVE  FilterInv'
<1> USE FilterAssumption DEF FilterInv, OriginalTopic
<1>1. /\ filterCall' \in [FilterUsers -> FilterCalls]
      /\ \A u \in FilterUsers : filterCall'[u] = IF u = t THEN c ELSE filterCall[u]
  BY DEF FilterTypeOK
<1>2. /\ c.op \in {"none", "delete"} /\ c.topic = 0 /\ c.on = NoUser
      /\ c.op = "none" => c = Idle /\ c.reader = NoUser
      /\ c.op = "delete" => c.reader = r /\ readOn[r] # 0
  BY DEF Idle, CallOn
<1>3. /\ viewFate' \in [Views -> {"open", "closed", "gone"}]
      /\ viewRefs' \in [Views -> SUBSET (ViewReaders \cup {"app"})]
      /\ myFunctor' \in [Views -> 0 .. MaxFunctors]
      /\ functors' \subseteq functors
      /\ td' = [td EXCEPT ![r] = NoUser]
      /\ quiet' = quiet \ {r}
      /\ \A w \in Views :
            /\ viewRefs'[w] = IF w = td[r] THEN viewRefs[w] \ {r} ELSE viewRefs[w]
            /\ viewFate'[w] = IF viewRefs'[w] = {} THEN "gone" ELSE viewFate[w]
            /\ myFunctor'[w] = IF viewRefs'[w] = {} THEN 0 ELSE myFunctor[w]
      /\ FunctorsAreOwn'
  BY TopicForsaken
<1>4. /\ td' \in [ViewReaders -> Views \cup {Original, NoUser}]
      /\ \A x \in ViewReaders : td'[x] = IF x = r THEN NoUser ELSE td[x]
  BY <1>3 DEF FilterTypeOK
<1>5. ~Setting(t) /\ ~Setting(t)'
  BY <1>1, <1>2 DEF Setting, Constructing, Idle, CallOn
<1>6. \A u \in FilterUsers :
         /\ Setting(u)' = Setting(u) /\ (Setting(u) => filterCall'[u] = filterCall[u])
         /\ filterCall'[u].op = "create" => u # t /\ filterCall'[u] = filterCall[u]
  BY <1>1, <1>2, <1>5 DEF Setting
<1>7. \A u \in FilterUsers : filterCall[u].reader = r => u = t
  BY DEF CallsRefer, Setting, Constructing, FilterTypeOK, FilterCalls, Idle, CallOn
<1>8. FilterTypeOK'
  BY <1>1, <1>3, <1>4 DEF FilterTypeOK
<1>9. Numbered'
  <2>1. \A w \in Views : myFunctor'[w] \in born \cup {0}
    BY <1>3 DEF Numbered
  <2>2. \A u \in FilterUsers : filterCall'[u].topic \in DOMAIN filter \cup {0}
    BY <1>1, <1>2 DEF Numbered
  <2> QED
    BY <2>1, <2>2 DEF Numbered
<1>10. CallsRefer'
  BY <1>1, <1>2, <1>3, <1>4, <1>6, <1>7 DEF CallsRefer, Setting, Constructing
<1>11. TopicsAreOwn'
  BY <1>4, <1>6, TopicsStay
<1>12. CompleteWhenQuiet' /\ \A w \in Views : SettingFilter(w)' = SettingFilter(w)
  BY <1>3, <1>6, SettingsStay
<1>13. ReaderFiltered'
  <2>1. ASSUME NEW x \in quiet', td'[x] \in Views
        PROVE  (/\ SettingFilter(td[x]) = {} /\ td[x] \notin overlapped
                /\ readOn[x] # 0 => Filtered(readOn[x], td[x]))'
    <3>1. x \in quiet /\ x \in ViewReaders /\ td'[x] = td[x]
      BY <1>3, <1>4, <2>1 DEF FilterTypeOK
    <3>2. viewRefs'[td[x]] # {}
      BY <1>3, <1>4, <2>1, <3>1 DEF CallsRefer
    <3>3. /\ SettingFilter(td[x]) = {} /\ td[x] \notin overlapped
          /\ readOn[x] # 0 => Filtered(readOn[x], td[x])
      BY <2>1, <3>1 DEF ReaderFiltered
    <3> QED
      BY <1>3, <1>12, <2>1, <3>1, <3>2, <3>3 DEF Filtered
  <2>2. ASSUME NEW u \in FilterUsers, filterCall'[u].op = "create",
               filterCall'[u].reader \in quiet', filterCall'[u].on \in Views,
               filterCall'[u].topic # 0
        PROVE  Filtered(filterCall[u].topic, filterCall[u].on)'
    <3>1. u # t /\ filterCall'[u] = filterCall[u] /\ filterCall[u].reader # r
      BY <1>6, <1>7, <2>2
    <3>2. viewRefs'[filterCall[u].on] # {}
      BY <1>3, <2>2, <3>1 DEF CallsRefer, Constructing
    <3>3. Filtered(filterCall[u].topic, filterCall[u].on)
      BY <1>3, <2>2, <3>1 DEF ReaderFiltered
    <3> QED
      BY <1>3, <2>2, <3>1, <3>2, <3>3 DEF Filtered
  <2> QED
    BY <2>1, <2>2 DEF ReaderFiltered
<1> QED
  BY <1>3, <1>8, <1>9, <1>10, <1>11, <1>12, <1>13

-----------------------------------------------------------------------------
LEMMA ConstructReaderStep ==
    ASSUME FilterInv, NEW t \in FilterUsers, NEW r \in ViewReaders,
           NEW d \in Views \cup {Original}, ConstructReader(t, r, d)
    PROVE  FilterInv'
<1> DEFINE c == CallOn("topic", d, 0, r)
<1> USE FilterAssumption DEF FilterInv, OriginalTopic
<1>1. /\ filterCall[t] = Idle /\ td[r] = NoUser /\ readOn[r] = 0
      /\ d # NoUser /\ (d # Original => "app" \in viewRefs[d])
  BY DEF ConstructReader, Starts, Usable
<1>2. /\ c \in FilterCalls
      /\ c.op = "topic" /\ c.on = d /\ c.topic = 0 /\ c.reader = r
  BY DEF CallOn, FilterCalls
<1>3. /\ filterCall' \in [FilterUsers -> FilterCalls]
      /\ \A u \in FilterUsers : filterCall'[u] = IF u = t THEN c ELSE filterCall[u]
  BY <1>2 DEF ConstructReader, Starts, FilterTypeOK
<1>4. /\ td' \in [ViewReaders -> Views \cup {Original, NoUser}]
      /\ \A x \in ViewReaders : td'[x] = IF x = r THEN d ELSE td[x]
  BY DEF ConstructReader, FilterTypeOK
<1>5. /\ viewRefs' \in [Views -> SUBSET (ViewReaders \cup {"app"})]
      /\ \A w \in Views :
            /\ viewRefs'[w] = IF w = d THEN viewRefs[w] \cup {r} ELSE viewRefs[w]
            /\ (viewRefs'[w] = {}) = (viewRefs[w] = {})
  BY <1>1 DEF ConstructReader, FilterTypeOK
<1>6. /\ quiet' \in {quiet, quiet \cup {r}}
      /\ r \in quiet' => r \in quiet \/ (SettingFilter(d) = {} /\ d \notin overlapped)
      /\ UNCHANGED <<viewFate, cTopic, filter, myFunctor, functors, born, readOn, overlapped>>
  BY DEF ConstructReader
<1>7. /\ r \notin quiet
      /\ \A u \in FilterUsers : filterCall[u].reader # r
  BY <1>1 DEF CallsRefer, Setting, Constructing, FilterTypeOK, FilterCalls, Idle, CallOn
<1> HIDE DEF c
<1>8. ~Setting(t) /\ ~Setting(t)'
  BY <1>1, <1>2, <1>3 DEF Setting, Idle, CallOn
<1>9. \A u \in FilterUsers :
         /\ Setting(u)' = Setting(u) /\ (Setting(u) => filterCall'[u] = filterCall[u])
         /\ filterCall'[u].op = "create" => u # t /\ filterCall'[u] = filterCall[u]
  BY <1>2, <1>3, <1>8 DEF Setting
<1>10. \A w \in Views :
          /\ viewFate'[w] = IF viewRefs'[w] = {} THEN "gone" ELSE viewFate[w]
          /\ myFunctor'[w] = IF viewRefs'[w] = {} THEN 0 ELSE myFunctor[w]
  BY <1>5, <1>6 DEF CallsRefer, FunctorsAreOwn
<1>11. FilterTypeOK'
  BY <1>3, <1>4, <1>5, <1>6 DEF FilterTypeOK
<1>12. Numbered'
  <2>1. \A u \in FilterUsers : filterCall'[u].topic \in DOMAIN filter \cup {0}
    BY <1>2, <1>3 DEF Numbered
  <2> QED
    BY <1>6, <2>1 DEF Numbered
<1>13. CallsRefer'
  <2>1. \A u \in FilterUsers :
           /\ filterCall'[u].op = "none" => filterCall'[u] = Idle
           /\ (filterCall'[u].reader = r) = (u = t)
    BY <1>2, <1>3, <1>7 DEF CallsRefer
  <2>2. ASSUME NEW u \in FilterUsers, Setting(u)'
        PROVE  (/\ filterCall[u].on \in Views
                /\ "app" \in viewRefs[filterCall[u].on]
                /\ filterCall[u].topic \in DOMAIN filter \ {OriginalTopic}
                /\ filterCall[u].reader = NoUser)'
    <3>1. Setting(u) /\ filterCall'[u] = filterCall[u]
      BY <1>9, <2>2
    <3> QED
      BY <1>5, <1>6, <3>1 DEF CallsRefer
  <2>3. ASSUME NEW u \in FilterUsers, Constructing(u)'
        PROVE  (/\ filterCall[u].reader \in ViewReaders
                /\ filterCall[u].on \in Views \cup {Original}
                /\ td[filterCall[u].reader] = filterCall[u].on
                /\ readOn[filterCall[u].reader] = 0
                /\ filterCall[u].op = "create" /\ filterCall[u].on = Original =>
                      filterCall[u].topic = OriginalTopic)'
    <3>1. CASE u = t
      BY <1>1, <1>2, <1>3, <1>4, <1>6, <3>1
    <3>2. CASE u # t
      BY <1>3, <1>4, <1>6, <1>7, <2>3, <3>2 DEF CallsRefer, Constructing
    <3> QED
      BY <3>1, <3>2
  <2>4. ASSUME NEW u \in FilterUsers, (filterCall[u].op = "delete")'
        PROVE  (/\ filterCall[u].reader \in ViewReaders
                /\ td[filterCall[u].reader] = NoUser
                /\ readOn[filterCall[u].reader] # 0)'
    BY <1>2, <1>3, <1>4, <1>6, <1>7, <2>4 DEF CallsRefer
  <2>5. \A x, u \in FilterUsers :
           (filterCall[x].reader = filterCall[u].reader /\ filterCall[x].reader # NoUser)' => x = u
    BY <1>3, <1>7, <2>1 DEF CallsRefer
  <2>6. \A x \in ViewReaders : td'[x] \in Views => x \in viewRefs'[td'[x]]
    BY <1>4, <1>5 DEF CallsRefer
  <2>7. \A x \in quiet' : td'[x] # NoUser
    BY <1>1, <1>4, <1>6 DEF CallsRefer, FilterTypeOK
  <2>8. \A x \in ViewReaders : td'[x] = Original => readOn[x] \in {0, OriginalTopic}
    BY <1>1, <1>4 DEF CallsRefer
  <2> QED
    BY <1>5, <1>6, <2>1, <2>2, <2>3, <2>4, <2>5, <2>6, <2>7, <2>8 DEF CallsRefer
<1>14. FunctorsAreOwn'
  BY <1>6 DEF FunctorsAreOwn
<1>15. TopicsAreOwn'
  BY <1>1, <1>4, <1>6, <1>9, TopicsStay
<1>16. CompleteWhenQuiet' /\ \A w \in Views : SettingFilter(w)' = SettingFilter(w)
  BY <1>6, <1>9, <1>10, SettingsStay
<1>17. ReaderFiltered'
  <2>1. ASSUME NEW x \in quiet', td'[x] \in Views
        PROVE  (/\ SettingFilter(td[x]) = {} /\ td[x] \notin overlapped
                /\ readOn[x] # 0 => Filtered(readOn[x], td[x]))'
    <3>1. CASE x = r
      BY <1>1, <1>4, <1>6, <1>7, <1>16, <2>1, <3>1
    <3>2. CASE x # r
      <4>1. x \in quiet /\ td'[x] = td[x]
        BY <1>4, <1>6, <2>1, <3>2 DEF FilterTypeOK
      <4> QED
        BY <1>6, <1>16, <2>1, <4>1 DEF ReaderFiltered, Filtered
    <3> QED
      BY <3>1, <3>2
  <2>2. ASSUME NEW u \in FilterUsers, filterCall'[u].op = "create",
               filterCall'[u].reader \in quiet', filterCall'[u].on \in Views,
               filterCall'[u].topic # 0
        PROVE  Filtered(filterCall[u].topic, filterCall[u].on)'
    <3>1. filterCall'[u] = filterCall[u] /\ filterCall[u].reader \in quiet
      BY <1>6, <1>7, <1>9, <2>2
    <3> QED
      BY <1>6, <2>2, <3>1 DEF ReaderFiltered, Filtered
  <2> QED
    BY <2>1, <2>2 DEF ReaderFiltered
<1> QED
  BY <1>11, <1>12, <1>13, <1>14, <1>15, <1>16, <1>17

LEMMA TopicOfReaderStep ==
    ASSUME FilterInv, NEW t \in FilterUsers, TopicOfReader(t)
    PROVE  FilterInv'
<1> DEFINE d == filterCall[t].on
           r == filterCall[t].reader
           k == IF d = Original THEN OriginalTopic ELSE cTopic[d]
           c == CallOn("create", d, k, r)
<1> USE FilterAssumption DEF FilterInv, OriginalTopic
<1>1. /\ filterCall[t].op = "topic" /\ r \in ViewReaders /\ d \in Views \cup {Original}
      /\ td[r] = d /\ readOn[r] = 0 /\ d # NoUser
  BY DEF TopicOfReader, In, CallsRefer, Constructing
<1>2. CASE d # Original /\ viewFate[d] = "closed"
  <2>1. /\ ForsakeTopic(r) /\ filterCall' = [filterCall EXCEPT ![t] = Idle]
        /\ UNCHANGED <<cTopic, filter, born, readOn, overlapped>>
    BY <1>2 DEF TopicOfReader, Ends
  <2>2. Constructing(t) /\ Idle \in FilterCalls
    BY <1>1 DEF Constructing, Idle, CallOn, FilterCalls
  <2> QED
    BY <1>1, <2>1, <2>2, ReaderLetsGo
<1>3. CASE ~(d # Original /\ viewFate[d] = "closed")
  <2>1. /\ filterCall' = [filterCall EXCEPT ![t] = c]
        /\ UNCHANGED <<viewFate, viewRefs, cTopic, filter, myFunctor, functors, born, readOn,
                       td, overlapped, quiet>>
    BY <1>3 DEF TopicOfReader
  <2>2. /\ k \in DOMAIN filter \cup {0} /\ k \in 0 .. MaxTopics
        /\ d \in Views => k = cTopic[d]
        /\ d = Original => k = OriginalTopic
    BY <1>1 DEF Numbered, FilterTypeOK
  <2>3. /\ c \in FilterCalls
        /\ c.op = "create" /\ c.on = d /\ c.topic = k /\ c.reader = r
    BY <1>1, <2>2 DEF CallOn, FilterCalls
  <2> HIDE DEF c, k
  <2>4. /\ filterCall' \in [FilterUsers -> FilterCalls]
        /\ \A u \in FilterUsers : filterCall'[u] = IF u = t THEN c ELSE filterCall[u]
    BY <2>1, <2>3 DEF FilterTypeOK
  <2>5. \A u \in FilterUsers :
           Setting(u)' = Setting(u) /\ (Setting(u) => u # t /\ filterCall'[u] = filterCall[u])
    BY <1>1, <2>3, <2>4 DEF Setting
  <2>6. FilterTypeOK'
    BY <2>1, <2>4 DEF FilterTypeOK
  <2>7. Numbered'
    <3>1. \A u \in FilterUsers : filterCall'[u].topic \in DOMAIN filter \cup {0}
      BY <2>2, <2>3, <2>4 DEF Numbered
    <3> QED
      BY <2>1, <3>1 DEF Numbered
  <2> HIDE DEF d, r
  <2>8. CallsRefer'
    BY <1>1, <2>1, <2>2, <2>3, <2>4, <2>5 DEF CallsRefer, Setting, Constructing, r
  <2>9. FunctorsAreOwn'
    BY <2>1 DEF FunctorsAreOwn
  <2>10. CompleteWhenQuiet' /\ \A w \in Views : SettingFilter(w)' = SettingFilter(w)
    BY <2>1, <2>5, SettingsStay DEF CallsRefer, FunctorsAreOwn
  <2>11. \A u \in FilterUsers : Setting(u) /\ filterCall[u].topic = k => d = filterCall[u].on
    BY <1>1, <2>2 DEF TopicsAreOwn, CallsRefer
  <2>12. TopicsAreOwn'
    BY <2>1, <2>3, <2>4, <2>5, <2>11 DEF TopicsAreOwn
  <2>13. r \in quiet /\ d \in Views /\ k # 0 => Filtered(k, d)
    <3> SUFFICES ASSUME r \in quiet, d \in Views, k # 0 PROVE Filtered(k, d)
      OBVIOUS
    <3>1. k = cTopic[d] /\ viewFate[d] # "closed" /\ viewRefs[d] # {}
      BY <1>1, <1>3, <2>2 DEF CallsRefer
    <3>2. viewFate[d] = "open"
      BY <3>1 DEF CallsRefer, FilterTypeOK
    <3>3. SettingFilter(d) = {} /\ d \notin overlapped
      BY <1>1 DEF ReaderFiltered
    <3> QED
      BY <3>1, <3>2, <3>3 DEF CompleteWhenQuiet, FilterSet, Filtered
  <2>14. ReaderFiltered'
    BY <2>1, <2>3, <2>4, <2>10, <2>13 DEF ReaderFiltered, Filtered
  <2> QED
    BY <2>6, <2>7, <2>8, <2>9, <2>10, <2>12, <2>14
<1> QED
  BY <1>2, <1>3

LEMMA CreateCReaderStep ==
    ASSUME FilterInv, NEW t \in FilterUsers, CreateCReader(t)
    PROVE  FilterInv'
<1> DEFINE d == filterCall[t].on
           r == filterCall[t].reader
           k == filterCall[t].topic
<1> USE FilterAssumption DEF FilterInv, OriginalTopic
<1>1. /\ filterCall[t].op = "create" /\ r \in ViewReaders /\ d \in Views \cup {Original}
      /\ td[r] = d /\ readOn[r] = 0 /\ d # NoUser
      /\ d = Original => k = 1
      /\ k \in 0 .. MaxTopics /\ k \in DOMAIN filter \cup {0}
  BY DEF CreateCReader, In, CallsRefer, Constructing, FilterTypeOK, FilterCalls, Numbered
<1>2. /\ filterCall' = [filterCall EXCEPT ![t] = Idle] /\ Idle \in FilterCalls
      /\ UNCHANGED <<cTopic, filter, born, overlapped>>
  BY DEF CreateCReader, Ends, Idle, CallOn, FilterCalls
<1>3. CASE k = 0
  <2>1. ForsakeTopic(r) /\ UNCHANGED readOn
    BY <1>3 DEF CreateCReader
  <2>2. Constructing(t)
    BY <1>1 DEF Constructing
  <2> QED
    BY <1>1, <1>2, <2>1, <2>2, ReaderLetsGo
<1>4. CASE k # 0
  <2>1. /\ readOn' = [readOn EXCEPT ![r] = k]
        /\ UNCHANGED <<viewFate, viewRefs, cTopic, filter, myFunctor, functors, born, td,
                       overlapped, quiet>>
    BY <1>2, <1>4 DEF CreateCReader
  <2>2. /\ filterCall' \in [FilterUsers -> FilterCalls]
        /\ \A u \in FilterUsers : filterCall'[u] = IF u = t THEN Idle ELSE filterCall[u]
    BY <1>2 DEF FilterTypeOK
  <2>3. /\ readOn' \in [ViewReaders -> 0 .. MaxTopics]
        /\ \A x \in ViewReaders : readOn'[x] = IF x = r THEN k ELSE readOn[x]
    BY <1>1, <2>1 DEF FilterTypeOK
  <2>4. \A u \in FilterUsers :
           /\ Setting(u)' = Setting(u) /\ (Setting(u) => u # t /\ filterCall'[u] = filterCall[u])
           /\ filterCall'[u].op = "create" => u # t /\ filterCall'[u] = filterCall[u]
    BY <1>1, <2>2 DEF Setting, Idle, CallOn
  <2>5. \A u \in FilterUsers : u # t => filterCall[u].reader # r
    BY <1>1 DEF CallsRefer
  <2>6. FilterTypeOK'
    BY <2>1, <2>2, <2>3 DEF FilterTypeOK
  <2>7. Numbered'
    <3>1. \A u \in FilterUsers : filterCall'[u].topic \in DOMAIN filter \cup {0}
      BY <2>2 DEF Numbered, Idle, CallOn
    <3>2. \A x \in ViewReaders : readOn'[x] \in DOMAIN filter \cup {0}
      BY <1>1, <2>3 DEF Numbered
    <3> QED
      BY <2>1, <3>1, <3>2 DEF Numbered
  <2> HIDE DEF k, d, r
  <2>8. CallsRefer'
    BY <1>1, <2>1, <2>2, <2>3, <2>4, <2>5 DEF CallsRefer, Setting, Constructing, Idle, CallOn
  <2>9. FunctorsAreOwn'
    BY <2>1 DEF FunctorsAreOwn
  <2>10. CompleteWhenQuiet' /\ \A w \in Views : SettingFilter(w)' = SettingFilter(w)
    BY <2>1, <2>4, SettingsStay DEF CallsRefer, FunctorsAreOwn
  <2>11. \A u \in FilterUsers : Setting(u) /\ filterCall[u].topic = k => td[r] = filterCall[u].on
    BY <1>1 DEF TopicsAreOwn, d, k
  <2>12. TopicsAreOwn'
    BY <2>1, <2>3, <2>4, <2>11 DEF TopicsAreOwn
  <2>13. r \in quiet /\ td[r] \in Views => Filtered(k, td[r])
    BY <1>1, <1>4 DEF ReaderFiltered, d, r, k
  <2>14. ReaderFiltered'
    <3>1. ASSUME NEW x \in quiet, td[x] \in Views
          PROVE  (/\ SettingFilter(td[x]) = {} /\ td[x] \notin overlapped
                  /\ readOn[x] # 0 => Filtered(readOn[x], td[x]))'
      <4>1. SettingFilter(td[x]) = {} /\ td[x] \notin overlapped /\ x \in ViewReaders
        BY <3>1 DEF ReaderFiltered, FilterTypeOK
      <4>2. readOn'[x] # 0 => Filtered(readOn'[x], td[x])
        BY <2>3, <2>13, <3>1, <4>1 DEF ReaderFiltered
      <4> QED
        BY <2>1, <2>10, <3>1, <4>1, <4>2 DEF Filtered
    <3> QED
      BY <2>1, <2>4, <3>1 DEF ReaderFiltered, Filtered
  <2> QED
    BY <2>6, <2>7, <2>8, <2>9, <2>10, <2>12, <2>14
<1> QED
  BY <1>3, <1>4

LEMMA DeleteCReaderStep ==
    ASSUME FilterInv, NEW t \in FilterUsers, DeleteCReader(t)
    PROVE  FilterInv'
<1> DEFINE r == filterCall[t].reader
<1> USE FilterAssumption DEF FilterInv, OriginalTopic
<1>1. /\ filterCall[t].op = "delete" /\ r \in ViewReaders /\ td[r] = NoUser /\ readOn[r] # 0
  BY DEF DeleteCReader, In, CallsRefer
<1>2. /\ UNCHANGED <<viewFate, viewRefs, cTopic, filter, myFunctor, functors, born, td,
                     overlapped, quiet>>
      /\ readOn' \in [ViewReaders -> 0 .. MaxTopics]
      /\ \A x \in ViewReaders : readOn'[x] = IF x = r THEN 0 ELSE readOn[x]
  BY <1>1 DEF DeleteCReader, FilterTypeOK
<1>3. /\ filterCall' \in [FilterUsers -> FilterCalls]
      /\ \A u \in FilterUsers : filterCall'[u] = IF u = t THEN Idle ELSE filterCall[u]
  BY DEF DeleteCReader, Ends, Idle, CallOn, FilterCalls, FilterTypeOK
<1>4. \A u \in FilterUsers :
         /\ Setting(u)' = Setting(u) /\ (Setting(u) => u # t /\ filterCall'[u] = filterCall[u])
         /\ filterCall'[u].op = "create" => u # t /\ filterCall'[u] = filterCall[u]
  BY <1>1, <1>3 DEF Setting, Idle, CallOn
<1>5. \A u \in FilterUsers : u # t => filterCall[u].reader # r
  BY <1>1 DEF CallsRefer
<1>6. FilterTypeOK'
  BY <1>2, <1>3 DEF FilterTypeOK
<1>7. Numbered'
  <2>1. \A u \in FilterUsers : filterCall'[u].topic \in DOMAIN filter \cup {0}
    BY <1>3 DEF Numbered, Idle, CallOn
  <2>2. \A x \in ViewReaders : readOn'[x] \in DOMAIN filter \cup {0}
    BY <1>2 DEF Numbered
  <2> QED
    BY <1>2, <2>1, <2>2 DEF Numbered
<1> HIDE DEF r
<1>8. CallsRefer'
  BY <1>1, <1>2, <1>3, <1>4, <1>5 DEF CallsRefer, Setting, Constructing, Idle, CallOn
<1>9. FunctorsAreOwn'
  BY <1>2 DEF FunctorsAreOwn
<1>10. CompleteWhenQuiet' /\ \A w \in Views : SettingFilter(w)' = SettingFilter(w)
  BY <1>2, <1>4, SettingsStay DEF CallsRefer, FunctorsAreOwn
<1>11. TopicsAreOwn'
  BY <1>2, <1>4, TopicsStay
<1>12. ReaderFiltered'
  <2>1. \A x \in quiet : readOn'[x] # 0 => readOn'[x] = readOn[x]
    BY <1>2 DEF FilterTypeOK
  <2> QED
    BY <1>2, <1>4, <1>10, <2>1 DEF ReaderFiltered, Filtered
<1> QED
  BY <1>6, <1>7, <1>8, <1>9, <1>10, <1>11, <1>12

LEMMA CloseReaderStep ==
    ASSUME FilterInv, NEW t \in FilterUsers, NEW r \in ViewReaders, CloseReader(t, r)
    PROVE  FilterInv'
<1>1. CallOn("delete", NoUser, 0, r) \in FilterCalls
  BY FilterAssumption DEF CallOn, FilterCalls
<1> QED
  BY <1>1, ReaderLetsGo DEF CloseReader, Starts

LEMMA CloseViewStep ==
    ASSUME FilterInv, NEW v \in Views, CloseView(v)
    PROVE  FilterInv'
<1> USE FilterAssumption DEF FilterInv
<1>1. /\ "app" \in viewRefs[v] /\ viewFate[v] = "open"
      /\ UNCHANGED <<filterCall, viewRefs, cTopic, filter, myFunctor, functors, born, readOn,
                     td, overlapped, quiet>>
      /\ viewFate' \in [Views -> {"open", "closed", "gone"}]
      /\ \A w \in Views : viewFate'[w] = IF w = v THEN "closed" ELSE viewFate[w]
  BY DEF CloseView, Usable, FilterTypeOK
<1>2. FilterTypeOK'
  BY <1>1 DEF FilterTypeOK
<1>3. Numbered'
  BY <1>1 DEF Numbered
<1>4. CallsRefer'
  BY <1>1 DEF CallsRefer, Setting, Constructing
<1>5. FunctorsAreOwn'
  BY <1>1 DEF FunctorsAreOwn
<1>6. TopicsAreOwn'
  BY <1>1 DEF TopicsAreOwn, Setting
<1>7. CompleteWhenQuiet'
  BY <1>1 DEF CompleteWhenQuiet, FilterSet, SettingFilter
<1>8. ReaderFiltered'
  BY <1>1 DEF ReaderFiltered, SettingFilter, Filtered
<1> QED
  BY <1>2, <1>3, <1>4, <1>5, <1>6, <1>7, <1>8

LEMMA DropViewStep ==
    ASSUME FilterInv, NEW v \in Views, DropView(v)
    PROVE  FilterInv'
<1> USE FilterAssumption DEF FilterInv
<1>1. /\ "app" \in viewRefs[v] /\ \A u \in FilterUsers : filterCall[u].on # v
      /\ UNCHANGED <<filterCall, cTopic, filter, born, readOn, td, overlapped, quiet>>
  BY DEF DropView, Usable
<1>2. /\ viewFate' \in [Views -> {"open", "closed", "gone"}]
      /\ viewRefs' \in [Views -> SUBSET (ViewReaders \cup {"app"})]
      /\ myFunctor' \in [Views -> 0 .. MaxFunctors]
      /\ functors' \subseteq functors
      /\ \A w \in Views :
            /\ viewRefs'[w] = IF w = v THEN viewRefs[w] \ {"app"} ELSE viewRefs[w]
            /\ viewFate'[w] = IF viewRefs'[w] = {} THEN "gone" ELSE viewFate[w]
            /\ myFunctor'[w] = IF viewRefs'[w] = {} THEN 0 ELSE myFunctor[w]
      /\ FunctorsAreOwn'
  BY <1>1, Forsaken DEF DropView
<1>3. FilterTypeOK'
  BY <1>1, <1>2 DEF FilterTypeOK
<1>4. Numbered'
  <2>1. \A w \in Views : myFunctor'[w] \in born \cup {0}
    BY <1>2 DEF Numbered
  <2> QED
    BY <1>1, <2>1 DEF Numbered
<1>5. \A x \in ViewReaders : td[x] \in Views => x \in viewRefs'[td[x]]
  BY <1>2 DEF CallsRefer
<1>6. CallsRefer'
  BY <1>1, <1>2, <1>5 DEF CallsRefer, Setting, Constructing
<1>7. TopicsAreOwn'
  BY <1>1 DEF TopicsAreOwn, Setting
<1>8. CompleteWhenQuiet' /\ \A w \in Views : SettingFilter(w)' = SettingFilter(w)
  BY <1>1, <1>2, SettingsStay DEF Setting
<1>9. ReaderFiltered'
  <2>1. ASSUME NEW x \in quiet, td[x] \in Views
        PROVE  (/\ SettingFilter(td[x]) = {} /\ td[x] \notin overlapped
                /\ readOn[x] # 0 => Filtered(readOn[x], td[x]))'
    <3>1. viewRefs'[td[x]] # {}
      BY <1>5, <2>1 DEF FilterTypeOK
    <3> QED
      BY <1>1, <1>2, <1>8, <2>1, <3>1 DEF ReaderFiltered, Filtered
  <2>2. ASSUME NEW u \in FilterUsers, filterCall[u].op = "create",
               filterCall[u].reader \in quiet, filterCall[u].on \in Views,
               filterCall[u].topic # 0
        PROVE  Filtered(filterCall[u].topic, filterCall[u].on)'
    <3>1. viewRefs'[filterCall[u].on] # {}
      BY <1>5, <2>2 DEF CallsRefer, Constructing
    <3>2. Filtered(filterCall[u].topic, filterCall[u].on)
      BY <2>2 DEF ReaderFiltered
    <3> QED
      BY <1>1, <1>2, <2>2, <3>1, <3>2 DEF Filtered
  <2> QED
    BY <1>1, <2>1, <2>2 DEF ReaderFiltered
<1> QED
  BY <1>2, <1>3, <1>4, <1>6, <1>7, <1>8, <1>9

-----------------------------------------------------------------------------
LEMMA FilterInvNext == FilterInv /\ [FilterNext]_filterVars => FilterInv'
<1> SUFFICES ASSUME FilterInv, [FilterNext]_filterVars PROVE FilterInv'
  OBVIOUS
<1>1. CASE UNCHANGED filterVars
  <2> USE <1>1 DEF filterVars, FilterInv
  <2>1. FilterTypeOK' /\ Numbered' /\ FunctorsAreOwn'
    BY DEF FilterTypeOK, Numbered, FunctorsAreOwn
  <2>2. CallsRefer'
    BY DEF CallsRefer, Setting, Constructing
  <2>3. TopicsAreOwn'
    BY DEF TopicsAreOwn, Setting
  <2>4. CompleteWhenQuiet'
    BY DEF CompleteWhenQuiet, SettingFilter, FilterSet
  <2>5. ReaderFiltered'
    BY DEF ReaderFiltered, SettingFilter, Filtered
  <2> QED
    BY <2>1, <2>2, <2>3, <2>4, <2>5
<1>2. ASSUME NEW t \in FilterUsers, PublishTopic(t) PROVE FilterInv'
  BY <1>2, PublishTopicStep
<1>3. ASSUME NEW t \in FilterUsers, InstallFilter(t) PROVE FilterInv'
  BY <1>3, InstallFilterStep
<1>4. ASSUME NEW t \in FilterUsers, TopicOfReader(t) PROVE FilterInv'
  BY <1>4, TopicOfReaderStep
<1>5. ASSUME NEW t \in FilterUsers, CreateCReader(t) PROVE FilterInv'
  BY <1>5, CreateCReaderStep
<1>6. ASSUME NEW t \in FilterUsers, DeleteCReader(t) PROVE FilterInv'
  BY <1>6, DeleteCReaderStep
<1>7. ASSUME NEW t \in FilterUsers, NEW v \in Views, FilterFunction(t, v) PROVE FilterInv'
  BY <1>7, FilterFunctionStep
<1>8. ASSUME NEW t \in FilterUsers, NEW r \in ViewReaders, CloseReader(t, r) PROVE FilterInv'
  BY <1>8, CloseReaderStep
<1>9. ASSUME NEW t \in FilterUsers, NEW r \in ViewReaders, NEW d \in Views \cup {Original},
             ConstructReader(t, r, d)
      PROVE  FilterInv'
  BY <1>9, ConstructReaderStep
<1>10. ASSUME NEW v \in Views, CloseView(v) PROVE FilterInv'
  BY <1>10, CloseViewStep
<1>11. ASSUME NEW v \in Views, DropView(v) PROVE FilterInv'
  BY <1>11, DropViewStep
<1> QED
  BY <1>1, <1>2, <1>3, <1>4, <1>5, <1>6, <1>7, <1>8, <1>9, <1>10, <1>11 DEF FilterNext

LEMMA FilterSafe == FilterSpec => []FilterInv
  BY FilterInvInit, FilterInvNext, PTL DEF FilterSpec

(* The record that each thread, view and reader has is always of its type: *)
(* no C topic or functor is ever used that was not made.                   *)
THEOREM FilterTypeCorrect == FilterSpec => []FilterTypeOK
<1>1. FilterInv => FilterTypeOK
  BY DEF FilterInv
<1> QED
  BY <1>1, FilterSafe, PTL

(* A reader of the topic is never filtered; a quiet reader of a view is    *)
(* filtered by the functor that the view has, and that functor exists,     *)
(* whatever filter_function(), close() and the constructors and close() of *)
(* other readers do at the same time; no functor outlives its view.        *)
THEOREM FiltersStayOwn == FilterSpec => []FiltersAreOwn
<1>1. ASSUME FilterInv PROVE FiltersAreOwn
  <2> USE <1>1, FilterAssumption DEF FilterInv
  <2>1. ASSUME NEW r \in ViewReaders, readOn[r] # 0, td[r] # NoUser
        PROVE  IF td[r] = Original THEN filter[readOn[r]] = 0
               ELSE r \in quiet =>
                       /\ filter[readOn[r]] = myFunctor[td[r]]
                       /\ filter[readOn[r]] \in functors
    <3>1. CASE td[r] = Original
      BY <2>1, <3>1 DEF CallsRefer, Numbered
    <3>2. CASE td[r] # Original
      BY <2>1, <3>2 DEF ReaderFiltered, Filtered, FunctorsAreOwn, FilterTypeOK
    <3> QED
      BY <3>1, <3>2
  <2>2. functors = {myFunctor[v] : v \in {x \in Views : viewFate[x] # "gone"}} \ {0}
    <3>1. 0 \notin functors
      BY DEF FilterTypeOK
    <3> QED
      BY <3>1 DEF FunctorsAreOwn
  <2> QED
    BY <2>1, <2>2 DEF FiltersAreOwn
<1> QED
  BY <1>1, FilterSafe, PTL

-----------------------------------------------------------------------------
(***************************************************************************)
(* The inductive invariant of the samples of an instance: each has an id   *)
(* of its own, is marked as read exactly if it was returned before, and a  *)
(* result selects as it shows.                                             *)
(***************************************************************************)
SampleInv ==
    /\ StatesTypeOK
    /\ \A s, t \in rhc : s.id = t.id => s = t
    /\ \A s \in rhc : s.read <=> s.id \in readBefore
    /\ SelectsWhatItShows

(* The selector that get_ddsc_state_mask() makes of a DataState includes the   *)
(* states of a sample exactly if the DataState includes the states that    *)
(* SampleInfo makes of them.                                               *)
LEMMA MaskSelects ==
    ASSUME StatesTypeOK, NEW s \in rhc
    PROVE  s \in Selected(StateMask(dataState)) <=> Includes(dataState, InfoState(Presented(s)))
<1> DEFINE p == Presented(s)
           selector == StateMask(dataState)
<1>0. /\ dataState.ss \subseteq Nat /\ dataState.vs \subseteq Nat /\ dataState.is \subseteq Nat
      /\ p.sst \in {"READ", "NOT_READ"} /\ p.vst \in {"NEW_VIEW", "NOT_NEW_VIEW"}
      /\ p.ist \in {"ALIVE", "NOT_ALIVE_DISPOSED", "NOT_ALIVE_NO_WRITERS"}
    BY DEF StatesTypeOK, SampleStateValues, ViewStateValues, InstanceStateValues, IsRead, IsNotRead,
           AnyBit, NewView, NotNewView, Alive, NotAliveDisposed, NotAliveNoWriters, NotAliveMask,
           Presented
<1>1. s \in Selected(selector) <=> CBit[p.sst] \in selector /\ CBit[p.vst] \in selector /\ CBit[p.ist] \in selector
    BY DEF Selected
<1>2. CBit[p.sst] \in selector <=> InfoState(p).ss \subseteq dataState.ss
    BY <1>0 DEF CBit, StateMask, Shift, InfoState, State, IsRead, IsNotRead
<1>3. CBit[p.vst] \in selector <=> InfoState(p).vs \subseteq dataState.vs
    BY <1>0 DEF CBit, StateMask, Shift, InfoState, State, NewView, NotNewView
<1>4. CBit[p.ist] \in selector <=> InfoState(p).is \subseteq dataState.is
    BY <1>0 DEF CBit, StateMask, Shift, InfoState, State, Alive, NotAliveDisposed, NotAliveNoWriters
<1> QED
    BY <1>1, <1>2, <1>3, <1>4 DEF Includes

(* A read or a take of what the DataState selects.                         *)
LEMMA ReadKeepsInv ==
    ASSUME SampleInv, NEW take \in BOOLEAN, ReadOrTake(take)
    PROVE  SampleInv'
<1> DEFINE some == Selected(StateMask(dataState))
           from == {Info(s) : s \in rhc}
           infos == {Info(s) : s \in some}
<1>0. /\ returned' = [by |-> {"read"}, from |-> from, infos |-> infos, earlier |-> readBefore]
      /\ rhc' = IF take THEN rhc \ some
                ELSE {[s EXCEPT !.read = s.read \/ s \in some] : s \in rhc}
      /\ instance' = IF some = {} THEN instance ELSE [instance EXCEPT !.view = "NOT_NEW_VIEW"]
      /\ readBefore' = readBefore \cup {s.id : s \in some}
      /\ dataState' = dataState
    BY DEF ReadOrTake
<1>1. /\ some \subseteq rhc /\ \A s, t \in rhc : s.id = t.id => s = t
      /\ \A s \in rhc : s \in [id : 1 .. MaxSamples, read : BOOLEAN]
      /\ \A s \in rhc : s.read <=> s.id \in readBefore
    BY DEF Selected, SampleInv, StatesTypeOK
<1>2. \A s \in rhc : Info(s).id = s.id /\ Info(s).state = InfoState(Presented(s))
    BY DEF Info
<1>3. StatesTypeOK'
  <2> HIDE DEF some, from, infos
  <2>1. rhc' \subseteq [id : 1 .. MaxSamples, read : BOOLEAN]
    <3>1. \A s \in rhc : [s EXCEPT !.read = s.read \/ s \in some]
                            \in [id : 1 .. MaxSamples, read : BOOLEAN]
        BY <1>1
    <3> QED
        BY <1>0, <1>1, <3>1
  <2>2. readBefore' \subseteq 1 .. MaxSamples
      BY <1>0, <1>1 DEF SampleInv, StatesTypeOK
  <2>3. instance' \in [view : {"NEW_VIEW", "NOT_NEW_VIEW"},
                       state : {"ALIVE", "NOT_ALIVE_DISPOSED", "NOT_ALIVE_NO_WRITERS"}]
      BY <1>0 DEF SampleInv, StatesTypeOK
  <2>4. returned'.by = {"read"}
      BY <1>0
  <2> QED
      BY <1>0, <2>1, <2>2, <2>3, <2>4 DEF SampleInv, StatesTypeOK
<1>4. (\A s, t \in rhc : s.id = t.id => s = t)'
  <2> HIDE DEF some
  <2>1. CASE take
      BY <1>0, <1>1, <2>1
  <2>2. CASE ~take
    <3>1. \A s \in rhc : [s EXCEPT !.read = s.read \/ s \in some].id = s.id
        BY <1>1
    <3>2. rhc' = {[s EXCEPT !.read = s.read \/ s \in some] : s \in rhc}
        BY <1>0, <2>2
    <3> QED
        BY <1>1, <3>1, <3>2
  <2> QED
      BY <2>1, <2>2
<1>5. (\A s \in rhc : s.read <=> s.id \in readBefore)'
  <2> HIDE DEF some
  <2>1. \A s \in rhc : s.id \in readBefore' <=> s.id \in readBefore \/ s \in some
      BY <1>0, <1>1
  <2>2. CASE take
      BY <1>0, <1>1, <2>1, <2>2
  <2>3. CASE ~take
    <3>1. \A s \in rhc : LET t == [s EXCEPT !.read = s.read \/ s \in some]
                         IN  t.id = s.id /\ (t.read <=> s.read \/ s \in some)
        BY <1>1
    <3> QED
        BY <1>0, <1>1, <2>1, <2>3, <3>1
  <2> QED
      BY <2>2, <2>3
<1>6. \A s \in rhc : Info(s) \in infos <=> Includes(dataState, Info(s).state)
  <2> TAKE s \in rhc
  <2>1. Info(s) \in infos <=> s \in some
      BY <1>1, <1>2
  <2> QED
      BY <1>2, <2>1, MaskSelects DEF SampleInv
<1>7. \A s \in rhc : (Info(s).state.ss = IsNotRead) <=> s.id \notin readBefore
  <2> TAKE s \in rhc
  <2>1. Info(s).state.ss = IF s.read THEN IsRead ELSE IsNotRead
    <3>1. InfoState(Presented(s)).ss = IF Presented(s).sst = "READ" THEN IsRead ELSE IsNotRead
        BY DEF InfoState, State
    <3>2. Presented(s).sst = "READ" <=> s.read
        BY DEF Presented
    <3> QED
        BY <1>2, <3>1, <3>2
  <2>2. IsRead # IsNotRead
    <3>1. 0 \in IsRead /\ 0 \notin IsNotRead
        BY DEF IsRead, IsNotRead
    <3> QED
        BY <3>1
  <2> QED
      BY <1>1, <2>1, <2>2
<1>8. /\ \A i \in from : (i \in infos) = Includes(dataState, i.state)
      /\ \A i \in infos : (i.state.ss = IsNotRead) = (i.id \notin readBefore)
  <2>1. ASSUME NEW i \in from  PROVE (i \in infos) = Includes(dataState, i.state)
    <3>1. PICK s \in rhc : i = Info(s)
        BY <2>1
    <3> HIDE DEF infos
    <3>2. (i \in infos) \in BOOLEAN /\ Includes(dataState, i.state) \in BOOLEAN
        BY DEF Includes
    <3> QED
        BY <1>6, <3>1, <3>2
  <2>2. ASSUME NEW i \in infos  PROVE (i.state.ss = IsNotRead) = (i.id \notin readBefore)
    <3>1. PICK s \in rhc : i = Info(s)
        BY <1>1, <2>2
    <3> QED
        BY <1>2, <1>7, <3>1
  <2> QED
      BY <2>1, <2>2
<1>9. SelectsWhatItShows'
  <2>1. returned'.from = from /\ returned'.infos = infos /\ returned'.earlier = readBefore
      BY <1>0
  <2> HIDE DEF some, from, infos
  <2> QED
      BY <1>0, <1>8, <2>1 DEF SelectsWhatItShows, Includes
<1> QED
    BY <1>3, <1>4, <1>5, <1>9 DEF SampleInv

(* SampleInv holds initially and every step preserves it.                  *)
LEMMA SampleInvariant == StatesInit /\ [][StatesNext]_stateVars => []SampleInv
<1> USE SampleAssumption
<1>1. StatesInit => SampleInv
  <2> SUFFICES ASSUME StatesInit  PROVE SampleInv
      OBVIOUS
  <2>1. dataState \in [ss : SampleStateValues, vs : ViewStateValues, is : InstanceStateValues]
      BY DEF StatesInit, NamedStates, ConstructedStates, AnyData, State, SampleStateValues,
             ViewStateValues, InstanceStateValues
  <2> QED
      BY <2>1 DEF StatesInit, SampleInv, StatesTypeOK, SelectsWhatItShows, NoResult
<1>2. SampleInv /\ [StatesNext]_stateVars => SampleInv'
  <2> SUFFICES ASSUME SampleInv, [StatesNext]_stateVars  PROVE SampleInv'
      OBVIOUS
  <2>1. CASE SelectStates
      BY <2>1 DEF SelectStates, SampleInv, StatesTypeOK, SelectsWhatItShows
  <2>2. CASE Arrives
    <3>1. PICK n \in 1 .. MaxSamples :
              /\ n \notin {s.id : s \in rhc} \cup readBefore
              /\ rhc' = rhc \cup {[id |-> n, read |-> FALSE]}
        BY <2>2 DEF Arrives
    <3>2. /\ instance' \in {instance, [view |-> "NEW_VIEW", state |-> "ALIVE"]}
          /\ UNCHANGED <<dataState, returned, readBefore>> /\ returned = NoResult
        BY <2>2 DEF Arrives
    <3>3. [id |-> n, read |-> FALSE] \in [id : 1 .. MaxSamples, read : BOOLEAN]
        BY <3>1
    <3>4. StatesTypeOK'
      <4>1. rhc' \subseteq [id : 1 .. MaxSamples, read : BOOLEAN]
          BY <3>1, <3>3 DEF SampleInv, StatesTypeOK
      <4>2. instance' \in [view : {"NEW_VIEW", "NOT_NEW_VIEW"},
                           state : {"ALIVE", "NOT_ALIVE_DISPOSED", "NOT_ALIVE_NO_WRITERS"}]
          BY <3>2 DEF SampleInv, StatesTypeOK
      <4> QED
          BY <3>2, <4>1, <4>2 DEF SampleInv, StatesTypeOK
    <3>5. SelectsWhatItShows'
        BY <3>2 DEF SelectsWhatItShows, NoResult
    <3> DEFINE new == [id |-> n, read |-> FALSE]
    <3>6. new.id = n /\ new.read = FALSE /\ rhc' = rhc \cup {new} /\ readBefore' = readBefore
        BY <3>1, <3>2
    <3> HIDE DEF new
    <3>7. \A s \in rhc : s.id # n
        BY <3>1
    <3>8. (\A s, t \in rhc : s.id = t.id => s = t)'
        BY <3>6, <3>7 DEF SampleInv
    <3>9. (\A s \in rhc : s.read <=> s.id \in readBefore)'
        BY <3>1, <3>6 DEF SampleInv
    <3> QED
        BY <3>4, <3>5, <3>8, <3>9 DEF SampleInv
  <2>3. CASE Dies
      BY <2>3 DEF Dies, SampleInv, StatesTypeOK, SelectsWhatItShows
  <2>4. CASE Discard
      BY <2>4 DEF Discard, SampleInv, StatesTypeOK, SelectsWhatItShows, NoResult
  <2>5. CASE \E take \in BOOLEAN : ReadOrTake(take)
      BY <2>5, ReadKeepsInv
  <2>6. CASE UNCHANGED stateVars
      BY <2>6 DEF stateVars, SampleInv, StatesTypeOK, SelectsWhatItShows, Includes
  <2> QED
      BY <2>1, <2>2, <2>3, <2>4, <2>5, <2>6 DEF StatesNext
<1> QED
    BY <1>1, <1>2, PTL

-----------------------------------------------------------------------------
(***************************************************************************)
(* The inductive invariant of status masks: the statuses enabled in the C  *)
(* layer are those whose bits the application asked for.                   *)
(***************************************************************************)
MaskInv ==
    /\ MasksTypeOK
    /\ statusEnabled = StatusesOf(asked)
    /\ shown.by \in {"nothing", "enabled_statuses", "status_changes"}
    /\ shown.by = "enabled_statuses" => shown.mask = MaskOf(statusEnabled)
    /\ shown.by = "status_changes" => shown.mask = MaskOf(raised)

(* convertStatusMask() there and back: no two statuses share a bit.        *)
LEMMA MasksConvert ==
    /\ \A S \in SUBSET KnownStatuses : MaskOf(S) \subseteq 0 .. 31 /\ StatusesOf(MaskOf(S)) = S
    /\ \A m : \A s \in KnownStatuses : s \in StatusesOf(m) <=> StatusBit[s] \in m
<1>1. \A s \in KnownStatuses : StatusBit[s] \in 0 .. 31
    BY DEF StatusBit, KnownStatuses
<1>2. \A s, t \in KnownStatuses : StatusBit[s] = StatusBit[t] => s = t
    BY DEF StatusBit, KnownStatuses
<1>3. \A m : \A s \in KnownStatuses : s \in StatusesOf(m) <=> StatusBit[s] \in m
    BY DEF StatusesOf, ContainsStatus
<1>4. ASSUME NEW S \in SUBSET KnownStatuses
      PROVE  MaskOf(S) \subseteq 0 .. 31 /\ StatusesOf(MaskOf(S)) = S
  <2>1. \A s \in KnownStatuses : StatusBit[s] \in MaskOf(S) <=> s \in S
      BY <1>2 DEF MaskOf
  <2>2. StatusesOf(MaskOf(S)) \subseteq KnownStatuses
      BY DEF StatusesOf
  <2> QED
      BY <1>1, <1>3, <2>1, <2>2 DEF MaskOf
<1> QED
    BY <1>3, <1>4

(* MaskInv holds initially and every step preserves it.                    *)
LEMMA MaskInvariant == MasksInit /\ [][MasksNext]_maskVars => []MaskInv
<1>0. Occurring \subseteq OfEntity /\ OfEntity \subseteq KnownStatuses
    BY StatusMaskAssumption
<1>1. MasksInit => MaskInv
    BY <1>0, MasksConvert DEF MasksInit, MaskInv, MasksTypeOK, NothingShown
<1>2. MaskInv /\ [MasksNext]_maskVars => MaskInv'
  <2> SUFFICES ASSUME MaskInv, [MasksNext]_maskVars  PROVE MaskInv'
      OBVIOUS
  <2>0. /\ \A s \in KnownStatuses : StatusBit[s] \in 0 .. 31
        /\ AllBits \subseteq 0 .. 31
      BY DEF StatusBit, KnownStatuses, AllBits
  <2>1. CASE MakeMask
      BY <1>0, <2>0, <2>1 DEF MakeMask, MaskInv, MasksTypeOK
  <2>2. CASE EnableStatuses
      BY <2>2 DEF EnableStatuses, MaskInv, MasksTypeOK, NothingShown
  <2>3. CASE ShowEnabled \/ ShowChanges
    <3>1. MaskOf(statusEnabled) \subseteq 0 .. 31 /\ MaskOf(raised) \subseteq 0 .. 31
        BY <1>0, MasksConvert DEF MaskInv, MasksTypeOK
    <3>2. CASE ShowEnabled
        BY <3>1, <3>2 DEF ShowEnabled, MaskInv, MasksTypeOK
    <3>3. CASE ShowChanges
        BY <3>1, <3>3 DEF ShowChanges, MaskInv, MasksTypeOK
    <3> QED
        BY <2>3, <3>2, <3>3
  <2>4. CASE TakeMask
      BY <2>4 DEF TakeMask, MaskInv, MasksTypeOK, NothingShown
  <2>5. CASE StatusChanges
      BY <1>0, <2>5 DEF StatusChanges, MaskInv, MasksTypeOK, NothingShown
  <2>6. CASE UNCHANGED maskVars
      BY <2>6 DEF maskVars, MaskInv, MasksTypeOK
  <2> QED
      BY <2>1, <2>2, <2>3, <2>4, <2>5, <2>6 DEF MasksNext
<1> QED
    BY <1>1, <1>2, PTL

(* The condition and what is shown follow from it.                         *)
LEMMA MasksAgreeByInv == ASSUME MaskInv PROVE MasksAgree
<1>0. /\ OfEntity \subseteq KnownStatuses
      /\ statusEnabled \subseteq OfEntity /\ raised \subseteq OfEntity
      /\ statusEnabled = StatusesOf(asked)
    BY StatusMaskAssumption DEF MaskInv, MasksTypeOK
<1>1. \A s \in KnownStatuses : s \in statusEnabled <=> StatusBit[s] \in asked
    BY <1>0, MasksConvert
<1>2. \A S \in SUBSET KnownStatuses : \A s \in KnownStatuses : StatusBit[s] \in MaskOf(S) <=> s \in S
    BY MasksConvert
<1>3. (statusEnabled \cap raised # {}) = (\E s \in raised : StatusBit[s] \in asked)
    BY <1>0, <1>1
<1>4. \A s \in KnownStatuses :
          /\ StatusBit[s] \in MaskOf(statusEnabled) <=> StatusBit[s] \in asked
          /\ StatusBit[s] \in MaskOf(raised) <=> s \in raised
    BY <1>0, <1>1, <1>2
<1>5. ASSUME NEW s \in KnownStatuses
      PROVE  /\ shown.by = "enabled_statuses" =>
                   (StatusBit[s] \in shown.mask) = (StatusBit[s] \in asked)
             /\ shown.by = "status_changes" => (StatusBit[s] \in shown.mask) = (s \in raised)
    BY <1>4 DEF MaskInv
<1> QED
    BY <1>3, <1>5 DEF MasksAgree

(* A sample is returned if and only if the DataState includes the states   *)
(* that its SampleInfo shows; and the status condition, enabled_statuses() *)
(* and status_changes() are of the statuses the application asked for.     *)
THEOREM StatesStayAgreed == ApplicationSpec => []StatesAgree
<1>1. ApplicationSpec => StatesInit /\ [][StatesNext]_stateVars
  <2>1. [ApplicationNext]_<<stateVars, maskVars>> => [StatesNext]_stateVars
      BY DEF ApplicationNext
  <2> QED
      BY <2>1, PTL DEF ApplicationSpec, ApplicationInit
<1>2. ApplicationSpec => MasksInit /\ [][MasksNext]_maskVars
  <2>1. [ApplicationNext]_<<stateVars, maskVars>> => [MasksNext]_maskVars
      BY DEF ApplicationNext
  <2> QED
      BY <2>1, PTL DEF ApplicationSpec, ApplicationInit
<1>3. SampleInv /\ MaskInv => StatesAgree
    BY MasksAgreeByInv DEF SampleInv, StatesAgree
<1> QED
    BY <1>1, <1>2, <1>3, SampleInvariant, MaskInvariant, PTL

-----------------------------------------------------------------------------
(* The parts of a reader keep their types beside each other: none of them  *)
(* touches the state of another.                                           *)
THEOREM ReaderTypeCorrect == ReaderSpec => []ReaderTypeOK
<1>1. ReaderSpec => Spec
  <2>1. [ReaderNext]_<<subject, vars, filterVars, stateVars, maskVars>> => [Next]_vars
    BY DEF ReaderNext, ListenerPart, Filters, SampleSelection, StatusMasking
  <2> QED
    BY <2>1, PTL DEF ReaderSpec, ReaderInit, Spec
<1>2. ReaderSpec => FilterSpec
  <2>1. [ReaderNext]_<<subject, vars, filterVars, stateVars, maskVars>> => [FilterNext]_filterVars
    BY DEF ReaderNext, ListenerPart, Filters, SampleSelection, StatusMasking
  <2> QED
    BY <2>1, PTL DEF ReaderSpec, ReaderInit, FilterSpec
<1>3. ReaderSpec => ApplicationSpec
  <2>1. [ReaderNext]_<<subject, vars, filterVars, stateVars, maskVars>>
          => [ApplicationNext]_<<stateVars, maskVars>>
    BY DEF ReaderNext, ListenerPart, Filters, SampleSelection, StatusMasking, ApplicationNext
  <2> QED
    BY <2>1, PTL DEF ReaderSpec, ReaderInit, ApplicationSpec, ApplicationInit
<1>4. ReaderSpec => [](subject \in {"listener", "filter", "state", "mask"})
  <2> DEFINE Subject == subject \in {"listener", "filter", "state", "mask"}
  <2>1. ReaderInit => Subject
    BY DEF ReaderInit
  <2>2. Subject /\ [ReaderNext]_<<subject, vars, filterVars, stateVars, maskVars>> => Subject'
    BY DEF ReaderNext, ListenerPart, Filters, SampleSelection, StatusMasking
  <2> QED
    BY <2>1, <2>2, PTL DEF ReaderSpec
<1>5. ReaderSpec => [](StatesTypeOK /\ MasksTypeOK)
  <2>1. ApplicationSpec => StatesInit /\ [][StatesNext]_stateVars /\ MasksInit /\ [][MasksNext]_maskVars
    <3>1. [ApplicationNext]_<<stateVars, maskVars>> => [StatesNext]_stateVars
      BY DEF ApplicationNext
    <3>2. [ApplicationNext]_<<stateVars, maskVars>> => [MasksNext]_maskVars
      BY DEF ApplicationNext
    <3> QED
      BY <3>1, <3>2, PTL DEF ApplicationSpec, ApplicationInit
  <2>2. SampleInv /\ MaskInv => StatesTypeOK /\ MasksTypeOK
    BY DEF SampleInv, MaskInv
  <2> QED
    BY <1>3, <2>1, <2>2, SampleInvariant, MaskInvariant, PTL
<1> QED
  BY <1>1, <1>2, <1>4, <1>5, TypeCorrect, FilterTypeCorrect, PTL DEF ReaderTypeOK
=============================================================================
