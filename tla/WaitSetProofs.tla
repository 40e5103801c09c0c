--------------------------- MODULE WaitSetProofs ---------------------------
(***************************************************************************)
(* Proofs about WaitSetConditions, for any number of threads, waitsets and *)
(* conditions: types, AttachmentsAgree and NoDeadlock.                     *)
(*                                                                         *)
(* The argument: a thread holds exactly the mutexes that its place in the  *)
(* code says (Mutexes), so that it alone works on what they protect. Then  *)
(* the map of a waitset is what the C waitset observes, the loops of the   *)
(* two close() functions still have before them whatever they must detach  *)
(* (LoopOfW, LoopOfC), and what is in a map is in a list unless a thread   *)
(* is between taking it from one and from the other (Listing).             *)
(***************************************************************************)
EXTENDS WaitSetConditions, FiniteSetTheorems, TLAPS

(* Where a thread has the mutex of the list of its condition, of its       *)
(* waitset, and, if it closes a condition, of that condition.              *)
InList == {"insert", "erase", "handle", "cattach", "cdetach", "done"}
InWaitSet == InList \cup {"lockL", "nextC"}
InCondition == {"snapshot", "nextW", "lockW", "lockL", "erase", "cdetach", "done"}
InVisit == {"each", "trigger", "functor", "collect"}

(* Which member functions are where, and with what.                        *)
Placed ==
    \A t \in Threads :
        /\ (pc[t] = "idle") = (op[t] = "none")
        /\ pc[t] \in InList \cup {"lockL"} => op[t] \in {"attach", "detach", "closeW", "closeC"}
        /\ pc[t] \in {"insert", "cattach"} => op[t] = "attach"
        /\ pc[t] \in {"erase", "cdetach"} => op[t] # "attach"
        /\ pc[t] = "handle" => op[t] # "closeC"
        /\ pc[t] = "nextC" => op[t] = "closeW"
        /\ pc[t] \in {"snapshot", "nextW"} => op[t] = "closeC"
        /\ pc[t] = "lockC" => op[t] \in {"closeC", "set"}
        /\ pc[t] = "lockW" =>
              op[t] \in {"attach", "detach", "closeW", "closeC", "wait", "dispatch"}
        /\ pc[t] \in {"block", "waiting"} => op[t] \in {"wait", "dispatch"}
        /\ pc[t] \in InVisit => op[t] \in {"wait", "dispatch", "redispatch"}
        /\ pc[t] \in InWaitSet \cup {"lockW", "block", "waiting"} => w[t] \in WaitSets
        /\ pc[t] \in InList \cup {"lockL", "lockC", "snapshot", "nextW", "trigger", "functor",
                                  "collect"} => c[t] \in Conditions
        /\ pc[t] = "lockW" /\ op[t] \in {"attach", "detach", "closeC"} => c[t] \in Conditions
        /\ op[t] = "none" => todo[t] = {}
        /\ IF op[t] = "closeC" THEN todo[t] \subseteq WaitSets ELSE todo[t] \subseteq Conditions

(* Who has which mutex. An exception releases what its thread has.         *)
Mutexes ==
    /\ \A t \in Threads : pc[t] \in InWaitSet => wOwner[w[t]] = t
    /\ \A t \in Threads : pc[t] \in InList => lOwner[c[t]] = t
    /\ \A t \in Threads : op[t] = "closeC" /\ pc[t] \in InCondition => cOwner[c[t]] = t
    /\ \A ws \in WaitSets : wOwner[ws] # Nobody =>
          /\ w[wOwner[ws]] = ws
          /\ pc[wOwner[ws]] \in InWaitSet \cup {"throw"}
    /\ \A x \in Conditions : lOwner[x] # Nobody =>
          /\ c[lOwner[x]] = x
          /\ pc[lOwner[x]] \in InList \cup {"throw"}
    /\ \A x \in Conditions : cOwner[x] # Nobody =>
          /\ c[cOwner[x]] = x
          /\ op[cOwner[x]] = "closeC"
          /\ pc[cOwner[x]] \in InCondition \cup {"throw"}

(* A thread that has the mutex of a waitset found it open.                 *)
OpenInside == \A t \in Threads : pc[t] \in InWaitSet => ~wClosed[w[t]]

(* A thread between the list and the map: a condition to attach is in the  *)
(* list already, a condition to detach is still in the map.                *)
Between ==
    \A t \in Threads :
        /\ pc[t] \in {"handle", "cattach"} /\ op[t] = "attach" => w[t] \in listed[c[t]]
        /\ pc[t] \in {"handle", "cdetach"} /\ op[t] # "attach" => c[t] \in conditions[w[t]]

Detaching(t, ws, x) ==
    pc[t] \in {"handle", "cdetach"} /\ op[t] # "attach" /\ w[t] = ws /\ c[t] = x

Listing ==
    \A ws \in WaitSets : \A x \in conditions[ws] :
        ws \in listed[x] \/ \E t \in Threads : Detaching(t, ws, x)

(* What the loop of close() of a waitset has still to detach.              *)
LoopOfW ==
    \A t \in Threads : op[t] = "closeW" /\ pc[t] \in InWaitSet =>
        \A x \in conditions[w[t]] :
            x \in todo[t] \/ (x = c[t] /\ pc[t] \in {"lockL", "erase", "handle", "cdetach"})

(* What the loop of close() of a condition has still to leave; nobody is   *)
(* about to attach the condition.                                          *)
InLoopOfC(t) == op[t] = "closeC" /\ pc[t] \in InCondition \ {"snapshot"}

LoopOfC ==
    \A t \in Threads : InLoopOfC(t) =>
        /\ \A ws \in WaitSets : c[t] \in conditions[ws] =>
              ws \in todo[t] \/ (ws = w[t] /\ pc[t] \in {"lockW", "lockL", "erase", "cdetach"})
        /\ \A u \in Threads : pc[u] = "cattach" => c[u] # c[t]

WInv ==
    /\ TypeOK /\ Placed /\ Mutexes /\ OpenInside /\ Between /\ Listing /\ LoopOfW /\ LoopOfC
    /\ attached = conditions /\ ClosedIsDetached

-----------------------------------------------------------------------------
(* What a call that begins is about.                                       *)
Fits(o, ws, x, next) ==
    \/ o \in {"attach", "detach"} /\ ws \in WaitSets /\ x \in Conditions /\ next = "lockW"
    \/ o \in {"closeW", "wait", "dispatch"} /\ ws \in WaitSets /\ x = Nobody /\ next = "lockW"
    \/ o \in {"closeC", "set"} /\ ws = Nobody /\ x \in Conditions /\ next = "lockC"
    \/ o = "closeC" /\ ws = Nobody /\ x \in Conditions /\ next = "throw"

Begins(t) ==
    \E o \in Ops, ws \in WaitSets \cup {Nobody}, x \in Conditions \cup {Nobody},
       next \in {"lockW", "lockC", "throw"} : Call(t, o, ws, x, next) /\ Fits(o, ws, x, next)

LEMMA CallsBegin ==
    ASSUME NEW t \in Threads, Calling(t)
    PROVE  Begins(t) \/ \E x \in Conditions : Drop(t, x)
  BY DEF Calling, CallAttach, CallDetach, CallCloseW, CallWait, CallDispatch, CallCloseC,
     CallSet,
         Begins, Fits, Ops

-----------------------------------------------------------------------------
(* A loop gets the waitsets or the conditions it has to visit.             *)
LEMMA TodoTyped ==
    ASSUME TypeOK, NEW t \in Threads, NEW S,
           S \in SUBSET WaitSets \/ S \in SUBSET Conditions,
           todo' = [todo EXCEPT ![t] = S]
    PROVE  todo' \in [Threads -> (SUBSET WaitSets) \cup (SUBSET Conditions)]
<1>1. S \in (SUBSET WaitSets) \cup (SUBSET Conditions)
  OBVIOUS
<1> DEFINE Todos == (SUBSET WaitSets) \cup (SUBSET Conditions)
<1>2. todo \in [Threads -> Todos] /\ S \in Todos
  BY <1>1 DEF TypeOK
<1> HIDE DEF Todos
<1>3. todo' \in [Threads -> Todos]
  BY <1>2
<1> QED
  BY <1>3 DEF Todos

-----------------------------------------------------------------------------
(* What Return does.                                                       *)
Returned(t) ==
    /\ pc' \in [Threads -> PCs] /\ pc'[t] = "idle"
    /\ op' \in [Threads -> (Ops \ {"drop"}) \cup {"none", "redispatch"}]
    /\ w' \in [Threads -> WaitSets \cup {Nobody}]
    /\ c' \in [Threads -> Conditions \cup {Nobody}]
    /\ todo' \in [Threads -> (SUBSET WaitSets) \cup (SUBSET Conditions)]
    /\ size' \in [Threads -> 0 .. Cardinality(Conditions)]
    /\ hold' \in [Threads -> SUBSET Conditions]
    /\ op'[t] = "none" /\ todo'[t] = {}
    /\ \A u \in Threads \ {t} :
          /\ pc'[u] = pc[u] /\ op'[u] = op[u] /\ w'[u] = w[u] /\ c'[u] = c[u]
          /\ todo'[u] = todo[u]

LEMMA Returns ==
    ASSUME TypeOK, NEW t \in Threads, Return(t)
    PROVE  Returned(t)
<1>1. 0 \in 0 .. Cardinality(Conditions)
  BY FiniteAssumption, FS_CardinalityType
<1>2. {} \in (SUBSET WaitSets) \cup (SUBSET Conditions)
  OBVIOUS
<1> QED
  BY <1>1, <1>2 DEF Returned, TypeOK, Return, Goto, PCs

(* What attaching and detaching do: dds_waitset_detach never fails.        *)
AttachFailed(t) ==
    /\ pc[t] = "cattach" /\ op[t] = "attach"
    /\ pc' = [pc EXCEPT ![t] = "throw"]
    /\ UNCHANGED <<op, w, c, todo, size, hold, owners, shared, trig, app>>

AttachedOne(t) ==
    /\ pc[t] = "cattach" /\ op[t] = "attach" /\ state[c[t]] = "open"
    /\ w[t] \in WaitSets /\ c[t] \in Conditions
    /\ wOwner[w[t]] = t /\ lOwner[c[t]] = t /\ ~wClosed[w[t]] /\ w[t] \in listed[c[t]]
    /\ UNCHANGED <<op, w, c, todo, size, hold, owners, wClosed, state, listed, trig, app>>
    /\ pc' = [pc EXCEPT ![t] = "done"]
    /\ conditions' \in [WaitSets -> SUBSET Conditions]
    /\ attached' = conditions'
    /\ \A ws \in WaitSets : conditions'[ws] =
          IF ws = w[t] THEN conditions[ws] \cup {c[t]} ELSE conditions[ws]

DetachedOne(t) ==
    /\ pc[t] = "cdetach" /\ op[t] \in {"detach", "closeW", "closeC"}
    /\ w[t] \in WaitSets /\ c[t] \in Conditions
    /\ wOwner[w[t]] = t /\ lOwner[c[t]] = t
    /\ UNCHANGED <<op, w, c, todo, size, hold, owners, wClosed, state, listed, trig, app>>
    /\ pc' = [pc EXCEPT ![t] = "done"]
    /\ conditions' \in [WaitSets -> SUBSET Conditions]
    /\ attached' = conditions'
    /\ \A ws \in WaitSets : conditions'[ws] =
          IF ws = w[t] THEN conditions[ws] \ {c[t]} ELSE conditions[ws]

LEMMA Attaches ==
    ASSUME WInv, NEW t \in Threads, CAttach(t)
    PROVE  AttachFailed(t) \/ AttachedOne(t)
<1> USE DEF WInv, AttachedOne, AttachFailed
<1>1. /\ pc[t] = "cattach" /\ op[t] = "attach"
      /\ w[t] \in WaitSets /\ c[t] \in Conditions
      /\ wOwner[w[t]] = t /\ lOwner[c[t]] = t /\ ~wClosed[w[t]] /\ w[t] \in listed[c[t]]
  BY DEF CAttach, Placed, Mutexes, OpenInside, Between, InList, InWaitSet
<1>2. UNCHANGED <<op, w, c, todo, size, hold, owners, wClosed, state, listed, trig, app>>
  BY DEF CAttach
<1>3. CASE state[c[t]] # "open"
  BY <1>1, <1>2, <1>3 DEF CAttach, Goto, shared
<1>4. CASE state[c[t]] = "open"
  <2>1. /\ pc' = [pc EXCEPT ![t] = "done"]
        /\ conditions' = [conditions EXCEPT ![w[t]] = conditions[w[t]] \cup {c[t]}]
        /\ attached' = [attached EXCEPT ![w[t]] = attached[w[t]] \cup {c[t]}]
    BY <1>4 DEF CAttach, Goto, MapWith
  <2>2. attached' = conditions'
    BY <2>1
  <2>3. /\ conditions' \in [WaitSets -> SUBSET Conditions]
        /\ \A ws \in WaitSets : conditions'[ws] =
              IF ws = w[t] THEN conditions[ws] \cup {c[t]} ELSE conditions[ws]
    BY <1>1, <2>1 DEF TypeOK
  <2> QED
    BY <1>1, <1>2, <1>4, <2>1, <2>2, <2>3
<1> QED
  BY <1>3, <1>4

LEMMA Detaches ==
    ASSUME WInv, NEW t \in Threads, CDetach(t)
    PROVE  DetachedOne(t)
<1> USE DEF WInv, DetachedOne
<1>1. /\ pc[t] = "cdetach" /\ op[t] \in {"detach", "closeW", "closeC"}
      /\ w[t] \in WaitSets /\ c[t] \in Conditions
      /\ wOwner[w[t]] = t /\ lOwner[c[t]] = t
  BY DEF CDetach, Placed, Mutexes, InList, InWaitSet
<1>2. UNCHANGED <<op, w, c, todo, size, hold, owners, wClosed, state, listed, trig, app>>
  BY DEF CDetach
<1>3. c[t] \in conditions[w[t]] /\ state[c[t]] = "open" /\ c[t] \in attached[w[t]]
  BY <1>1 DEF Between, ClosedIsDetached
<1>4. /\ pc' = [pc EXCEPT ![t] = "done"]
      /\ conditions' = [conditions EXCEPT ![w[t]] = conditions[w[t]] \ {c[t]}]
      /\ attached' = [attached EXCEPT ![w[t]] = attached[w[t]] \ {c[t]}]
  BY <1>3 DEF CDetach, Goto
<1>5. attached' = conditions'
  BY <1>4
<1>6. /\ conditions' \in [WaitSets -> SUBSET Conditions]
      /\ \A ws \in WaitSets : conditions'[ws] =
            IF ws = w[t] THEN conditions[ws] \ {c[t]} ELSE conditions[ws]
  BY <1>1, <1>4 DEF TypeOK
<1> QED
  BY <1>1, <1>2, <1>4, <1>5, <1>6

(* At the end of close() the loops have left nothing attached.             *)
LEMMA LoopsEnd ==
    ASSUME WInv, NEW t \in Threads
    PROVE  /\ FinishW(t) => w[t] \in WaitSets /\ conditions[w[t]] = {} /\ attached' = attached
           /\ FinishC(t) => /\ c[t] \in Conditions /\ attached' = attached
                            /\ \A ws \in WaitSets : c[t] \notin conditions[ws]
<1> USE DEF WInv
<1>1. ASSUME FinishW(t)
      PROVE  w[t] \in WaitSets /\ conditions[w[t]] = {} /\ attached' = attached
  <2>1. w[t] \in WaitSets /\ conditions[w[t]] = {}
    BY <1>1 DEF FinishW, Placed, LoopOfW, InWaitSet
  <2> QED
    BY <1>1, <2>1 DEF FinishW, TypeOK
<1>2. ASSUME FinishC(t)
      PROVE  /\ c[t] \in Conditions /\ attached' = attached
             /\ \A ws \in WaitSets : c[t] \notin conditions[ws]
  <2>1. c[t] \in Conditions /\ \A ws \in WaitSets : c[t] \notin conditions[ws]
    BY <1>2 DEF FinishC, Placed, LoopOfC, InLoopOfC, InCondition
  <2>2. CASE Kind[c[t]] = "status"
    BY <1>2, <2>1, <2>2 DEF FinishC
  <2>3. CASE Kind[c[t]] # "status"
    <3>1. attached' = [ws \in WaitSets |-> attached[ws] \ {c[t]}]
      BY <1>2, <2>3 DEF FinishC
    <3> QED
      BY <2>1, <3>1 DEF TypeOK
  <2> QED
    BY <2>1, <2>2, <2>3
<1> QED
  BY <1>1, <1>2

-----------------------------------------------------------------------------
(* The steps that change no mutex and no record of what is attached, and   *)
(* the others.                                                             *)
Looking(t) ==
    \/ LockClosedW(t) \/ Measure(t) \/ LockClosedC(t) \/ SetTrigger(t) \/ Block(t) \/ WakeUp(t)
    \/ TimeOut(t) \/ Each(t) \/ Trigger(t) \/ Functor(t) \/ Collect(t) \/ FinishWait(t)
    \/ Redispatch(t)

Working(t) ==
    \/ LockW(t) \/ BeginCloseW(t) \/ LockL(t) \/ Insert(t) \/ Erase(t) \/ Handle(t)
    \/ CAttach(t) \/ CDetach(t)
    \/ DoneOne(t) \/ NextC(t) \/ FinishW(t) \/ LockC(t) \/ Snapshot(t) \/ NextW(t)
    \/ FinishC(t) \/ Throw(t)

Unmoved == UNCHANGED <<locals, owners, shared>>

LEMMA StepKinds ==
    ASSUME [Next]_vars
    PROVE  \/ \E t \in Threads : Begins(t) \/ Looking(t) \/ Working(t)
           \/ /\ Unmoved
              /\ trig' = trig \/ \E x \in Conditions : Event(x)
              /\ app' = app \/ \E x \in Conditions : app' = app \ {x}
  BY CallsBegin DEF Next, Step, Looking, Working, Drop, Event, vars, Unmoved, locals, owners,
     shared

(* Types: kept by the steps that only look.                                *)
LEMMA TypeOKLooking ==
    ASSUME WInv, NEW t \in Threads, Begins(t) \/ Looking(t)
    PROVE  TypeOK'
<1>0. \A S \in SUBSET Conditions : Cardinality(S) \in 0 .. Cardinality(Conditions)
  BY FiniteAssumption, FS_CardinalityType, FS_Subset
<1> USE NobodyAssumption DEF TypeOK, PCs, Ops, Placed, InList, InWaitSet, InVisit, locals,
    owners, shared, Goto
<1>1. CASE LockClosedW(t)
  BY <1>1 DEF WInv, LockClosedW, AtWaitSet
<1>2. CASE Measure(t)
  <2>1. size' = [size EXCEPT ![t] = Cardinality(conditions[w[t]])] /\ w[t] \in WaitSets
    BY <1>2 DEF WInv, Measure, AtWaitSet, RoomFor
  <2>2. size' \in [Threads -> 0 .. Cardinality(Conditions)]
    BY <1>0, <2>1 DEF WInv
  <2> QED
    BY <1>2, <2>2 DEF WInv, Measure, AtWaitSet
<1>3. CASE LockClosedC(t)
  BY <1>3 DEF WInv, LockClosedC, AtCondition
<1>4. CASE SetTrigger(t)
  <2>1. Returned(t)
    BY <1>4, Returns DEF WInv, SetTrigger
  <2>2. c[t] \in Conditions
    BY <1>4 DEF WInv, SetTrigger, AtCondition
  <2>3. trig' \subseteq Conditions
    BY <1>4, <2>2 DEF WInv, SetTrigger
  <2>4. UNCHANGED <<owners, shared, app>>
    BY <1>4 DEF SetTrigger
  <2> QED
    BY <2>1, <2>3, <2>4 DEF WInv, Returned
<1>5. CASE Block(t)
  BY <1>5 DEF WInv, Block
<1>6. CASE WakeUp(t)
  <2>1. PICK K \in SUBSET (attached[w[t]] \cap trig) : todo' = [todo EXCEPT ![t] = K]
    BY <1>6 DEF WakeUp
  <2>2. K \in SUBSET Conditions
    BY DEF WInv
  <2>3. todo' \in [Threads -> (SUBSET WaitSets) \cup (SUBSET Conditions)]
    BY <2>1, <2>2, TodoTyped DEF WInv
  <2> QED
    BY <1>6, <2>3 DEF WInv, WakeUp
<1>7. CASE TimeOut(t)
  BY <1>7 DEF WInv, TimeOut
<1>8. CASE Each(t)
  BY <1>8 DEF WInv, Each, Beyond
<1>9. CASE Trigger(t)
  BY <1>9 DEF WInv, Trigger
<1>10. CASE Functor(t)
  BY <1>10 DEF WInv, Functor
<1>11. CASE Collect(t)
  BY <1>11 DEF WInv, Collect
<1>12. CASE FinishWait(t)
  <2>1. Returned(t)
    BY <1>12, Returns DEF WInv, FinishWait
  <2> QED
    BY <1>12, <2>1 DEF WInv, Returned, FinishWait
<1>13. CASE Redispatch(t)
  <2>1. todo' = [todo EXCEPT ![t] = hold[t]] /\ hold[t] \in SUBSET Conditions
    BY <1>13 DEF WInv, Redispatch
  <2>2. todo' \in [Threads -> (SUBSET WaitSets) \cup (SUBSET Conditions)]
    BY <2>1, TodoTyped DEF WInv
  <2> QED
    BY <1>13, <2>2 DEF WInv, Redispatch
<1>14. CASE Begins(t)
  BY <1>14 DEF WInv, Begins, Call, Fits
<1> QED
  BY <1>1, <1>2, <1>3, <1>4, <1>5, <1>6, <1>7, <1>8, <1>9, <1>10, <1>11, <1>12, <1>13,
     <1>14 DEF Looking

(* Types: kept by the steps that work.                                     *)
LEMMA TypeOKWorking ==
    ASSUME WInv, NEW t \in Threads, Working(t)
    PROVE  TypeOK'
<1>0. \A S \in SUBSET Conditions : Cardinality(S) \in 0 .. Cardinality(Conditions)
  BY FiniteAssumption, FS_CardinalityType, FS_Subset
<1> USE NobodyAssumption DEF TypeOK, PCs, Ops, Placed, InList, InWaitSet, InVisit, locals,
    owners, shared, Goto
<1>1. CASE LockW(t)
  BY <1>1 DEF WInv, LockW, AtWaitSet
<1>2. CASE BeginCloseW(t)
  <2>1. todo' = [todo EXCEPT ![t] = conditions[w[t]]] /\ conditions[w[t]] \in SUBSET Conditions
    BY <1>2 DEF WInv, BeginCloseW, AtWaitSet
  <2>2. todo' \in [Threads -> (SUBSET WaitSets) \cup (SUBSET Conditions)]
    BY <2>1, TodoTyped DEF WInv
  <2> QED
    BY <1>2, <2>2 DEF WInv, BeginCloseW, AtWaitSet
<1>3. CASE LockL(t)
  BY <1>3 DEF WInv, LockL
<1>4. CASE Insert(t)
  BY <1>4 DEF WInv, Insert, ListWith
<1>5. CASE Erase(t)
  BY <1>5 DEF WInv, Erase, HandlePassed
<1>6. CASE Handle(t)
  BY <1>6 DEF WInv, Handle
<1>7. CASE CAttach(t)
  <2>1. CASE AttachFailed(t)
    BY <2>1 DEF WInv, AttachFailed
  <2>2. CASE AttachedOne(t)
    BY <2>2 DEF WInv, AttachedOne
  <2> QED
    BY <1>7, <2>1, <2>2, Attaches
<1>8. CASE CDetach(t)
  <2>1. DetachedOne(t)
    BY <1>8, Detaches
  <2> QED
    BY <2>1 DEF WInv, DetachedOne
<1>9. CASE DoneOne(t)
  <2>0. w[t] \in WaitSets /\ c[t] \in Conditions
    BY <1>9 DEF WInv, DoneOne
  <2>1. CASE op[t] \in {"attach", "detach"}
    <3>1. Return(t)
      BY <1>9, <2>1 DEF DoneOne
    <3>2. Returned(t)
      BY <3>1, Returns DEF WInv
    <3>3. /\ lOwner' \in [Conditions -> Threads \cup {Nobody}]
          /\ wOwner' \in [WaitSets -> Threads \cup {Nobody}]
      BY <1>9, <2>0, <2>1 DEF WInv, DoneOne
    <3> QED
      BY <1>9, <3>2, <3>3 DEF WInv, Returned, DoneOne
  <2>2. CASE op[t] \notin {"attach", "detach"}
    BY <1>9, <2>2 DEF WInv, DoneOne
  <2> QED
    BY <2>1, <2>2
<1>10. CASE NextC(t)
  BY <1>10 DEF WInv, NextC, Beyond
<1>11. CASE FinishW(t)
  <2>1. Returned(t)
    BY <1>11, Returns DEF WInv, FinishW
  <2> QED
    BY <1>11, <2>1 DEF WInv, Returned, FinishW
<1>12. CASE LockC(t)
  BY <1>12 DEF WInv, LockC, AtCondition
<1>13. CASE Snapshot(t)
  BY <1>13 DEF WInv, Snapshot, SnapshotOf
<1>14. CASE NextW(t)
  BY <1>14 DEF WInv, NextW, Beyond
<1>15. CASE FinishC(t)
  <2>1. Returned(t)
    BY <1>15, Returns DEF WInv, FinishC
  <2>2. c[t] \in Conditions /\ attached' = attached
    BY <1>15, LoopsEnd
  <2>3. state' \in [Conditions -> {"open", "closed", "nil"}]
    BY <1>15, <2>2 DEF WInv, FinishC
  <2>4. cOwner' \in [Conditions -> Threads \cup {Nobody}]
    BY <1>15, <2>2 DEF WInv, FinishC
  <2>5. UNCHANGED <<wOwner, lOwner, wClosed, conditions, listed, trig, app>>
    BY <1>15 DEF FinishC
  <2> QED
    BY <2>1, <2>2, <2>3, <2>4, <2>5 DEF WInv, Returned
<1>16. CASE Throw(t)
  <2>1. Returned(t)
    BY <1>16, Returns DEF WInv, Throw, Released
  <2> QED
    BY <1>16, <2>1 DEF WInv, Returned, Throw, Released
<1> QED
  BY <1>1, <1>2, <1>3, <1>4, <1>5, <1>6, <1>7, <1>8, <1>9, <1>10, <1>11, <1>12, <1>13, <1>14,
     <1>15, <1>16 DEF Working

(* Which function is where: kept by the steps that only look.              *)
LEMMA PlacedLooking ==
    ASSUME WInv, NEW t \in Threads, Begins(t) \/ Looking(t)
    PROVE  Placed'
<1> USE NobodyAssumption DEF TypeOK, Ops, Placed, InList, InWaitSet, InVisit, locals, owners,
    shared, Goto
<1>1. CASE LockClosedW(t)
  BY <1>1 DEF WInv, LockClosedW, AtWaitSet
<1>2. CASE Measure(t)
  BY <1>2 DEF WInv, Measure, AtWaitSet, RoomFor
<1>3. CASE LockClosedC(t)
  BY <1>3 DEF WInv, LockClosedC, AtCondition
<1>4. CASE SetTrigger(t)
  BY <1>4 DEF WInv, SetTrigger, AtCondition, Return
<1>5. CASE Block(t)
  BY <1>5 DEF WInv, Block
<1>6. CASE WakeUp(t)
  BY <1>6 DEF WInv, WakeUp
<1>7. CASE TimeOut(t)
  BY <1>7 DEF WInv, TimeOut
<1>8. CASE Each(t)
  BY <1>8 DEF WInv, Each, Beyond
<1>9. CASE Trigger(t)
  BY <1>9 DEF WInv, Trigger
<1>10. CASE Functor(t)
  BY <1>10 DEF WInv, Functor
<1>11. CASE Collect(t)
  BY <1>11 DEF WInv, Collect
<1>12. CASE FinishWait(t)
  BY <1>12 DEF WInv, FinishWait, Return
<1>13. CASE Redispatch(t)
  BY <1>13 DEF WInv, Redispatch
<1>14. CASE Begins(t)
  BY <1>14 DEF WInv, Begins, Call, Fits
<1> QED
  BY <1>1, <1>2, <1>3, <1>4, <1>5, <1>6, <1>7, <1>8, <1>9, <1>10, <1>11, <1>12, <1>13,
     <1>14 DEF Looking

(* Which function is where: kept by the steps that work.                   *)
LEMMA PlacedWorking ==
    ASSUME WInv, NEW t \in Threads, Working(t)
    PROVE  Placed'
<1> USE NobodyAssumption DEF TypeOK, Ops, Placed, InList, InWaitSet, InVisit, locals, owners,
    shared, Goto
<1>1. CASE LockW(t)
  BY <1>1 DEF WInv, LockW, AtWaitSet
<1>2. CASE BeginCloseW(t)
  BY <1>2 DEF WInv, BeginCloseW, AtWaitSet
<1>3. CASE LockL(t)
  BY <1>3 DEF WInv, LockL
<1>4. CASE Insert(t)
  BY <1>4 DEF WInv, Insert, ListWith
<1>5. CASE Erase(t)
  BY <1>5 DEF WInv, Erase, HandlePassed
<1>6. CASE Handle(t)
  BY <1>6 DEF WInv, Handle
<1>7. CASE CAttach(t)
  <2>1. CASE AttachFailed(t)
    BY <2>1 DEF WInv, AttachFailed
  <2>2. CASE AttachedOne(t)
    BY <2>2 DEF WInv, AttachedOne
  <2> QED
    BY <1>7, <2>1, <2>2, Attaches
<1>8. CASE CDetach(t)
  <2>1. DetachedOne(t)
    BY <1>8, Detaches
  <2> QED
    BY <2>1 DEF WInv, DetachedOne
<1>9. CASE DoneOne(t)
  BY <1>9 DEF WInv, DoneOne, Return
<1>10. CASE NextC(t)
  BY <1>10 DEF WInv, NextC, Beyond
<1>11. CASE FinishW(t)
  BY <1>11 DEF WInv, FinishW, Return
<1>12. CASE LockC(t)
  BY <1>12 DEF WInv, LockC, AtCondition
<1>13. CASE Snapshot(t)
  BY <1>13 DEF WInv, Snapshot, SnapshotOf
<1>14. CASE NextW(t)
  BY <1>14 DEF WInv, NextW, Beyond
<1>15. CASE FinishC(t)
  BY <1>15 DEF WInv, FinishC, Return
<1>16. CASE Throw(t)
  BY <1>16 DEF WInv, Throw, Released, Return
<1> QED
  BY <1>1, <1>2, <1>3, <1>4, <1>5, <1>6, <1>7, <1>8, <1>9, <1>10, <1>11, <1>12, <1>13, <1>14,
     <1>15, <1>16 DEF Working

(* Who has which mutex: kept by the steps that work.                       *)
LEMMA MutexesWorking ==
    ASSUME WInv, NEW t \in Threads, Working(t)
    PROVE  Mutexes'
<1> USE NobodyAssumption DEF TypeOK, Placed, Mutexes, InList, InWaitSet, InCondition, locals,
    owners, shared, Goto
<1>1. CASE LockW(t)
  BY <1>1 DEF WInv, LockW, AtWaitSet
<1>2. CASE BeginCloseW(t)
  BY <1>2 DEF WInv, BeginCloseW, AtWaitSet
<1>3. CASE LockL(t)
  BY <1>3 DEF WInv, LockL
<1>4. CASE Insert(t)
  BY <1>4 DEF WInv, Insert, ListWith
<1>5. CASE Erase(t)
  BY <1>5 DEF WInv, Erase, HandlePassed
<1>6. CASE Handle(t)
  BY <1>6 DEF WInv, Handle
<1>7. CASE CAttach(t)
  <2>1. CASE AttachFailed(t)
    BY <2>1 DEF WInv, AttachFailed
  <2>2. CASE AttachedOne(t)
    BY <2>2 DEF WInv, AttachedOne
  <2> QED
    BY <1>7, <2>1, <2>2, Attaches
<1>8. CASE CDetach(t)
  <2>1. DetachedOne(t)
    BY <1>8, Detaches
  <2> QED
    BY <2>1 DEF WInv, DetachedOne
<1>9. CASE DoneOne(t)
  <2>0. pc[t] = "done" /\ w[t] \in WaitSets /\ c[t] \in Conditions
    BY <1>9 DEF WInv, DoneOne
  <2>1. CASE op[t] \in {"attach", "detach"}
    <3>1. /\ pc' = [pc EXCEPT ![t] = "idle"] /\ op' = [op EXCEPT ![t] = "none"]
          /\ w' = [w EXCEPT ![t] = Nobody] /\ c' = [c EXCEPT ![t] = Nobody]
          /\ lOwner' = [lOwner EXCEPT ![c[t]] = Nobody] /\ cOwner' = cOwner
          /\ wOwner' = [wOwner EXCEPT ![w[t]] = Nobody]
      BY <1>9, <2>1 DEF DoneOne, Return
    <3> QED
      BY <2>0, <2>1, <3>1 DEF WInv
  <2>2. CASE op[t] = "closeW"
    <3>1. /\ pc' = [pc EXCEPT ![t] = "nextC"] /\ lOwner' = [lOwner EXCEPT ![c[t]] = Nobody]
          /\ UNCHANGED <<op, w, c, wOwner, cOwner>>
      BY <1>9, <2>2 DEF DoneOne
    <3> QED
      BY <2>0, <2>2, <3>1 DEF WInv
  <2>3. CASE op[t] = "closeC"
    <3>1. /\ pc' = [pc EXCEPT ![t] = "nextW"] /\ lOwner' = [lOwner EXCEPT ![c[t]] = Nobody]
          /\ wOwner' = [wOwner EXCEPT ![w[t]] = Nobody] /\ UNCHANGED <<op, w, c, cOwner>>
      BY <1>9, <2>3 DEF DoneOne
    <3> QED
      BY <2>0, <2>3, <3>1 DEF WInv
  <2> QED
    BY <1>9, <2>1, <2>2, <2>3 DEF WInv, DoneOne
<1>10. CASE NextC(t)
  BY <1>10 DEF WInv, NextC, Beyond
<1>11. CASE FinishW(t)
  BY <1>11 DEF WInv, FinishW, Return
<1>12. CASE LockC(t)
  BY <1>12 DEF WInv, LockC, AtCondition
<1>13. CASE Snapshot(t)
  BY <1>13 DEF WInv, Snapshot, SnapshotOf
<1>14. CASE NextW(t)
  BY <1>14 DEF WInv, NextW, Beyond
<1>15. CASE FinishC(t)
  BY <1>15 DEF WInv, FinishC, Return
<1>16. CASE Throw(t)
  BY <1>16 DEF WInv, Throw, Released, Return
<1> QED
  BY <1>1, <1>2, <1>3, <1>4, <1>5, <1>6, <1>7, <1>8, <1>9, <1>10, <1>11, <1>12, <1>13, <1>14,
     <1>15, <1>16 DEF Working

(* The mutex of a waitset and closed: kept by the steps that work.         *)
LEMMA OpenInsideWorking ==
    ASSUME WInv, NEW t \in Threads, Working(t)
    PROVE  OpenInside'
<1> USE NobodyAssumption DEF TypeOK, Placed, Mutexes, OpenInside, InList, InWaitSet, locals,
    owners, shared, Goto
<1>1. CASE LockW(t)
  BY <1>1 DEF WInv, LockW, AtWaitSet
<1>2. CASE BeginCloseW(t)
  BY <1>2 DEF WInv, BeginCloseW, AtWaitSet
<1>3. CASE LockL(t)
  BY <1>3 DEF WInv, LockL
<1>4. CASE Insert(t)
  BY <1>4 DEF WInv, Insert, ListWith
<1>5. CASE Erase(t)
  BY <1>5 DEF WInv, Erase, HandlePassed
<1>6. CASE Handle(t)
  BY <1>6 DEF WInv, Handle
<1>7. CASE CAttach(t)
  <2>1. CASE AttachFailed(t)
    BY <2>1 DEF WInv, AttachFailed
  <2>2. CASE AttachedOne(t)
    BY <2>2 DEF WInv, AttachedOne
  <2> QED
    BY <1>7, <2>1, <2>2, Attaches
<1>8. CASE CDetach(t)
  <2>1. DetachedOne(t)
    BY <1>8, Detaches
  <2> QED
    BY <2>1 DEF WInv, DetachedOne
<1>9. CASE DoneOne(t)
  BY <1>9 DEF WInv, DoneOne, Return
<1>10. CASE NextC(t)
  BY <1>10 DEF WInv, NextC, Beyond
<1>11. CASE FinishW(t)
  BY <1>11 DEF WInv, FinishW, Return
<1>12. CASE LockC(t)
  BY <1>12 DEF WInv, LockC, AtCondition
<1>13. CASE Snapshot(t)
  BY <1>13 DEF WInv, Snapshot, SnapshotOf
<1>14. CASE NextW(t)
  BY <1>14 DEF WInv, NextW, Beyond
<1>15. CASE FinishC(t)
  BY <1>15 DEF WInv, FinishC, Return
<1>16. CASE Throw(t)
  BY <1>16 DEF WInv, Throw, Released, Return
<1> QED
  BY <1>1, <1>2, <1>3, <1>4, <1>5, <1>6, <1>7, <1>8, <1>9, <1>10, <1>11, <1>12, <1>13, <1>14,
     <1>15, <1>16 DEF Working

(* The list and the map, in between: kept by the steps that work.          *)
LEMMA BetweenWorking ==
    ASSUME WInv, NEW t \in Threads, Working(t)
    PROVE  Between'
<1> USE NobodyAssumption DEF TypeOK, Placed, Mutexes, Between, InList, InWaitSet, locals,
    owners, shared, Goto
<1>1. CASE LockW(t)
  BY <1>1 DEF WInv, LockW, AtWaitSet
<1>2. CASE BeginCloseW(t)
  BY <1>2 DEF WInv, BeginCloseW, AtWaitSet
<1>3. CASE LockL(t)
  BY <1>3 DEF WInv, LockL
<1>4. CASE Insert(t)
  BY <1>4 DEF WInv, Insert, ListWith
<1>5. CASE Erase(t)
  BY <1>5 DEF WInv, Erase, HandlePassed
<1>6. CASE Handle(t)
  BY <1>6 DEF WInv, Handle
<1>7. CASE CAttach(t)
  <2>1. CASE AttachFailed(t)
    BY <2>1 DEF WInv, AttachFailed
  <2>2. CASE AttachedOne(t)
    BY <2>2 DEF WInv, AttachedOne
  <2> QED
    BY <1>7, <2>1, <2>2, Attaches
<1>8. CASE CDetach(t)
  <2>1. DetachedOne(t)
    BY <1>8, Detaches
  <2> QED
    BY <2>1 DEF WInv, DetachedOne
<1>9. CASE DoneOne(t)
  BY <1>9 DEF WInv, DoneOne, Return
<1>10. CASE NextC(t)
  BY <1>10 DEF WInv, NextC, Beyond
<1>11. CASE FinishW(t)
  BY <1>11 DEF WInv, FinishW, Return
<1>12. CASE LockC(t)
  BY <1>12 DEF WInv, LockC, AtCondition
<1>13. CASE Snapshot(t)
  BY <1>13 DEF WInv, Snapshot, SnapshotOf
<1>14. CASE NextW(t)
  BY <1>14 DEF WInv, NextW, Beyond
<1>15. CASE FinishC(t)
  BY <1>15 DEF WInv, FinishC, Return
<1>16. CASE Throw(t)
  BY <1>16 DEF WInv, Throw, Released, Return
<1> QED
  BY <1>1, <1>2, <1>3, <1>4, <1>5, <1>6, <1>7, <1>8, <1>9, <1>10, <1>11, <1>12, <1>13, <1>14,
     <1>15, <1>16 DEF Working

(* What is in a map is in a list: kept by the steps that work.             *)
LEMMA ListingWorking ==
    ASSUME WInv, NEW t \in Threads, Working(t)
    PROVE  Listing'
<1> USE NobodyAssumption DEF TypeOK, Placed, Mutexes, Between, Listing, Detaching,
    ClosedIsDetached, InList, InWaitSet, locals, owners, shared, Goto
<1>1. CASE LockW(t)
  BY <1>1 DEF WInv, LockW, AtWaitSet
<1>2. CASE BeginCloseW(t)
  BY <1>2 DEF WInv, BeginCloseW, AtWaitSet
<1>3. CASE LockL(t)
  BY <1>3 DEF WInv, LockL
<1>4. CASE Insert(t)
  BY <1>4 DEF WInv, Insert, ListWith
<1>5. CASE Erase(t)
  BY <1>5 DEF WInv, Erase, HandlePassed
<1>6. CASE Handle(t)
  BY <1>6 DEF WInv, Handle
<1>7. CASE CAttach(t)
  <2>1. CASE AttachFailed(t)
    BY <2>1 DEF WInv, AttachFailed
  <2>2. CASE AttachedOne(t)
    BY <2>2 DEF WInv, AttachedOne
  <2> QED
    BY <1>7, <2>1, <2>2, Attaches
<1>8. CASE CDetach(t)
  <2>1. DetachedOne(t)
    BY <1>8, Detaches
  <2> QED
    BY <2>1 DEF WInv, DetachedOne
<1>9. CASE DoneOne(t)
  BY <1>9 DEF WInv, DoneOne, Return
<1>10. CASE NextC(t)
  BY <1>10 DEF WInv, NextC, Beyond
<1>11. CASE FinishW(t)
  BY <1>11 DEF WInv, FinishW, Return
<1>12. CASE LockC(t)
  BY <1>12 DEF WInv, LockC, AtCondition
<1>13. CASE Snapshot(t)
  BY <1>13 DEF WInv, Snapshot, SnapshotOf
<1>14. CASE NextW(t)
  BY <1>14 DEF WInv, NextW, Beyond
<1>15. CASE FinishC(t)
  BY <1>15 DEF WInv, FinishC, Return
<1>16. CASE Throw(t)
  BY <1>16 DEF WInv, Throw, Released, Return
<1> QED
  BY <1>1, <1>2, <1>3, <1>4, <1>5, <1>6, <1>7, <1>8, <1>9, <1>10, <1>11, <1>12, <1>13, <1>14,
     <1>15, <1>16 DEF Working

(* The loop of close() of a waitset: kept by the steps that work.          *)
LEMMA LoopOfWWorking ==
    ASSUME WInv, NEW t \in Threads, Working(t)
    PROVE  LoopOfW'
<1> USE NobodyAssumption DEF TypeOK, Placed, Mutexes, LoopOfW, Listing, Detaching, Between,
    ClosedIsDetached, InList, InWaitSet, locals, owners, shared, Goto
<1>1. CASE LockW(t)
  BY <1>1 DEF WInv, LockW, AtWaitSet
<1>2. CASE BeginCloseW(t)
  BY <1>2 DEF WInv, BeginCloseW, AtWaitSet
<1>3. CASE LockL(t)
  BY <1>3 DEF WInv, LockL
<1>4. CASE Insert(t)
  BY <1>4 DEF WInv, Insert, ListWith
<1>5. CASE Erase(t)
  BY <1>5 DEF WInv, Erase, HandlePassed
<1>6. CASE Handle(t)
  BY <1>6 DEF WInv, Handle
<1>7. CASE CAttach(t)
  <2>1. CASE AttachFailed(t)
    BY <2>1 DEF WInv, AttachFailed
  <2>2. CASE AttachedOne(t)
    BY <2>2 DEF WInv, AttachedOne
  <2> QED
    BY <1>7, <2>1, <2>2, Attaches
<1>8. CASE CDetach(t)
  <2>1. DetachedOne(t)
    BY <1>8, Detaches
  <2> QED
    BY <2>1 DEF WInv, DetachedOne
<1>9. CASE DoneOne(t)
  BY <1>9 DEF WInv, DoneOne, Return
<1>10. CASE NextC(t)
  BY <1>10 DEF WInv, NextC, Beyond
<1>11. CASE FinishW(t)
  BY <1>11 DEF WInv, FinishW, Return
<1>12. CASE LockC(t)
  BY <1>12 DEF WInv, LockC, AtCondition
<1>13. CASE Snapshot(t)
  BY <1>13 DEF WInv, Snapshot, SnapshotOf
<1>14. CASE NextW(t)
  BY <1>14 DEF WInv, NextW, Beyond
<1>15. CASE FinishC(t)
  BY <1>15 DEF WInv, FinishC, Return
<1>16. CASE Throw(t)
  BY <1>16 DEF WInv, Throw, Released, Return
<1> QED
  BY <1>1, <1>2, <1>3, <1>4, <1>5, <1>6, <1>7, <1>8, <1>9, <1>10, <1>11, <1>12, <1>13, <1>14,
     <1>15, <1>16 DEF Working

(* The loop of close() of a condition: kept by the steps that work.        *)
LEMMA LoopOfCWorking ==
    ASSUME WInv, NEW t \in Threads, Working(t)
    PROVE  LoopOfC'
<1> USE NobodyAssumption DEF TypeOK, Placed, Mutexes, LoopOfC, InLoopOfC, Listing, Detaching,
    InList, InWaitSet, InCondition, locals, owners, shared, Goto
<1>1. CASE LockW(t)
  BY <1>1 DEF WInv, LockW, AtWaitSet
<1>2. CASE BeginCloseW(t)
  BY <1>2 DEF WInv, BeginCloseW, AtWaitSet
<1>3. CASE LockL(t)
  BY <1>3 DEF WInv, LockL
<1>4. CASE Insert(t)
  BY <1>4 DEF WInv, Insert, ListWith
<1>5. CASE Erase(t)
  BY <1>5 DEF WInv, Erase, HandlePassed
<1>6. CASE Handle(t)
  BY <1>6 DEF WInv, Handle
<1>7. CASE CAttach(t)
  <2>1. CASE AttachFailed(t)
    BY <2>1 DEF WInv, AttachFailed
  <2>2. CASE AttachedOne(t)
    <3>1. \A u \in Threads : InLoopOfC(u) => c[u] # c[t]
      BY <2>2 DEF WInv, AttachedOne
    <3>2. \A u \in Threads : InLoopOfC(u)' => InLoopOfC(u)
      BY <2>2 DEF WInv, AttachedOne
    <3>3. \A u \in Threads : pc'[u] = "cattach" => pc[u] = "cattach"
      BY <2>2 DEF WInv, AttachedOne
    <3>4. UNCHANGED <<w, c, op, todo>> /\ \A u \in Threads \ {t} : pc'[u] = pc[u]
      BY <2>2 DEF WInv, AttachedOne
    <3>5. \A u \in Threads, ws \in WaitSets :
            InLoopOfC(u) /\ c[u] \in conditions'[ws] => c[u] \in conditions[ws]
      BY <2>2, <3>1 DEF AttachedOne
    <3> QED
      BY <2>2, <3>1, <3>2, <3>3, <3>4, <3>5 DEF WInv, AttachedOne
  <2> QED
    BY <1>7, <2>1, <2>2, Attaches
<1>8. CASE CDetach(t)
  <2>1. DetachedOne(t)
    BY <1>8, Detaches
  <2> QED
    BY <2>1 DEF WInv, DetachedOne
<1>9. CASE DoneOne(t)
  <2>1. CASE op[t] \in {"attach", "detach"}
    <3>1. /\ pc' = [pc EXCEPT ![t] = "idle"] /\ op' = [op EXCEPT ![t] = "none"]
          /\ w' = [w EXCEPT ![t] = Nobody] /\ c' = [c EXCEPT ![t] = Nobody]
          /\ todo' = [todo EXCEPT ![t] = {}] /\ conditions' = conditions
      BY <1>9, <2>1 DEF DoneOne, Return
    <3> QED
      BY <1>9, <3>1 DEF WInv, DoneOne
  <2>2. CASE op[t] \notin {"attach", "detach"}
    BY <1>9, <2>2 DEF WInv, DoneOne
  <2> QED
    BY <2>1, <2>2
<1>10. CASE NextC(t)
  BY <1>10 DEF WInv, NextC, Beyond
<1>11. CASE FinishW(t)
  BY <1>11 DEF WInv, FinishW, Return
<1>12. CASE LockC(t)
  BY <1>12 DEF WInv, LockC, AtCondition
<1>13. CASE Snapshot(t)
  <2>1. /\ pc[t] = "snapshot" /\ c[t] \in Conditions /\ lOwner[c[t]] = Nobody
        /\ pc' = [pc EXCEPT ![t] = "nextW"] /\ todo' = [todo EXCEPT ![t] = listed[c[t]]]
        /\ UNCHANGED <<op, w, c, conditions>>
    BY <1>13 DEF WInv, Snapshot, SnapshotOf
  <2>2. \A u \in Threads : pc[u] \in InList => c[u] # c[t]
    BY <2>1 DEF WInv
  <2>3. \A ws \in WaitSets : c[t] \in conditions[ws] => ws \in listed[c[t]]
    BY <2>2 DEF WInv
  <2> QED
    BY <2>1, <2>2, <2>3 DEF WInv
<1>14. CASE NextW(t)
  BY <1>14 DEF WInv, NextW, Beyond
<1>15. CASE FinishC(t)
  BY <1>15 DEF WInv, FinishC, Return
<1>16. CASE Throw(t)
  BY <1>16 DEF WInv, Throw, Released, Return
<1> QED
  BY <1>1, <1>2, <1>3, <1>4, <1>5, <1>6, <1>7, <1>8, <1>9, <1>10, <1>11, <1>12, <1>13, <1>14,
     <1>15, <1>16 DEF Working

(* The C waitset observes what is in the map: kept by the steps that work. *)
LEMMA AttachedWorking ==
    ASSUME WInv, NEW t \in Threads, Working(t)
    PROVE  (attached = conditions)'
<1> USE NobodyAssumption DEF TypeOK, locals, owners, shared, Goto
<1>1. CASE LockW(t)
  BY <1>1 DEF WInv, LockW, AtWaitSet
<1>2. CASE BeginCloseW(t)
  BY <1>2 DEF WInv, BeginCloseW, AtWaitSet
<1>3. CASE LockL(t)
  BY <1>3 DEF WInv, LockL
<1>4. CASE Insert(t)
  BY <1>4 DEF WInv, Insert, ListWith
<1>5. CASE Erase(t)
  BY <1>5 DEF WInv, Erase, HandlePassed
<1>6. CASE Handle(t)
  BY <1>6 DEF WInv, Handle
<1>7. CASE CAttach(t)
  <2>1. CASE AttachFailed(t)
    BY <2>1 DEF WInv, AttachFailed
  <2>2. CASE AttachedOne(t)
    BY <2>2 DEF WInv, AttachedOne
  <2> QED
    BY <1>7, <2>1, <2>2, Attaches
<1>8. CASE CDetach(t)
  <2>1. DetachedOne(t)
    BY <1>8, Detaches
  <2> QED
    BY <2>1 DEF WInv, DetachedOne
<1>9. CASE DoneOne(t)
  BY <1>9 DEF WInv, DoneOne, Return
<1>10. CASE NextC(t)
  BY <1>10 DEF WInv, NextC, Beyond
<1>11. CASE FinishW(t)
  <2>1. attached' = attached /\ conditions' = conditions
    BY <1>11, LoopsEnd DEF FinishW
  <2> QED
    BY <1>11, <2>1 DEF WInv, FinishW
<1>12. CASE LockC(t)
  BY <1>12 DEF WInv, LockC, AtCondition
<1>13. CASE Snapshot(t)
  BY <1>13 DEF WInv, Snapshot, SnapshotOf
<1>14. CASE NextW(t)
  BY <1>14 DEF WInv, NextW, Beyond
<1>15. CASE FinishC(t)
  <2>1. attached' = attached /\ \A ws \in WaitSets : c[t] \notin conditions[ws]
    BY <1>15, LoopsEnd
  <2> QED
    BY <1>15, <2>1 DEF WInv, FinishC
<1>16. CASE Throw(t)
  BY <1>16 DEF WInv, Throw, Released, Return
<1> QED
  BY <1>1, <1>2, <1>3, <1>4, <1>5, <1>6, <1>7, <1>8, <1>9, <1>10, <1>11, <1>12, <1>13, <1>14,
     <1>15, <1>16 DEF Working

(* What is closed is detached: kept by the steps that work.                *)
LEMMA ClosedIsDetachedWorking ==
    ASSUME WInv, NEW t \in Threads, Working(t)
    PROVE  ClosedIsDetached'
<1> USE NobodyAssumption DEF TypeOK, Placed, Mutexes, OpenInside, ClosedIsDetached, InList,
    InWaitSet, InCondition, locals, owners, shared, Goto
<1>1. CASE LockW(t)
  BY <1>1 DEF WInv, LockW, AtWaitSet
<1>2. CASE BeginCloseW(t)
  BY <1>2 DEF WInv, BeginCloseW, AtWaitSet
<1>3. CASE LockL(t)
  BY <1>3 DEF WInv, LockL
<1>4. CASE Insert(t)
  BY <1>4 DEF WInv, Insert, ListWith
<1>5. CASE Erase(t)
  BY <1>5 DEF WInv, Erase, HandlePassed
<1>6. CASE Handle(t)
  BY <1>6 DEF WInv, Handle
<1>7. CASE CAttach(t)
  <2>1. CASE AttachFailed(t)
    BY <2>1 DEF WInv, AttachFailed
  <2>2. CASE AttachedOne(t)
    BY <2>2 DEF WInv, AttachedOne
  <2> QED
    BY <1>7, <2>1, <2>2, Attaches
<1>8. CASE CDetach(t)
  <2>1. DetachedOne(t)
    BY <1>8, Detaches
  <2> QED
    BY <2>1 DEF WInv, DetachedOne
<1>9. CASE DoneOne(t)
  BY <1>9 DEF WInv, DoneOne, Return
<1>10. CASE NextC(t)
  BY <1>10 DEF WInv, NextC, Beyond
<1>11. CASE FinishW(t)
  <2>1. attached' = attached /\ conditions[w[t]] = {}
    BY <1>11, LoopsEnd
  <2> QED
    BY <1>11, <2>1 DEF WInv, FinishW
<1>12. CASE LockC(t)
  BY <1>12 DEF WInv, LockC, AtCondition
<1>13. CASE Snapshot(t)
  BY <1>13 DEF WInv, Snapshot, SnapshotOf
<1>14. CASE NextW(t)
  BY <1>14 DEF WInv, NextW, Beyond
<1>15. CASE FinishC(t)
  <2>1. attached' = attached /\ \A ws \in WaitSets : c[t] \notin conditions[ws]
    BY <1>15, LoopsEnd
  <2> QED
    BY <1>15, <2>1 DEF WInv, FinishC
<1>16. CASE Throw(t)
  BY <1>16 DEF WInv, Throw, Released, Return
<1> QED
  BY <1>1, <1>2, <1>3, <1>4, <1>5, <1>6, <1>7, <1>8, <1>9, <1>10, <1>11, <1>12, <1>13, <1>14,
     <1>15, <1>16 DEF Working

-----------------------------------------------------------------------------
(* What the other steps have in common: a thread that has no mutex, but    *)
(* for that of the condition it closes, gets none, and ends no loop.       *)
Quiet(t) ==
    /\ UNCHANGED <<owners, shared>>
    /\ pc[t] \notin InWaitSet \cup {"throw", "snapshot", "nextW"}
    /\ pc'[t] \notin InWaitSet \cup {"snapshot", "nextW"}
    /\ op[t] = "closeC" /\ pc[t] = "lockW" => pc'[t] = "throw" /\ op'[t] = op[t] /\ c'[t] = c[t]
    /\ pc'[t] = "lockW" => op'[t] # "closeC"
    /\ \A u \in Threads \ {t} :
          /\ pc'[u] = pc[u] /\ op'[u] = op[u] /\ w'[u] = w[u] /\ c'[u] = c[u]
          /\ todo'[u] = todo[u]

LEMMA QuietSteps ==
    ASSUME WInv, NEW t \in Threads, Begins(t) \/ Looking(t)
    PROVE  Quiet(t)
<1> USE DEF TypeOK, Placed, Quiet, InList, InWaitSet, InVisit, locals, owners, shared, Goto
<1>1. CASE LockClosedW(t)
  BY <1>1 DEF WInv, LockClosedW, AtWaitSet
<1>2. CASE Measure(t)
  BY <1>2 DEF WInv, Measure, AtWaitSet, RoomFor
<1>3. CASE LockClosedC(t)
  BY <1>3 DEF WInv, LockClosedC, AtCondition
<1>4. CASE SetTrigger(t)
  <2>1. Returned(t)
    BY <1>4, Returns DEF WInv, SetTrigger, AtCondition
  <2> QED
    BY <1>4, <2>1 DEF WInv, Returned, SetTrigger, AtCondition
<1>5. CASE Block(t)
  BY <1>5 DEF WInv, Block
<1>6. CASE WakeUp(t)
  BY <1>6 DEF WInv, WakeUp
<1>7. CASE TimeOut(t)
  BY <1>7 DEF WInv, TimeOut
<1>8. CASE Each(t)
  BY <1>8 DEF WInv, Each, Beyond
<1>9. CASE Trigger(t)
  BY <1>9 DEF WInv, Trigger
<1>10. CASE Functor(t)
  BY <1>10 DEF WInv, Functor
<1>11. CASE Collect(t)
  BY <1>11 DEF WInv, Collect
<1>12. CASE FinishWait(t)
  <2>1. Returned(t)
    BY <1>12, Returns DEF WInv, FinishWait
  <2> QED
    BY <1>12, <2>1 DEF WInv, Returned, FinishWait
<1>13. CASE Redispatch(t)
  BY <1>13 DEF WInv, Redispatch
<1>14. CASE Begins(t)
  BY <1>14 DEF WInv, Begins, Call, Fits
<1> QED
  BY <1>1, <1>2, <1>3, <1>4, <1>5, <1>6, <1>7, <1>8, <1>9, <1>10, <1>11, <1>12, <1>13,
     <1>14 DEF Looking

LEMMA QuietKeeps ==
    ASSUME WInv, NEW t \in Threads, Quiet(t)
    PROVE  /\ Mutexes' /\ OpenInside' /\ Between' /\ Listing' /\ LoopOfW' /\ LoopOfC'
           /\ (attached = conditions)' /\ ClosedIsDetached'
<1> USE NobodyAssumption DEF TypeOK, Quiet, InList, InWaitSet, owners, shared
<1>1. Mutexes'
  BY DEF WInv, Mutexes, InCondition
<1>2. OpenInside'
  BY DEF WInv, OpenInside
<1>3. Between'
  BY DEF WInv, Between
<1>4. Listing'
  BY DEF WInv, Listing, Detaching
<1>5. LoopOfW'
  BY DEF WInv, LoopOfW
<1>6. LoopOfC'
  <2>1. \A u \in Threads : InLoopOfC(u)' => u # t /\ InLoopOfC(u)
    BY DEF WInv, InLoopOfC, InCondition
  <2>2. \A u \in Threads : pc'[u] = "cattach" => u # t /\ pc[u] = "cattach"
    BY DEF WInv
  <2> QED
    BY <2>1, <2>2 DEF WInv, LoopOfC
<1>7. (attached = conditions)'
  BY DEF WInv
<1>8. ClosedIsDetached'
  BY DEF WInv, ClosedIsDetached
<1> QED
  BY <1>1, <1>2, <1>3, <1>4, <1>5, <1>6, <1>7, <1>8

-----------------------------------------------------------------------------
(* WInv is inductive.                                                      *)
LEMMA WInvInit ==
    ASSUME Init
    PROVE  WInv
<1> USE NobodyAssumption DEF Init
<1>1. TypeOK
  <2>1. 0 \in 0 .. Cardinality(Conditions)
    BY FiniteAssumption, FS_CardinalityType
  <2> QED
    BY <2>1 DEF TypeOK, PCs
<1>2. Placed /\ Mutexes /\ OpenInside /\ Between
  BY DEF Placed, Mutexes, OpenInside, Between, InList, InWaitSet, InCondition, InVisit
<1>3. Listing /\ LoopOfW /\ LoopOfC /\ ClosedIsDetached /\ attached = conditions
  BY DEF Listing, LoopOfW, LoopOfC, InLoopOfC, InWaitSet, InCondition, ClosedIsDetached
<1> QED
  BY <1>1, <1>2, <1>3 DEF WInv

LEMMA WInvNext ==
    ASSUME WInv, [Next]_vars
    PROVE  WInv'
<1>1. ASSUME NEW t \in Threads, Begins(t) \/ Looking(t)
      PROVE  WInv'
  <2>1. TypeOK' /\ Placed'
    BY <1>1, TypeOKLooking, PlacedLooking
  <2>2. /\ Mutexes' /\ OpenInside' /\ Between' /\ Listing' /\ LoopOfW' /\ LoopOfC'
        /\ (attached = conditions)' /\ ClosedIsDetached'
    BY <1>1, QuietSteps, QuietKeeps
  <2> QED
    BY <2>1, <2>2 DEF WInv
<1>2. ASSUME NEW t \in Threads, Working(t)
      PROVE  WInv'
  <2>1. TypeOK' /\ Placed'
    BY <1>2, TypeOKWorking, PlacedWorking
  <2>2. Mutexes' /\ OpenInside' /\ Between'
    BY <1>2, MutexesWorking, OpenInsideWorking, BetweenWorking
  <2>3. Listing' /\ LoopOfW' /\ LoopOfC'
    BY <1>2, ListingWorking, LoopOfWWorking, LoopOfCWorking
  <2>4. (attached = conditions)' /\ ClosedIsDetached'
    BY <1>2, AttachedWorking, ClosedIsDetachedWorking
  <2> QED
    BY <2>1, <2>2, <2>3, <2>4 DEF WInv
<1>3. ASSUME Unmoved, trig' \subseteq Conditions, app' \subseteq Conditions
      PROVE  WInv'
  <2> USE <1>3 DEF WInv, Unmoved, locals, owners, shared
  <2>1. TypeOK' /\ (attached = conditions)'
    BY DEF TypeOK
  <2>2. Placed' /\ Mutexes' /\ OpenInside' /\ Between'
    BY DEF Placed, Mutexes, OpenInside, Between
  <2>3. Listing' /\ LoopOfW' /\ LoopOfC' /\ ClosedIsDetached'
    BY DEF Listing, Detaching, LoopOfW, LoopOfC, InLoopOfC, ClosedIsDetached
  <2> QED
    BY <2>1, <2>2, <2>3
<1>4. \/ \E t \in Threads : Begins(t) \/ Looking(t) \/ Working(t)
      \/ /\ Unmoved
         /\ trig' = trig \/ \E x \in Conditions : Event(x)
         /\ app' = app \/ \E x \in Conditions : app' = app \ {x}
  BY StepKinds
<1>5. trig \subseteq Conditions /\ app \subseteq Conditions
  BY DEF WInv, TypeOK
<1>6. \A x \in Conditions : Event(x) => trig' \subseteq Conditions
  BY <1>5 DEF Event
<1> QED
  BY <1>1, <1>2, <1>3, <1>4, <1>5, <1>6

LEMMA WInvAlways == Spec => []WInv
<1>1. Init => WInv
  BY WInvInit
<1>2. WInv /\ [Next]_vars => WInv'
  BY WInvNext
<1> QED
  BY <1>1, <1>2, PTL DEF Spec

-----------------------------------------------------------------------------
(* Every variable of waitsets, conditions and calls keeps its type, for    *)
(* any number of threads: an iterator of a loop is always over waitsets or *)
(* over conditions, and the array of wait() has never more room than there *)
(* are conditions.                                                         *)
THEOREM WaitSetTypeCorrect == Spec => []TypeOK
<1>1. WInv => TypeOK
  BY DEF WInv
<1> QED
  BY <1>1, WInvAlways, PTL

(* However any number of threads attach, detach, close and let go, what is *)
(* closed or destroyed is attached to no waitset, and the close() of a     *)
(* condition finds in its list every waitset it is attached to             *)
(* (WaitSetDelegate, ConditionDelegate).                                   *)
THEOREM AttachmentsStayAgreed == Spec => []AttachmentsAgree
<1>1. ASSUME WInv
      PROVE  AttachmentsAgree
  <2>1. DestroyedIsDetached
    BY <1>1 DEF WInv, DestroyedIsDetached, Alive
  <2>2. AttachedIsListed
    <3> SUFFICES ASSUME NEW ws \in WaitSets, NEW x \in conditions[ws],
                        ws \notin listed[x]
                 PROVE  lOwner[x] # Nobody
      BY DEF AttachedIsListed
    <3>1. PICK t \in Threads : Detaching(t, ws, x)
      BY <1>1 DEF WInv, Listing
    <3>2. lOwner[x] = t
      BY <1>1, <3>1 DEF WInv, Mutexes, Detaching, InList
    <3> QED
      BY <3>2, NobodyAssumption
  <2> QED
    BY <1>1, <2>1, <2>2 DEF WInv, AttachmentsAgree, GoneIsDetached
<1> QED
  BY <1>1, WInvAlways, PTL

(* Where a thread is that another waits for.                               *)
LEMMA WaitsForWhom ==
    ASSUME WInv, NEW t \in Threads, NEW u \in Threads, WaitsFor(t) = u
    PROVE  \/ pc[t] \in {"lockW", "block"} /\ pc[u] \in InWaitSet \cup {"throw"}
           \/ pc[t] \in {"lockL", "snapshot"} /\ pc[u] \in InList \cup {"throw"}
           \/ /\ pc[t] \in {"handle", "lockC", "trigger"}
              /\ op[u] = "closeC" /\ pc[u] \in InCondition \cup {"throw"}
<1> USE NobodyAssumption DEF WInv, Placed, Mutexes
<1>1. CASE pc[t] \in {"lockW", "block"}
  <2>1. w[t] \in WaitSets /\ wOwner[w[t]] = u
    BY <1>1 DEF WaitsFor
  <2> QED
    BY <1>1, <2>1
<1>2. CASE pc[t] \in {"lockL", "snapshot"}
  <2>1. c[t] \in Conditions /\ lOwner[c[t]] = u
    BY <1>2 DEF WaitsFor
  <2> QED
    BY <1>2, <2>1
<1>3. CASE pc[t] \in {"handle", "lockC", "trigger"}
  <2>1. c[t] \in Conditions /\ cOwner[c[t]] = u
    BY <1>3 DEF WaitsFor, InList
  <2> QED
    BY <1>3, <2>1
<1>4. CASE pc[t] \notin {"lockW", "block", "lockL", "snapshot", "handle", "lockC", "trigger"}
  BY <1>4 DEF WaitsFor
<1> QED
  BY <1>1, <1>2, <1>3, <1>4

(* A circle of threads that wait for one another has more than one thread, *)
(* and one of them is closing a condition: without such a call the mutexes *)
(* of waitsets, lists and conditions are taken in this order by any number *)
(* of threads.                                                             *)
THEOREM OnlyClosingDeadlocks == Spec => []NoDeadlock
<1>1. ASSUME WInv, NEW T \in SUBSET Threads, Stuck(T)
      PROVE  Cardinality(T) > 1 /\ \E t \in T : op[t] = "closeC"
  <2>1. \A t \in T : WaitsFor(t) \in T /\ WaitsFor(t) # t
    <3> SUFFICES ASSUME NEW t \in T, WaitsFor(t) = t
                 PROVE  FALSE
      BY <1>1 DEF Stuck
    <3> QED
      BY <1>1, WaitsForWhom DEF InWaitSet, InList, InCondition
  <2>2. PICK t \in T : WaitsFor(t) \in T /\ WaitsFor(t) # t
    BY <1>1, <2>1 DEF Stuck
  <2>3. Cardinality(T) > 1
    <3>1. IsFiniteSet(T)
      BY FiniteAssumption, FS_Subset
    <3> DEFINE u == WaitsFor(t)
    <3>2. IsFiniteSet({t}) /\ Cardinality({t}) = 1
      BY FS_Singleton
    <3>3. Cardinality({t} \cup {u}) = 2
      BY <2>2, <3>2, FS_AddElement
    <3>4. Cardinality({t} \cup {u}) <= Cardinality(T)
      BY <2>2, <3>1, FS_Subset
    <3> QED
      BY <3>1, <3>3, <3>4, FS_CardinalityType
  <2>4. \E v \in T : op[v] = "closeC"
    <3> SUFFICES ASSUME \A v \in T : op[v] # "closeC"
                 PROVE  FALSE
      OBVIOUS
    <3>1. \A v \in T : pc[v] \notin {"handle", "lockC", "trigger", "throw"}
      BY <1>1, <2>1, WaitsForWhom
    <3>2. \A v \in T : pc[v] \notin {"lockL", "snapshot"}
      BY <1>1, <2>1, <3>1, WaitsForWhom DEF InList
    <3>3. \A v \in T : pc[v] \in {"lockW", "block"}
      BY <1>1, <2>1, <3>1, <3>2, WaitsForWhom
    <3> QED
      BY <1>1, <2>2, <3>3, WaitsForWhom DEF InWaitSet, InList
  <2> QED
    BY <2>3, <2>4
<1>2. WInv => NoDeadlock
  BY <1>1 DEF NoDeadlock
<1> QED
  BY <1>2, WInvAlways, PTL
=============================================================================
