----------------------------- MODULE EntityTree -----------------------------
(***************************************************************************)
(* The tree of entities: participants, publishers and subscribers, topics, *)
(* filtered topics, readers, writers and read conditions, and the threads  *)
(* that close, create and drop them.                                       *)
(*                                                                         *)
(* close() of an entity closes what is in it first. It keeps its own mutex *)
(* all the while, and works on a copy of its sets; a child takes itself    *)
(* out of its parent's set without the parent's mutex. A topic refuses to  *)
(* close while nrDependents says that something uses it; that counter is   *)
(* read and written without any lock. An exception ends close() where it   *)
(* is and unwinds through every close() above it.                          *)
(*                                                                         *)
(* A member function is a list of stages; a thread's stack has a frame for *)
(* every function it is in, the innermost first.                           *)
(***************************************************************************)
EXTENDS Integers, Sequences, FiniteSets

CONSTANTS
    Threads,
    Entities,
    Kind,          \* Kind[e]: one of Kinds
    Parent,        \* Parent[e]: the entity whose sets e is in
    TopicOf,       \* TopicOf[e]: the topic (description) e depends on
    Nobody,        \* no parent, no topic, the owner of a free mutex
    Unborn,        \* the endpoints that do not exist at first
    MayClose,      \* MayClose[t]: the entities thread t may close,
    MayCreate,     \* ... create,
    MayDrop,       \* ... or drop the last reference to
    MaxDependents  \* UINT32_MAX

Kinds == {"participant", "publisher", "subscriber", "topic", "cft", "reader", "writer", "query"}

(* What an entity is created in.                                           *)
Container ==
    [publisher |-> "participant", subscriber |-> "participant", topic |-> "participant",
     cft |-> "participant", reader |-> "subscriber", writer |-> "publisher", query |-> "reader"]

Endpoints == {e \in Entities : Kind[e] \in {"reader", "writer"}}

(* Entities that count in nrDependents of another one.                     *)
Dependents == {e \in Entities : Kind[e] \in {"reader", "writer", "cft"}}

ASSUME TreeAssumption ==
    /\ IsFiniteSet(Entities)
    /\ Nobody \notin Entities \cup Threads
    /\ Kind \in [Entities -> Kinds]
    /\ Parent \in [Entities -> Entities \cup {Nobody}]
    /\ TopicOf \in [Entities -> Entities \cup {Nobody}]
    /\ \A e \in Dependents : TopicOf[e] # Nobody /\ Kind[TopicOf[e]] \in {"topic", "cft"}
    /\ \A e \in Entities :
          IF Kind[e] = "participant" THEN Parent[e] = Nobody
          ELSE Parent[e] # Nobody /\ Kind[Parent[e]] = Container[Kind[e]]

ASSUME CallsAssumption ==
    /\ Unborn \subseteq Endpoints
    /\ \A e \in Entities : Parent[e] \notin Unborn
    /\ MayClose \in [Threads -> SUBSET Entities]
    /\ MayCreate \in [Threads -> SUBSET Unborn]
    /\ MayDrop \in [Threads -> SUBSET Entities]

(* The dependents of each topic can be counted without overflow.           *)
ASSUME MaxAssumption ==
    /\ MaxDependents \in Nat \ {0}
    /\ \A d \in Entities :
          Cardinality({x \in Dependents : TopicOf[x] = d}) \in 0 .. MaxDependents

VARIABLES
    stack,         \* stack[t]: the functions thread t is in
    seen,          \* seen[t]: nrDependents as thread t has read it
    owner,         \* owner[e]: the owner of the object mutex
    status,        \* status[e]: "unborn", "open", "expired" (the last
                   \*            reference has gone) or "closed"
    born,          \* the entities whose constructor has returned
    enabled,       \* enabled_
    members,       \* members[e]: the entities in the sets of e
    nrDependents,  \* nrDependents[e]: of a topic or a filtered topic
    holds,         \* the dependents whose increment is in effect; a reader
                   \* among them has a td_ that is not null
    alive          \* external: the entities that exist in the C layer

vars == <<stack, seen, owner, status, born, enabled, members, nrDependents, holds, alive>>

-----------------------------------------------------------------------------
(* close(), by kind of entity. The stages from "lock" on hold the mutex.   *)
GroupKeepsEndpoints == <<"lock", "listener", "unregister", "delete">>   \* mutant
GroupBody == <<"lock", "endpoints", "listener", "unregister", "delete">>

TopicIgnoresDependents == <<"lock", "listener", "unregister", "delete">>   \* mutant
TopicBody == <<"lock", "dependents", "listener", "unregister", "delete">>

ReaderTwice == <<"lock", "listener", "unregister", "readDecr", "decr", "queries",
                 "readDecr", "decr", "delete">>                            \* mutant
ReaderBody == <<"lock", "listener", "unregister", "readDecr", "decr", "queries", "delete">>

WriterForgets == <<"lock", "listener", "unregister", "delete">>            \* mutant
WriterBody == <<"lock", "listener", "readDecr", "decr", "unregister", "delete">>

Body(k) ==
    CASE k = "participant" ->
             <<"lock", "publishers", "subscribers", "cfts", "topics", "listener", "unregister",
               "delete">>
      [] k \in {"publisher", "subscriber"} -> GroupBody
      [] k = "topic" -> TopicBody
      [] k = "cft" -> <<"lock", "readDecr", "decr", "unregister", "closeObject">>
      [] k = "reader" -> ReaderBody
      [] k = "writer" -> WriterBody
      [] k = "query" -> <<"check", "lock", "unregister", "delete">>

(* The destructor closes; that of a read condition does so without a test. *)
DestructorBody(k) ==
    IF k = "query" THEN <<"unregister", "lock", "unregister", "delete">> ELSE Body(k)

(* The constructor and init() of an endpoint.                              *)
ConstructorBody(k) ==
    IF k = "writer"
    THEN <<"handleParent", "handleTopic", "create", "readIncr", "incr", "register",
           "autoEnable", "enable">>
    ELSE <<"handleParent", "handleTopic", "create", "readIncr", "incr", "register", "enable">>

Frame(e, body) == [e |-> e, todo |-> body, rest |-> {}]

(* The entities of the C layer that are deleted with e.                    *)
Above[x \in Entities \cup {Nobody}] == IF x = Nobody THEN Nobody ELSE Parent[x]
Within(e) == {x \in Entities : e \in {x, Above[x], Above[Above[x]], Above[Above[Above[x]]]}}

Init ==
    /\ stack = [t \in Threads |-> << >>]
    /\ seen = [t \in Threads |-> 0]
    /\ owner = [e \in Entities |-> Nobody]
    /\ status = [e \in Entities |-> IF e \in Unborn THEN "unborn" ELSE "open"]
    /\ born = Entities \ Unborn
    /\ enabled = Entities \ Unborn
    /\ members = [e \in Entities |-> {x \in Entities \ Unborn : Parent[x] = e}]
    /\ nrDependents = [e \in Entities |->
                          Cardinality({x \in Dependents \ Unborn : TopicOf[x] = e})]
    /\ holds = Dependents \ Unborn
    /\ alive = Entities \ Unborn

-----------------------------------------------------------------------------
Busy(t) == stack[t] # << >>
Innermost(t) == Head(stack[t])
At(t, stage) == Busy(t) /\ Innermost(t).todo[1] = stage
Self(t) == Innermost(t).e
Rest(t) == Innermost(t).rest

(* The innermost function of thread t is now as frame says.                *)
GoOn(t, frame) == stack' = [stack EXCEPT ![t] = <<frame>> \o Tail(stack[t])]

Advance(t) == GoOn(t, [Innermost(t) EXCEPT !.todo = Tail(Innermost(t).todo)])

RaiseKeepsLocks(t) ==      \* mutant
    /\ stack' = [stack EXCEPT ![t] = << >>]
    /\ UNCHANGED <<seen, owner, status, born, enabled, members, nrDependents, holds, alive>>

(* An exception unwinds the stack and releases the mutexes on it. It ends  *)
(* in the application, or in the destructor that called close(): what is   *)
(* left of the object then goes, with its entity in the C layer.           *)
Raise(t) ==
    /\ stack' = [stack EXCEPT ![t] = << >>]
    /\ owner' = [e \in Entities |-> IF owner[e] = t THEN Nobody ELSE owner[e]]
    /\ alive' = {e \in alive : ~(e = Self(t) /\ status[e] = "expired")}
    /\ UNCHANGED <<seen, status, born, enabled, members, nrDependents, holds>>

(***************************************************************************)
(* Calls of the application.                                               *)
(***************************************************************************)
Close(t, e) ==
    /\ ~Busy(t)
    /\ e \in MayClose[t] \cap born
    /\ status[e] # "expired"
    /\ stack' = [stack EXCEPT ![t] = <<Frame(e, Body(Kind[e]))>>]
    /\ UNCHANGED <<seen, owner, status, born, enabled, members, nrDependents, holds, alive>>

Create(t, e) ==
    /\ ~Busy(t)
    /\ e \in MayCreate[t]
    /\ status[e] = "unborn"
    /\ status' = [status EXCEPT ![e] = "open"]
    /\ stack' = [stack EXCEPT ![t] = <<Frame(e, ConstructorBody(Kind[e]))>>]
    /\ UNCHANGED <<seen, owner, born, enabled, members, nrDependents, holds, alive>>

(* The last reference: no other thread is in a function of e.              *)
Drop(t, e) ==
    /\ ~Busy(t)
    /\ e \in MayDrop[t] \cap born
    /\ status[e] = "open"
    /\ \A u \in Threads : \A i \in 1 .. Len(stack[u]) : stack[u][i].e # e
    /\ status' = [status EXCEPT ![e] = "expired"]
    /\ stack' = [stack EXCEPT ![t] = <<Frame(e, DestructorBody(Kind[e]))>>]
    /\ UNCHANGED <<seen, owner, born, enabled, members, nrDependents, holds, alive>>

(***************************************************************************)
(* The stages of close().                                                  *)
(***************************************************************************)

(* A read condition tests closed before it takes its mutex.                *)
Check(t) ==
    /\ At(t, "check")
    /\ IF status[Self(t)] = "closed" THEN Raise(t)
       ELSE /\ Advance(t)
            /\ UNCHANGED <<seen, owner, status, born, enabled, members, nrDependents, holds,
                           alive>>

(* ScopedObjectLock throws when the entity is closed.                      *)
Lock(t) ==
    /\ At(t, "lock")
    /\ owner[Self(t)] = Nobody
    /\ IF status[Self(t)] = "closed" THEN Raise(t)
       ELSE /\ owner' = [owner EXCEPT ![Self(t)] = t]
            /\ Advance(t)
            /\ UNCHANGED <<seen, status, born, enabled, members, nrDependents, holds, alive>>

(* all_close() copies a set, outside of everybody's mutex ...              *)
KindsIn(stage) ==
    CASE stage = "publishers" -> {"publisher"}
      [] stage = "subscribers" -> {"subscriber"}
      [] stage = "cfts" -> {"cft"}
      [] stage = "topics" -> {"topic"}
      [] stage = "endpoints" -> {"reader", "writer"}
      [] stage = "queries" -> {"query"}

Copy(t) ==
    /\ \E stage \in {"publishers", "subscribers", "cfts", "topics", "endpoints", "queries"} :
          /\ At(t, stage)
          /\ GoOn(t, [Innermost(t) EXCEPT
                         !.todo = <<"each">> \o Tail(Innermost(t).todo),
                         !.rest = {x \in members[Self(t)] : Kind[x] \in KindsIn(stage)}])
    /\ UNCHANGED <<seen, owner, status, born, enabled, members, nrDependents, holds, alive>>

(* ... and closes each entity in it, unless its weak_ptr has expired.      *)
Each(t) ==
    /\ At(t, "each")
    /\ \E x \in Rest(t) :
          LET next == [Innermost(t) EXCEPT !.rest = Rest(t) \ {x}]
          IN  IF status[x] = "expired" THEN GoOn(t, next)
              ELSE stack' = [stack EXCEPT ![t] =
                                 <<Frame(x, Body(Kind[x]))>> \o (<<next>> \o Tail(stack[t]))]
    /\ UNCHANGED <<seen, owner, status, born, enabled, members, nrDependents, holds, alive>>

EachDone(t) ==
    /\ At(t, "each")
    /\ Rest(t) = {}
    /\ Advance(t)
    /\ UNCHANGED <<seen, owner, status, born, enabled, members, nrDependents, holds, alive>>

(* A topic with dependents does not close.                                 *)
HasDependents(t) ==
    /\ At(t, "dependents")
    /\ IF nrDependents[Self(t)] > 0 THEN Raise(t)
       ELSE /\ Advance(t)
            /\ UNCHANGED <<seen, owner, status, born, enabled, members, nrDependents, holds,
                           alive>>

(* listener_set: dds_set_listener fails when the C entity has gone.        *)
Listener(t) ==
    /\ At(t, "listener")
    /\ IF Self(t) \in enabled \ alive THEN Raise(t)
       ELSE /\ Advance(t)
            /\ UNCHANGED <<seen, owner, status, born, enabled, members, nrDependents, holds,
                           alive>>

(* remove_... takes the mutex of the set, not that of the parent.          *)
NeedsParent(e) == Parent[e] # Nobody /\ owner[Parent[e]] # Nobody   \* mutant
NeedsNobody(e) == FALSE

Unregister(t) ==
    /\ At(t, "unregister")
    /\ ~NeedsNobody(Self(t))
    /\ members' = [e \in Entities |-> members[e] \ {Self(t)}]
    /\ Advance(t)
    /\ UNCHANGED <<seen, owner, status, born, enabled, nrDependents, holds, alive>>

(* nrDependents-- and ++ are a load and a store, with no lock. A reader    *)
(* reaches the topic through td_, which close() leaves null.               *)
ReadDecr(t) ==
    /\ At(t, "readDecr")
    /\ IF Kind[Self(t)] = "reader" /\ Self(t) \notin holds THEN Raise(t)
       ELSE /\ seen' = [seen EXCEPT ![t] = nrDependents[TopicOf[Self(t)]]]
            /\ Advance(t)
            /\ UNCHANGED <<owner, status, born, enabled, members, nrDependents, holds, alive>>

Less(n) == IF n = 0 THEN MaxDependents ELSE n - 1
More(n) == IF n = MaxDependents THEN 0 ELSE n + 1

Decr(t) ==
    /\ At(t, "decr")
    /\ nrDependents' = [nrDependents EXCEPT ![TopicOf[Self(t)]] = Less(seen[t])]
    /\ holds' = holds \ {Self(t)}
    /\ seen' = [seen EXCEPT ![t] = 0]
    /\ Advance(t)
    /\ UNCHANGED <<owner, status, born, enabled, members, alive>>

(* close() of the base classes: the C entity is deleted, and what is in it *)
(* with it; the entity is closed and its mutex released.                   *)
Finish(t) ==
    /\ status' = [status EXCEPT ![Self(t)] = IF @ = "expired" THEN @ ELSE "closed"]
    /\ owner' = [owner EXCEPT ![Self(t)] = Nobody]
    /\ stack' = [stack EXCEPT ![t] = Tail(@)]
    /\ UNCHANGED <<seen, born, enabled, members, nrDependents, holds>>

Delete(t) ==
    /\ At(t, "delete")
    /\ alive' = alive \ Within(Self(t))
    /\ Finish(t)

(* A filtered topic does not delete its C topic.                           *)
CloseObject(t) ==
    /\ At(t, "closeObject")
    /\ UNCHANGED alive
    /\ Finish(t)

(***************************************************************************)
(* The stages of a constructor and of init().                              *)
(***************************************************************************)

(* get_ddsc_entity locks the parent, then the topic, for a moment.         *)
HandleOf(t, e) ==
    /\ owner[e] = Nobody
    /\ IF status[e] = "closed" THEN Raise(t)
       ELSE /\ Advance(t)
            /\ UNCHANGED <<seen, owner, status, born, enabled, members, nrDependents, holds,
                           alive>>

HandleParent(t) == At(t, "handleParent") /\ HandleOf(t, Parent[Self(t)])
HandleTopic(t) == At(t, "handleTopic") /\ HandleOf(t, TopicOf[Self(t)])

CreateC(t) ==
    /\ At(t, "create")
    /\ IF {Parent[Self(t)], TopicOf[Self(t)]} \subseteq alive
       THEN /\ alive' = alive \cup {Self(t)}
            /\ Advance(t)
            /\ UNCHANGED <<seen, owner, status, born, enabled, members, nrDependents, holds>>
       ELSE Raise(t)

ReadIncr(t) ==
    /\ At(t, "readIncr")
    /\ seen' = [seen EXCEPT ![t] = nrDependents[TopicOf[Self(t)]]]
    /\ Advance(t)
    /\ UNCHANGED <<owner, status, born, enabled, members, nrDependents, holds, alive>>

Incr(t) ==
    /\ At(t, "incr")
    /\ nrDependents' = [nrDependents EXCEPT ![TopicOf[Self(t)]] = More(seen[t])]
    /\ holds' = holds \cup {Self(t)}
    /\ seen' = [seen EXCEPT ![t] = 0]
    /\ Advance(t)
    /\ UNCHANGED <<owner, status, born, enabled, members, alive>>

(* init() makes the endpoint known to its parent.                          *)
Register(t) ==
    /\ At(t, "register")
    /\ members' = [members EXCEPT ![Parent[Self(t)]] = @ \cup {Self(t)}]
    /\ Advance(t)
    /\ UNCHANGED <<seen, owner, status, born, enabled, nrDependents, holds, alive>>

(* An exception in init() destroys the endpoint, which closes it.          *)
Destroy(t) ==
    /\ IF status[Self(t)] = "closed"
       THEN /\ stack' = [stack EXCEPT ![t] = << >>]
            /\ UNCHANGED status
       ELSE /\ stack' = [stack EXCEPT ![t] = <<Frame(Self(t), DestructorBody(Kind[Self(t)]))>>]
            /\ status' = [status EXCEPT ![Self(t)] = "expired"]
    /\ UNCHANGED <<seen, owner, born, members, nrDependents, holds, alive>>

(* A writer asks its publisher, which may be closed by now.                *)
AutoEnable(t) ==
    /\ At(t, "autoEnable")
    /\ owner[Parent[Self(t)]] = Nobody
    /\ IF status[Parent[Self(t)]] = "closed"
       THEN Destroy(t) /\ UNCHANGED enabled
       ELSE /\ Advance(t)
            /\ UNCHANGED <<seen, owner, status, born, enabled, members, nrDependents, holds,
                           alive>>

(* enable() raises enabled_ first; dds_set_listener then may fail.         *)
Enable(t) ==
    /\ At(t, "enable")
    /\ enabled' = enabled \cup {Self(t)}
    /\ IF Self(t) \in alive
       THEN /\ stack' = [stack EXCEPT ![t] = << >>]
            /\ born' = born \cup {Self(t)}
            /\ UNCHANGED <<seen, owner, status, members, nrDependents, holds, alive>>
       ELSE Destroy(t)

-----------------------------------------------------------------------------
Step(t) ==
    \/ Check(t) \/ Lock(t) \/ Copy(t) \/ Each(t) \/ EachDone(t) \/ HasDependents(t)
    \/ Listener(t) \/ Unregister(t) \/ ReadDecr(t) \/ Decr(t) \/ Delete(t) \/ CloseObject(t)
    \/ HandleParent(t) \/ HandleTopic(t) \/ CreateC(t) \/ ReadIncr(t) \/ Incr(t)
    \/ Register(t) \/ AutoEnable(t) \/ Enable(t)

Next ==
    \E t \in Threads :
        \/ Step(t)
        \/ \E e \in Entities : Close(t, e) \/ Create(t, e) \/ Drop(t, e)

Spec == Init /\ [][Next]_vars

(* Threads in a function of the library are scheduled; nothing obliges the *)
(* application to call one.                                                *)
FairSpec == Spec /\ \A t \in Threads : WF_vars(Step(t))

-----------------------------------------------------------------------------
(***************************************************************************)
(* Properties.                                                             *)
(***************************************************************************)
Stages == {"check", "lock", "publishers", "subscribers", "cfts", "topics", "endpoints",
           "queries", "each", "dependents", "listener", "unregister", "readDecr", "decr", "delete",
           "closeObject", "handleParent", "handleTopic", "create", "readIncr", "incr",
           "register", "autoEnable", "enable"}

(* Every variable has its type; a thread holds the mutex of an entity only *)
(* while it is in a function of that entity.                               *)
TypeOK ==
    /\ DOMAIN stack = Threads
    /\ \A t \in Threads : \A i \in 1 .. Len(stack[t]) :
          /\ stack[t][i].e \in Entities
          /\ stack[t][i].todo # << >>
          /\ \A j \in 1 .. Len(stack[t][i].todo) : stack[t][i].todo[j] \in Stages
          /\ stack[t][i].rest \subseteq Entities
    /\ seen \in [Threads -> 0 .. MaxDependents]
    /\ owner \in [Entities -> Threads \cup {Nobody}]
    /\ status \in [Entities -> {"unborn", "open", "expired", "closed"}]
    /\ born \subseteq Entities
    /\ enabled \subseteq Entities
    /\ members \in [Entities -> SUBSET Entities]
    /\ nrDependents \in [Entities -> 0 .. MaxDependents]
    /\ holds \subseteq Dependents
    /\ alive \subseteq Entities
    /\ \A e \in Entities : owner[e] # Nobody =>
          \E i \in 1 .. Len(stack[owner[e]]) : stack[owner[e]][i].e = e

(* The stages thread t has still to do for e, the innermost frame first.   *)
Doing(t, e, stage) ==
    \E i \in 1 .. Len(stack[t]) :
        stack[t][i].e = e /\ \E j \in 1 .. Len(stack[t][i].todo) : stack[t][i].todo[j] = stage

(* A thread is closing e and has only its base classes left.               *)
Leaving(e) ==
    \E t \in Threads : \E i \in 1 .. Len(stack[t]) :
        /\ stack[t][i].e = e
        /\ stack[t][i].todo[1] \in {"readDecr", "decr", "queries", "each", "delete", "closeObject"}
        /\ ~Doing(t, e, "unregister")

(* What is in a closed entity is closed, or another thread is about to     *)
(* finish its close(): no close() misses an entity of its sets.            *)
ParentOutlives ==
    \A e \in born : Parent[e] # Nobody /\ status[Parent[e]] = "closed" =>
        status[e] \in {"closed", "expired"} \/ Leaving(e)

(* A closed topic has no reader, writer or filtered topic that counts.     *)
TopicOutlives ==
    \A e \in holds : Kind[TopicOf[e]] = "topic" => status[TopicOf[e]] # "closed"

(* Nothing closes before what uses it, whichever threads close what.       *)
UsedOutlives == ParentOutlives /\ TopicOutlives

Quiet == \A t \in Threads : ~Busy(t)

(* When no function is in progress, nrDependents is the number of readers, *)
(* writers and filtered topics that are open, if no two threads create or  *)
(* close dependents of one topic: increments and decrements balance, also  *)
(* in a constructor that throws, and in a close() that is interrupted by   *)
(* an exception and called again.                                          *)
CountsDependents ==
    Quiet => \A d \in Entities : Kind[d] \in {"topic", "cft"} =>
        nrDependents[d] =
            Cardinality({e \in Dependents \cap born : TopicOf[e] = d /\ status[e] = "open"})

(* When no function is in progress, every open entity can still be closed: *)
(* its C entity and its parent exist, its parent knows it, and a dependent *)
(* can still reach its topic. An exception may interrupt close(), but      *)
(* leaves nothing that makes a later close() throw.                        *)
Closable ==
    Quiet => \A e \in born : status[e] = "open" =>
        /\ e \in alive
        /\ Parent[e] # Nobody => status[Parent[e]] = "open" /\ e \in members[Parent[e]]
        /\ e \in Dependents => e \in holds

(* Between calls the books balance, and whatever is open can be closed.    *)
BalancedWhenQuiet == CountsDependents /\ Closable

(* The owner of the mutex thread t waits for.                              *)
WaitsFor(t) ==
    CASE At(t, "lock") -> owner[Self(t)]
      [] At(t, "handleParent") -> owner[Parent[Self(t)]]
      [] At(t, "autoEnable") -> owner[Parent[Self(t)]]
      [] At(t, "handleTopic") -> owner[TopicOf[Self(t)]]
      [] At(t, "unregister") -> IF NeedsNobody(Self(t)) THEN owner[Parent[Self(t)]] ELSE Nobody
      [] OTHER -> Nobody

(* The mutexes are taken from the participant down, so that no threads     *)
(* wait for one another in a circle.                                       *)
NoDeadlock == \A T \in SUBSET Threads : T # {} => \E t \in T : WaitsFor(t) \notin T

(* Whatever other threads close or create, close() of the participant      *)
(* succeeds in the end if the application tries again when it throws.      *)
RetriedCloseSucceeds ==
    \A t \in Threads : \A e \in {x \in MayClose[t] : Kind[x] = "participant"} :
        []<><<Close(t, e)>>_vars => <>(status[e] = "closed")

(* "When deleted, the topic should be able to close" (Topic.cpp): when no  *)
(* function is in progress, a topic without dependents has none.           *)
TopicCanClose ==
    Quiet => \A d \in Entities : Kind[d] = "topic" /\ nrDependents[d] > 0 =>
        \E e \in Dependents : TopicOf[e] = d /\ status[e] = "open"
=============================================================================
