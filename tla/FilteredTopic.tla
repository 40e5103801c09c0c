--------------------------- MODULE FilteredTopic ---------------------------
(***************************************************************************)
(* The filter of a content filtered topic, and the readers it is for.      *)
(*                                                                         *)
(* filter_function() makes a private copy of the C topic, gives it a       *)
(* functor as its filter, and leaves it in the filtered topic, here called *)
(* a view, for readers that are created later. The C layer calls the       *)
(* functor of the C topic a reader was created on, with no lock of the     *)
(* view; the view deletes the functor when it gets another one and when it *)
(* is destroyed, and nothing deletes a private C topic before the          *)
(* participant goes.                                                       *)
(***************************************************************************)
EXTENDS Integers, FiniteSets

CONSTANTS
    Views,        \* content filtered topics, all on one topic
    Original,     \* that topic
    FilterUsers,  \* threads
    ViewReaders,  \* readers, of a view or of the topic
    NoUser,
    MaxTopics,    \* bound: C topics
    MaxFunctors   \* bound: functors

ASSUME FilterAssumption ==
    /\ Original \notin Views
    /\ NoUser \notin Views \cup {Original} \cup ViewReaders
    /\ "app" \notin ViewReaders
    /\ MaxTopics \in Nat \ {0} /\ MaxFunctors \in Nat

VARIABLES
    filterCall,  \* filterCall[t]: the call thread t is in
    viewFate,    \* viewFate[v]: "open", "closed" or "gone" (destroyed)
    viewRefs,    \* viewRefs[v]: who refers to v: "app", readers (their td_)
    cTopic,      \* cTopic[v]: the ddsc_entity of v; 0: filter_function() was not called
    filter,      \* filter[k]: the functor C topic k calls; 0: none
    myFunctor,   \* myFunctor[v]; 0: nullptr
    functors,    \* the functors that exist
    born,        \* the functors that were ever made
    readOn,      \* readOn[r]: the C topic of the C reader of r; 0: no C reader
    td,          \* td[r]: the topic description r refers to
    overlapped,  \* history: the views whose last filter_function() ran with another one
    quiet        \* history: the readers for which no filter_function() of
                 \*          their view ran since their constructor began

filterVars ==
    <<filterCall, viewFate, viewRefs, cTopic, filter, myFunctor, functors, born, readOn, td,
      overlapped, quiet>>

(* The C topic of the original topic; it has no filter.                    *)
OriginalTopic == 1

CallOn(op, on, topic, reader) == [op |-> op, on |-> on, topic |-> topic, reader |-> reader]
Idle == CallOn("none", NoUser, 0, NoUser)
SettingFilter(v) ==
    {t \in FilterUsers : filterCall[t].on = v /\ filterCall[t].op \in {"publish", "install"}}

FilterInit ==
    /\ filterCall = [t \in FilterUsers |-> Idle]
    /\ viewFate = [v \in Views |-> "open"]
    /\ viewRefs = [v \in Views |-> {"app"}]
    /\ cTopic = [v \in Views |-> 0]
    /\ filter = [k \in {OriginalTopic} |-> 0]
    /\ myFunctor = [v \in Views |-> 0]
    /\ functors = {} /\ born = {}
    /\ readOn = [r \in ViewReaders |-> 0]
    /\ td = [r \in ViewReaders |-> NoUser]
    /\ overlapped = {} /\ quiet = {}

-----------------------------------------------------------------------------
Starts(t, call) ==
    /\ filterCall[t] = Idle
    /\ filterCall' = [filterCall EXCEPT ![t] = call]

Ends(t) == filterCall' = [filterCall EXCEPT ![t] = Idle]
In(t, op) == filterCall[t].op = op

(* The application calls v while it has a reference to it, and keeps that  *)
(* until the call returns.                                                 *)
Usable(v) == "app" \in viewRefs[v]

(* A reference goes. The destructor closes the view if nobody has, and     *)
(* deletes the functor.                                                    *)
Forsake(v, holder) ==
    /\ viewRefs' = [viewRefs EXCEPT ![v] = @ \ {holder}]
    /\ LET gone == viewRefs[v] = {holder}
       IN /\ viewFate' = [viewFate EXCEPT ![v] = IF gone THEN "gone" ELSE @]
          /\ functors' = IF gone THEN functors \ {myFunctor[v]} ELSE functors
          /\ myFunctor' = [myFunctor EXCEPT ![v] = IF gone THEN 0 ELSE @]

(***************************************************************************)
(* filter_function(): the private C topic, then set_ddsc_entity(), then    *)
(* the functor in the mutex of the view. Both throw if the view is closed, *)
(* and leave the C topic behind. That the C library makes no copy, whose   *)
(* error is then taken for a handle (ContentFilteredTopic.hpp:436-439), is *)
(* left out.                                                               *)
(***************************************************************************)
FilterFunction(t, v) ==
    /\ Usable(v)
    /\ Cardinality(DOMAIN filter) < MaxTopics
    /\ LET k == Cardinality(DOMAIN filter) + 1
       IN /\ filter' = [x \in DOMAIN filter \cup {k} |-> IF x = k THEN 0 ELSE filter[x]]
          /\ Starts(t, CallOn("publish", v, k, NoUser))
    /\ overlapped' = IF SettingFilter(v) = {} THEN overlapped \ {v} ELSE overlapped \cup {v}
    /\ quiet' = {r \in quiet : td[r] # v}
    /\ UNCHANGED <<viewFate, viewRefs, cTopic, myFunctor, functors, born, readOn, td>>

PublishTopic(t) ==
    /\ In(t, "publish")
    /\ LET v == filterCall[t].on
       IN IF viewFate[v] = "closed" THEN Ends(t) /\ UNCHANGED cTopic
          ELSE /\ cTopic' = [cTopic EXCEPT ![v] = filterCall[t].topic]
               /\ filterCall' = [filterCall EXCEPT ![t].op = "install"]
    /\ UNCHANGED <<viewFate, viewRefs, filter, myFunctor, functors, born, readOn, td,
                   overlapped, quiet>>

InstallFilter(t) ==
    /\ In(t, "install")
    /\ LET v == filterCall[t].on
           f == Cardinality(born) + 1
       IN IF viewFate[v] = "closed"
          THEN UNCHANGED <<filter, myFunctor, functors, born>>
          ELSE /\ f <= MaxFunctors
               /\ born' = born \cup {f}
               /\ functors' = (functors \ {myFunctor[v]}) \cup {f}
               /\ myFunctor' = [myFunctor EXCEPT ![v] = f]
               /\ filter' = [filter EXCEPT ![filterCall[t].topic] = f]
    /\ Ends(t)
    /\ UNCHANGED <<viewFate, viewRefs, cTopic, readOn, td, overlapped, quiet>>

(***************************************************************************)
(* The constructor of a reader: td_, the C topic of the description (which *)
(* throws if that is closed), the C reader (which fails on no C topic).    *)
(***************************************************************************)
ConstructReader(t, r, d) ==
    /\ td[r] = NoUser /\ readOn[r] = 0
    /\ d # Original => Usable(d)
    /\ Starts(t, CallOn("topic", d, 0, r))
    /\ td' = [td EXCEPT ![r] = d]
    /\ viewRefs' = [v \in Views |-> IF v = d THEN viewRefs[v] \cup {r} ELSE viewRefs[v]]
    /\ quiet' = IF SettingFilter(d) = {} /\ d \notin overlapped THEN quiet \cup {r} ELSE quiet
    /\ UNCHANGED <<viewFate, cTopic, filter, myFunctor, functors, born, readOn, overlapped>>

(* The member td_ of a reader whose constructor threw, or of one that is   *)
(* being closed, goes.                                                     *)
ForsakeTopic(r) ==
    /\ td' = [td EXCEPT ![r] = NoUser]
    /\ quiet' = quiet \ {r}
    /\ IF td[r] = Original THEN UNCHANGED <<viewRefs, viewFate, functors, myFunctor>>
       ELSE Forsake(td[r], r)

TopicOfReader(t) ==
    /\ In(t, "topic")
    /\ LET d == filterCall[t].on
           k == IF d = Original THEN OriginalTopic ELSE cTopic[d]
       r == filterCall[t].reader
       IN IF d # Original /\ viewFate[d] = "closed"
          THEN Ends(t) /\ ForsakeTopic(r)
          ELSE /\ filterCall' = [filterCall EXCEPT ![t] = CallOn("create", d, k, r)]
               /\ UNCHANGED <<td, quiet, viewRefs, viewFate, functors, myFunctor>>
    /\ UNCHANGED <<cTopic, filter, born, readOn, overlapped>>

CreateCReader(t) ==
    /\ In(t, "create")
    /\ Ends(t)
    /\ LET r == filterCall[t].reader
       IN IF filterCall[t].topic = 0 THEN ForsakeTopic(r) /\ UNCHANGED readOn
          ELSE /\ readOn' = [readOn EXCEPT ![r] = filterCall[t].topic]
               /\ UNCHANGED <<td, quiet, viewRefs, viewFate, functors, myFunctor>>
    /\ UNCHANGED <<cTopic, filter, born, overlapped>>

(* close() of a reader lets go of td_ first, then deletes the C reader.    *)
CloseReader(t, r) ==
    /\ readOn[r] # 0 /\ td[r] # NoUser
    /\ Starts(t, CallOn("delete", NoUser, 0, r))
    /\ ForsakeTopic(r)
    /\ UNCHANGED <<cTopic, filter, born, readOn, overlapped>>

DeleteCReader(t) ==
    /\ In(t, "delete")
    /\ readOn' = [readOn EXCEPT ![filterCall[t].reader] = 0]
    /\ Ends(t)
    /\ UNCHANGED <<viewFate, viewRefs, cTopic, filter, myFunctor, functors, born, td,
                   overlapped, quiet>>

(***************************************************************************)
(* close() of a view tests no dependents, deletes nothing, and throws when *)
(* the view is closed already.                                             *)
(***************************************************************************)
CloseDeletesFunctor(v) ==      \* mutant
    /\ Usable(v) /\ viewFate[v] = "open"
    /\ viewFate' = [viewFate EXCEPT ![v] = "closed"]
    /\ functors' = functors \ {myFunctor[v]}
    /\ UNCHANGED <<filterCall, viewRefs, cTopic, filter, myFunctor, born, readOn, td,
                   overlapped, quiet>>

CloseView(v) ==
    /\ Usable(v) /\ viewFate[v] = "open"
    /\ viewFate' = [viewFate EXCEPT ![v] = "closed"]
    /\ UNCHANGED <<filterCall, viewRefs, cTopic, filter, myFunctor, functors, born, readOn,
                   td, overlapped, quiet>>

DropView(v) ==
    /\ Usable(v)
    /\ \A t \in FilterUsers : filterCall[t].on # v
    /\ Forsake(v, "app")
    /\ UNCHANGED <<filterCall, cTopic, filter, born, readOn, td, overlapped, quiet>>

FilterNext ==
    \/ \E t \in FilterUsers :
          \/ PublishTopic(t) \/ InstallFilter(t) \/ TopicOfReader(t) \/ CreateCReader(t)
          \/ DeleteCReader(t)
          \/ \E v \in Views : FilterFunction(t, v)
          \/ \E r \in ViewReaders :
                CloseReader(t, r) \/ \E d \in Views \cup {Original} : ConstructReader(t, r, d)
    \/ \E v \in Views : CloseView(v) \/ DropView(v)

FilterSpec == FilterInit /\ [][FilterNext]_filterVars

-----------------------------------------------------------------------------
FilterCalls ==
    [op : {"none", "publish", "install", "topic", "create", "delete"},
     on : Views \cup {Original, NoUser}, topic : 0 .. MaxTopics,
     reader : ViewReaders \cup {NoUser}]

FilterTypeOK ==
    /\ filterCall \in [FilterUsers -> FilterCalls]
    /\ viewFate \in [Views -> {"open", "closed", "gone"}]
    /\ viewRefs \in [Views -> SUBSET (ViewReaders \cup {"app"})]
    /\ DOMAIN filter \subseteq 1 .. MaxTopics
    /\ \A k \in DOMAIN filter : filter[k] \in born \cup {0}
    /\ cTopic \in [Views -> 0 .. MaxTopics]
    /\ myFunctor \in [Views -> 0 .. MaxFunctors]
    /\ functors \subseteq born /\ born \subseteq 1 .. MaxFunctors
    /\ readOn \in [ViewReaders -> 0 .. MaxTopics]
    /\ td \in [ViewReaders -> Views \cup {Original, NoUser}]
    /\ overlapped \subseteq Views /\ quiet \subseteq ViewReaders

(* A reader of the topic is never filtered, whatever filters the views of  *)
(* that topic get. A reader of a view that is not being closed is filtered *)
(* by the functor of that view, which exists even if the application has   *)
(* closed the view or let go of it; it may be called after it was deleted  *)
(* only if filter_function() of the view ran after the constructor of the  *)
(* reader began, or twice at the same time, or if close() of the reader    *)
(* has let go of the last reference to the view. A functor is deleted with *)
(* its view at the latest.                                                 *)
FiltersAreOwn ==
    /\ \A r \in ViewReaders : readOn[r] # 0 /\ td[r] # NoUser =>
          IF td[r] = Original THEN filter[readOn[r]] = 0
          ELSE r \in quiet =>
                  /\ filter[readOn[r]] = myFunctor[td[r]]
                  /\ filter[readOn[r]] \in functors
    /\ functors = {myFunctor[v] : v \in {x \in Views : viewFate[x] # "gone"}} \ {0}
=============================================================================
