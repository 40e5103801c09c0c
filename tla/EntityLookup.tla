---------------------------- MODULE EntityLookup ----------------------------
(***************************************************************************)
(* Finding an entity while other threads create, close and drop entities.  *)
(*                                                                         *)
(* A participant knows its publishers, subscribers, topics and filtered    *)
(* topics, a publisher its writers, a subscriber its readers, and the      *)
(* process its participants, as sets of weak references (EntitySet,        *)
(* ObjectSet), each with a mutex. find_topic and its like copy a set,      *)
(* leave the mutex and ask each entity that still exists for its name;     *)
(* contains_entity stays in the mutex of every set it is looking into. A   *)
(* lookup makes weak references strong, so that the last reference to an   *)
(* entity may be its own: the destructor then runs in the lookup.          *)
(*                                                                         *)
(* close() is reduced here to what a lookup can see; EntityTree has the    *)
(* rest of it.                                                             *)
(***************************************************************************)
EXTENDS Integers, Sequences, FiniteSets

CONSTANTS
    Callers,   \* threads
    Objects,   \* entities and filtered topics
    Sort,      \* Sort[o]: one of Sorts
    Holder,    \* Holder[o]: the entity whose set o is in; None: the process
    Label,     \* Label[o]: the domain of a participant, the name of a topic,
               \*           the name of the topic of a reader or writer
    About,     \* About[o]: the topic description of a reader or writer, the
               \*           topic of a filtered topic
    None,
    Late,      \* the objects that do not exist at first
    Asks,      \* Asks[c]: the lookups caller c makes: [op, on, for]
    Closes,    \* Closes[c]: the objects caller c closes
    Drops,     \* Drops[c]: the objects caller c drops the application's
               \*           reference to
    MaxCalls   \* MaxCalls[c]: bound: the calls caller c makes

Containers == {"participant", "publisher", "subscriber"}
Sorts == Containers \cup {"topic", "discovered", "cft", "reader", "writer"}

(* A discovered AnyTopic is in the set of topics.                          *)
SetSort(sort) == IF sort = "discovered" THEN "topic" ELSE sort

(* The sort of object a lookup is about; contains_entity has several.      *)
Seeks ==
    [find_topic |-> "topic", find_cfTopic |-> "cft", lookup_participant |-> "participant",
     find_datareaders |-> "reader", find_datawriter |-> "writer"]

Lookups == DOMAIN Seeks \cup {"find_topic_description", "contains"}

(* What is created in a holder of the sort.                                *)
HolderSort(sort) ==
    CASE sort = "reader" -> "subscriber" [] sort = "writer" -> "publisher"
      [] OTHER -> "participant"

(* An entity comes after what it refers to, and a lookup is made of an     *)
(* entity, or of the process.                                              *)
ASSUME LookupAssumption ==
    /\ "app" \notin Objects \cup Callers
    /\ Objects \cap Callers = {}
    /\ None \notin Objects \cup Callers \cup {"app"} \cup Objects \X Sorts
    /\ Sort \in [Objects -> Sorts]
    /\ Holder \in [Objects -> Objects \cup {None}]
    /\ About \in [Objects -> Objects \cup {None}]
    /\ \A o \in Objects :
          IF Sort[o] = "participant" THEN Holder[o] = None
          ELSE Holder[o] # None /\ Sort[Holder[o]] = HolderSort(Sort[o])
    /\ \A o \in Objects :
          CASE Sort[o] = "reader" -> About[o] # None /\ Sort[About[o]] \in {"topic", "cft"}
            [] Sort[o] \in {"writer", "cft"} -> About[o] # None /\ Sort[About[o]] = "topic"
            [] OTHER -> About[o] = None
    /\ \A o \in Objects \ Late : {Holder[o], About[o]} \cap Late = {}
    /\ \A c \in Callers : \A a \in Asks[c] :
          /\ a = [op |-> a.op, on |-> a.on, for |-> a.for]
          /\ a.op \in Lookups
          /\ IF a.op = "lookup_participant" THEN a.on = None ELSE a.on \in Objects
    /\ MaxCalls \in [Callers -> Nat]

VARIABLES
    frames,     \* frames[c]: the functions caller c is in, the innermost first
    refs,       \* refs[o]: who has a strong reference to o: "app" (the
                \*          application), callers and other objects
    fate,       \* fate[o]: "late", "open", "closed" or "gone" (no references)
    locked,     \* locked[o]: the owner of the object mutex
    setsHeld,   \* <<set, owner>>: the mutexes of sets that are held
    listed,     \* the objects that are in the set they belong in
    using,      \* the objects that count in nrDependents of their topic; a
                \* reader among them has a td_ that is not null
    answer,     \* answer[c]: what the last lookup of caller c returned
    steady,     \* history: the objects nobody closed or dropped since the
                \* set of the lookup of caller c was copied or locked
    closing,    \* history: the objects that were closed when the lookup of
                \* caller c began, or that somebody closed since
    called      \* called[c]: the calls caller c has made

lookupVars ==
    <<frames, refs, fate, locked, setsHeld, listed, using, answer, steady, closing, called>>

Sets == (Objects \cup {None}) \X Sorts
SetOf(o) == <<Holder[o], SetSort(Sort[o])>>
FreeSet(k) == \A c \in Callers : <<k, c>> \notin setsHeld
Members(k) == {o \in listed : SetOf(o) = k}

Call(op, self, for, todo) ==
    [op |-> op, self |-> self, for |-> for, todo |-> todo,
     rest |-> {},       \* what is left of the set
     ref |-> None,      \* the entity it is looking at
     key |-> None,      \* the set whose mutex it holds
     found |-> {},
     loose |-> {}]      \* references that are about to go out of scope

Refers(o) == {Holder[o], About[o]} \ {None}

LookupInit ==
    /\ frames = [c \in Callers |-> << >>]
    /\ refs = [o \in Objects |-> IF o \in Late THEN {} ELSE
                  {"app"} \cup {x \in Objects \ Late : o \in Refers(x)}]
    /\ fate = [o \in Objects |-> IF o \in Late THEN "late" ELSE "open"]
    /\ locked = [o \in Objects |-> None]
    /\ setsHeld = {}
    /\ listed = Objects \ Late
    /\ using = {o \in Objects \ Late : About[o] # None}
    /\ answer = [c \in Callers |-> None]
    /\ steady = [c \in Callers |-> {}]
    /\ closing = [c \in Callers |-> {}]
    /\ called = [c \in Callers |-> 0]

-----------------------------------------------------------------------------
InCall(c) == frames[c] # << >>
Top(c) == Head(frames[c])
On(c, stage) == InCall(c) /\ Top(c).todo[1] = stage
Looking(c) == InCall(c) /\ Top(c).op # "close"

SetTop(c, f) == frames' = [frames EXCEPT ![c] = <<f>> \o Tail(@)]
Done(f) == [f EXCEPT !.todo = Tail(@)]

(* find_topic, find_cfTopic and contains_entity of a participant keep its  *)
(* mutex while they look; the others have none.                            *)
HasLock(op) == op \in {"find_topic", "find_cfTopic", "contains"}

LookupBody(op) ==
    CASE op = "find_topic_description" -> <<"first", "return">>
      [] op = "contains" -> <<"lock", "publisher", "subscriber", "topic", "return">>
      [] OTHER -> (IF HasLock(op) THEN <<"lock">> ELSE << >>) \o <<Seeks[op], "return">>

(* close(), reduced. A stage that is a sort closes the members of a set. A *)
(* discovered AnyTopic has the close() of its base class, which takes no   *)
(* mutex and leaves it in the set.                                         *)
CloseUnlistsLast(sort) == <<"lock", "finish", "unlist", "release">>      \* mutant
CloseBody(sort) ==
    CASE sort = "participant" ->
             <<"lock", "publisher", "subscriber", "cft", "topic", "unlist", "finish">>
      [] sort = "publisher" -> <<"lock", "writer", "unlist", "finish">>
      [] sort = "subscriber" -> <<"lock", "reader", "unlist", "finish">>
      [] sort = "topic" -> <<"lock", "dependents", "unlist", "finish">>
      [] sort = "discovered" -> <<"finish">>
      [] sort = "cft" -> <<"lock", "uncount", "unlist", "finish">>
      [] sort = "reader" -> <<"lock", "unlist", "uncount", "finish">>
      [] sort = "writer" -> <<"lock", "uncount", "unlist", "finish">>

CloseCall(o) == Call("close", o, None, CloseBody(Sort[o]))

(* The histories of a close() or a destructor that starts on o.            *)
Disturb(o) ==
    /\ steady' = [c \in Callers |-> steady[c] \ {o}]
    /\ closing' = [c \in Callers |-> IF InCall(c) THEN closing[c] \cup {o} ELSE closing[c]]

Undisturbed == UNCHANGED <<steady, closing>>

-----------------------------------------------------------------------------
(***************************************************************************)
(* Calls of the application. It has a reference to what it calls.          *)
(***************************************************************************)
InUse(o) == \E c \in Callers : InCall(c) /\ frames[c][Len(frames[c])].self = o

BeingClosed ==
    {o \in Objects : \E c \in Callers : \E i \in 1 .. Len(frames[c]) :
        frames[c][i].op = "close" /\ frames[c][i].self = o}

Calls(c) ==
    /\ ~InCall(c)
    /\ called[c] < MaxCalls[c]
    /\ called' = [called EXCEPT ![c] = @ + 1]

Ask(c, a) ==
    /\ Calls(c)
    /\ answer[c] = None
    /\ a \in Asks[c]
    /\ a.on # None => "app" \in refs[a.on]
    /\ frames' = [frames EXCEPT ![c] = <<Call(a.op, a.on, a.for, LookupBody(a.op))>>]
    /\ steady' = [steady EXCEPT ![c] = {}]
    /\ closing' = [closing EXCEPT ![c] =
           BeingClosed \cup {o \in Objects : fate[o] = "closed"}]
    /\ UNCHANGED <<refs, fate, locked, setsHeld, listed, using, answer>>

(* Bound: a caller lets go of what its lookup returned before it closes    *)
(* anything.                                                               *)
AskClose(c, o) ==
    /\ Calls(c)
    /\ answer[c] = None
    /\ o \in Closes[c]
    /\ "app" \in refs[o]
    /\ frames' = [frames EXCEPT ![c] = <<CloseCall(o)>>]
    /\ Disturb(o)
    /\ UNCHANGED <<refs, fate, locked, setsHeld, listed, using, answer>>

(* One reference goes; f is what the caller does next. With the last one   *)
(* the destructor runs first, which closes the object if nobody has, and   *)
(* then lets go of what the object refers to.                              *)
Let(c, holder, o, f) ==
    /\ refs' = [refs EXCEPT ![o] = @ \ {holder}]
    /\ IF refs[o] = {holder}
       THEN /\ fate' = [fate EXCEPT ![o] = "gone"]
            /\ frames' = [frames EXCEPT ![c] =
                  <<[CloseCall(o) EXCEPT !.todo =
                        (IF fate[o] = "closed" THEN << >> ELSE @) \o <<"forget">>]>> \o f]
            /\ Disturb(o)
       ELSE /\ frames' = [frames EXCEPT ![c] = f]
            /\ steady' = [x \in Callers |-> IF holder = "app" THEN steady[x] \ {o} ELSE steady[x]]
            /\ UNCHANGED <<fate, closing>>

AskDrop(c, o) ==
    /\ Calls(c)
    /\ o \in Drops[c]
    /\ "app" \in refs[o]
    /\ ~InUse(o)
    /\ Let(c, "app", o, << >>)
    /\ UNCHANGED <<locked, setsHeld, listed, using, answer>>

(* A constructor and its init(): the object enters the set of its parent.  *)
Enter(c, o) ==
    /\ Calls(c)
    /\ o \in Late
    /\ fate[o] = "late"
    /\ \A x \in Refers(o) : fate[x] = "open" /\ "app" \in refs[x]
    /\ FreeSet(SetOf(o))
    /\ fate' = [fate EXCEPT ![o] = "open"]
    /\ listed' = listed \cup {o}
    /\ using' = IF About[o] = None THEN using ELSE using \cup {o}
    /\ refs' = [x \in Objects |-> IF x = o THEN {"app"}
                                  ELSE IF x \in Refers(o) THEN refs[x] \cup {o} ELSE refs[x]]
    /\ Undisturbed
    /\ UNCHANGED <<frames, locked, setsHeld, answer>>

(* The application lets go of what a lookup returned, one after another.   *)
Thank(c) ==
    /\ ~InCall(c)
    /\ answer[c] # None
    /\ LET kept == IF answer[c].ask.op = "contains" THEN {} ELSE answer[c].found
       IN IF kept = {}
          THEN /\ answer' = [answer EXCEPT ![c] = None]
               /\ Undisturbed
               /\ UNCHANGED <<frames, refs, fate>>
          ELSE \E o \in kept :
                  /\ answer' = [answer EXCEPT ![c].found = @ \ {o}, ![c].steady = {}]
                  /\ Let(c, c, o, << >>)
    /\ UNCHANGED <<locked, setsHeld, listed, using>>

-----------------------------------------------------------------------------
(***************************************************************************)
(* Exceptions.                                                             *)
(***************************************************************************)

(* An exception ends in the destructor that is running, if any, in the     *)
(* lookup, or in the application. References go out of scope on its way,   *)
(* and before a lookup gives up its mutexes.                               *)
Destructor(f) == f.op = "close" /\ f.todo[Len(f.todo)] = "forget"
Catches(f) == f.op # "close" \/ Destructor(f)

(* contains_entity keeps no reference to what it has found.                *)
Held(f) == IF f.op = "contains" THEN {} ELSE f.found

Catcher(c, i) ==
    Catches(frames[c][i]) /\ \A j \in 1 .. i - 1 : ~Catches(frames[c][j])

Loose(c, n) ==
    (UNION {frames[c][i].loose \cup {frames[c][i].ref} \cup Held(frames[c][i]) : i \in 1 .. n})
        \ {None}

Throw(c) ==
    LET all == Len(frames[c])
        n == IF \E i \in 1 .. all : Catcher(c, i) THEN CHOOSE i \in 1 .. all : Catcher(c, i)
             ELSE all
        last == [frames[c][n] EXCEPT !.ref = None, !.found = {}, !.loose = Loose(c, n),
                    !.todo = IF @[Len(@)] = "forget" THEN <<"release", "forget">>
                             ELSE IF frames[c][n].op = "close" THEN <<"release">>
                             ELSE <<"release", "unwind">>]
        ended == {frames[c][i].self : i \in {j \in 1 .. n : frames[c][j].op = "close"}}
    IN /\ frames' = [frames EXCEPT ![c] = <<last>> \o SubSeq(@, n + 1, all)]
       /\ locked' = [o \in Objects |->
                        IF o \in ended /\ locked[o] = c THEN None ELSE locked[o]]
       /\ Undisturbed
       /\ UNCHANGED <<refs, fate, setsHeld, listed, using, answer>>

(* The next stage of the function the caller is in, or its end.            *)
Onward(c) ==
    frames' = [frames EXCEPT ![c] =
        (IF Len(Top(c).todo) = 1 THEN << >> ELSE <<Done(Top(c))>>) \o Tail(@)]

Go(c, f) ==
    /\ SetTop(c, f)
    /\ Undisturbed
    /\ UNCHANGED <<refs, fate, locked, setsHeld, listed, using, answer>>

(***************************************************************************)
(* Stages that lookups and close() share.                                  *)
(***************************************************************************)
LockSelf(c) ==
    /\ On(c, "lock")
    /\ locked[Top(c).self] = None
    /\ IF fate[Top(c).self] = "closed" THEN Throw(c)
       ELSE /\ locked' = [locked EXCEPT ![Top(c).self] = c]
            /\ SetTop(c, Done(Top(c)))
            /\ Undisturbed
            /\ UNCHANGED <<refs, fate, setsHeld, listed, using, answer>>

Undisturbable(k) ==
    {o \in Members(k) \ BeingClosed : fate[o] = "open" /\ "app" \in refs[o]}

(* EntitySet::copy and ObjectSet::copy: weak references, in the mutex of   *)
(* the set.                                                                *)
CopySet(c) ==
    /\ InCall(c) /\ Top(c).op # "contains"
    /\ \E sort \in Sorts :
          LET k == <<Top(c).self, sort>>
          IN /\ On(c, sort)
             /\ FreeSet(k)
             /\ SetTop(c, [Top(c) EXCEPT !.todo = <<"each">> \o Tail(@), !.rest = Members(k)])
             /\ steady' = [steady EXCEPT ![c] = IF Top(c).op = "close" THEN @ ELSE
                              @ \cup Undisturbable(k)]
    /\ UNCHANGED <<refs, fate, locked, setsHeld, listed, using, answer, closing>>

(* What is left of the set is not looked at once find_datawriter or        *)
(* contains_entity has found something.                                    *)
StopsAtMatch(f) == f.found # {}      \* mutant
Stops(f) ==
    \/ f.rest = {}
    \/ f.op \in {"find_datawriter", "contains"} /\ f.found # {}

(* The next entity of the set that still exists: a strong reference.       *)
Visit(c) ==
    /\ On(c, "each")
    /\ ~Stops(Top(c))
    /\ \E o \in Top(c).rest :
          LET f == [Top(c) EXCEPT !.rest = @ \ {o}]
          IN IF refs[o] = {}
             THEN Go(c, f)
             ELSE /\ refs' = [refs EXCEPT ![o] = @ \cup {c}]
                  /\ IF f.op = "close"
                     THEN /\ frames' = [frames EXCEPT ![c] =
                                <<CloseCall(o)>> \o
                                <<[f EXCEPT !.todo = <<"release">> \o @, !.loose = {o}]>>
                                \o Tail(@)]
                          /\ Disturb(o)
                     ELSE /\ SetTop(c, [f EXCEPT !.todo = <<"test">> \o @, !.ref = o])
                          /\ Undisturbed
                  /\ UNCHANGED <<fate, locked, setsHeld, listed, using, answer>>

VisitDone(c) ==
    /\ On(c, "each")
    /\ Stops(Top(c))
    /\ Go(c, [Done(Top(c)) EXCEPT !.rest = {}])

(* References go out of scope.                                             *)
Release(c) ==
    /\ On(c, "release")
    /\ IF Top(c).loose = {}
       THEN /\ Onward(c)
            /\ Undisturbed
            /\ UNCHANGED <<refs, fate, locked, setsHeld, listed, using, answer>>
       ELSE /\ \E o \in Top(c).loose :
                  Let(c, c, o, <<[Top(c) EXCEPT !.loose = @ \ {o}]>> \o Tail(frames[c]))
            /\ UNCHANGED <<locked, setsHeld, listed, using, answer>>

(***************************************************************************)
(* Stages of lookups.                                                      *)
(***************************************************************************)

(* What the lookup returns: the last match, all of them, or the first. A   *)
(* match that is replaced goes out of scope, like what does not match.     *)
MatchesAnything(f) == TRUE      \* mutant
Matches(f) == Label[f.ref] = f.for

Judge(c) ==
    LET f == [Done(Top(c)) EXCEPT !.todo = <<"release">> \o @, !.ref = None]
        o == Top(c).ref
    IN IF ~Matches(Top(c)) THEN SetTop(c, [f EXCEPT !.loose = {o}])
       ELSE IF f.op = "find_datareaders" THEN SetTop(c, [f EXCEPT !.found = @ \cup {o}])
       ELSE SetTop(c, [f EXCEPT !.found = {o}, !.loose = Top(c).found])

(* name(), domain_id() and topic_description() throw when the object is    *)
(* closed.                                                                 *)
Test(c) ==
    /\ On(c, "test") /\ Top(c).op # "contains"
    /\ LET o == Top(c).ref
       IN /\ locked[o] = None
          /\ IF fate[o] = "closed" THEN Throw(c)
             ELSE /\ IF Sort[o] \in {"reader", "writer"}
                     THEN SetTop(c, [Top(c) EXCEPT !.todo = <<"name">> \o Tail(@)])
                     ELSE Judge(c)
                  /\ Undisturbed
                  /\ UNCHANGED <<refs, fate, locked, setsHeld, listed, using, answer>>

(* topic_description() returned a reference to a member of the reader or   *)
(* writer, whose mutex it has left: close() of a reader makes it null.     *)
TestName(c) ==
    /\ On(c, "name")
    /\ LET o == Top(c).ref
       IN IF Sort[o] = "reader" /\ o \notin using THEN Throw(c)
          ELSE /\ locked[About[o]] = None
               /\ IF fate[About[o]] = "closed" THEN Throw(c)
                  ELSE /\ Judge(c)
                       /\ Undisturbed
                       /\ UNCHANGED <<refs, fate, locked, setsHeld, listed, using, answer>>

(* EntitySet::contains keeps the mutex of the set.                         *)
LockSet(c) ==
    /\ InCall(c) /\ Top(c).op = "contains"
    /\ \E sort \in Sorts :
          LET k == <<Top(c).self, sort>>
          IN /\ On(c, sort)
             /\ FreeSet(k)
             /\ setsHeld' = setsHeld \cup {<<k, c>>}
             /\ SetTop(c, [Top(c) EXCEPT !.todo = <<"each", "leave">> \o Tail(@),
                                         !.rest = Members(k), !.key = k])
             /\ steady' = [steady EXCEPT ![c] = @ \cup Undisturbable(k)]
    /\ UNCHANGED <<refs, fate, locked, listed, using, answer, closing>>

(* It compares handles, and looks into publishers and subscribers.         *)
TestHandle(c) ==
    /\ On(c, "test") /\ Top(c).op = "contains"
    /\ LET o == Top(c).ref
           f == [Done(Top(c)) EXCEPT !.todo = <<"release">> \o @, !.ref = None, !.loose = {o}]
           inner == CASE Sort[o] = "publisher" -> <<"writer", "return">>
                      [] Sort[o] = "subscriber" -> <<"reader", "return">>
                      [] OTHER -> << >>
       IN IF fate[o] = "closed" THEN Throw(c)
          ELSE /\ IF o = f.for THEN SetTop(c, [f EXCEPT !.found = {o}])
                  ELSE IF inner = << >> THEN SetTop(c, f)
                  ELSE frames' = [frames EXCEPT ![c] =
                            <<Call("contains", o, f.for, inner), f>> \o Tail(@)]
               /\ Undisturbed
               /\ UNCHANGED <<refs, fate, locked, setsHeld, listed, using, answer>>

LeaveSet(c) ==
    /\ On(c, "leave")
    /\ setsHeld' = setsHeld \ {<<Top(c).key, c>>}
    /\ SetTop(c, [Top(c) EXCEPT !.key = None,
                     !.todo = IF Top(c).found = {} THEN Tail(@) ELSE <<"return">>])
    /\ Undisturbed
    /\ UNCHANGED <<refs, fate, locked, listed, using, answer>>

(* find_topic_description looks for a topic, then for a filtered topic.    *)
FindTopic(c) ==
    /\ On(c, "first")
    /\ frames' = [frames EXCEPT ![c] =
           <<Call("find_topic", Top(c).self, Top(c).for, LookupBody("find_topic")),
             [Top(c) EXCEPT !.todo = <<"second", "return">>]>> \o Tail(@)]
    /\ Undisturbed
    /\ UNCHANGED <<refs, fate, locked, setsHeld, listed, using, answer>>

FindCfTopic(c) ==
    /\ On(c, "second")
    /\ frames' = [frames EXCEPT ![c] =
           (IF Top(c).found # {} THEN << >>
            ELSE <<Call("find_cfTopic", Top(c).self, Top(c).for, LookupBody("find_cfTopic"))>>)
           \o <<Done(Top(c))>> \o Tail(@)]
    /\ Undisturbed
    /\ UNCHANGED <<refs, fate, locked, setsHeld, listed, using, answer>>

(* The end of a lookup, or of a lookup within one. Mutexes are released.   *)
Ending(c, threw) ==
    /\ locked' = [o \in Objects |->
                     IF o = Top(c).self /\ locked[o] = c THEN None ELSE locked[o]]
    /\ setsHeld' = setsHeld \ {<<Top(c).key, c>>}
    /\ IF Len(frames[c]) = 1
       THEN /\ frames' = [frames EXCEPT ![c] = << >>]
            /\ answer' = [answer EXCEPT ![c] =
                  [ask |-> [op |-> Top(c).op, on |-> Top(c).self, for |-> Top(c).for],
                   found |-> Top(c).found, threw |-> threw,
                   steady |-> steady[c], closing |-> closing[c]]]
       ELSE /\ LET outer == frames[c][2]
                   next == IF threw THEN [outer EXCEPT !.todo = <<"release", "unwind">>]
                           ELSE [outer EXCEPT !.found = Top(c).found]
               IN frames' = [frames EXCEPT ![c] = <<next>> \o SubSeq(@, 3, Len(@))]
            /\ UNCHANGED answer
    /\ Undisturbed
    /\ UNCHANGED <<refs, fate, listed, using>>

Return(c) == On(c, "return") /\ Ending(c, FALSE)
Unwind(c) == On(c, "unwind") /\ Ending(c, TRUE)

(***************************************************************************)
(* Stages of close() and of destructors.                                   *)
(***************************************************************************)
HasUsers(c) ==
    /\ On(c, "dependents")
    /\ IF \E o \in using : About[o] = Top(c).self THEN Throw(c)
       ELSE Go(c, Done(Top(c)))

Unlist(c) ==
    /\ On(c, "unlist")
    /\ FreeSet(SetOf(Top(c).self))
    /\ listed' = listed \ {Top(c).self}
    /\ SetTop(c, Done(Top(c)))
    /\ Undisturbed
    /\ UNCHANGED <<refs, fate, locked, setsHeld, using, answer>>

(* decrNrDependents(); a reader then lets go of its topic description.     *)
Uncount(c) ==
    /\ On(c, "uncount")
    /\ LET o == Top(c).self
           rest == <<Done(Top(c))>> \o Tail(frames[c])
       IN /\ using' = using \ {o}
          /\ IF Sort[o] = "reader" THEN Let(c, o, About[o], rest)
             ELSE /\ frames' = [frames EXCEPT ![c] = rest]
                  /\ Undisturbed
                  /\ UNCHANGED <<refs, fate>>
    /\ UNCHANGED <<locked, setsHeld, listed, answer>>

EndClose(c) ==
    /\ On(c, "finish")
    /\ LET o == Top(c).self
       IN /\ fate' = [fate EXCEPT ![o] = IF @ = "gone" THEN @ ELSE "closed"]
          /\ locked' = [locked EXCEPT ![o] = IF @ = c THEN None ELSE @]
    /\ Onward(c)
    /\ Undisturbed
    /\ UNCHANGED <<refs, setsHeld, listed, using, answer>>

(* The end of a destructor: the members that are references.               *)
Forget(c) ==
    /\ On(c, "forget")
    /\ LET kept == {x \in Refers(Top(c).self) : Top(c).self \in refs[x]}
       IN IF kept = {}
          THEN /\ frames' = [frames EXCEPT ![c] = Tail(@)]
               /\ Undisturbed
               /\ UNCHANGED <<refs, fate>>
          ELSE \E x \in kept : Let(c, Top(c).self, x, frames[c])
    /\ UNCHANGED <<locked, setsHeld, listed, using, answer>>

-----------------------------------------------------------------------------
Stage(c) ==
    \/ LockSelf(c) \/ CopySet(c) \/ Visit(c) \/ VisitDone(c) \/ Release(c) \/ Test(c)
    \/ TestName(c) \/ LockSet(c) \/ TestHandle(c) \/ LeaveSet(c) \/ FindTopic(c)
    \/ FindCfTopic(c) \/ Return(c) \/ Unwind(c) \/ HasUsers(c) \/ Unlist(c) \/ Uncount(c)
    \/ EndClose(c) \/ Forget(c)

LookupStep(c) == Stage(c) /\ UNCHANGED called

LookupNext ==
    \E c \in Callers :
        \/ LookupStep(c)
        \/ \E a \in Asks[c] : Ask(c, a)
        \/ \E o \in Objects : AskClose(c, o) \/ AskDrop(c, o) \/ Enter(c, o)
        \/ Thank(c) /\ UNCHANGED called

LookupSpec == LookupInit /\ [][LookupNext]_lookupVars

(* A thread that is in a function of the library is scheduled; nothing     *)
(* obliges the application to call one.                                    *)
LookupFairness == \A c \in Callers : WF_lookupVars(LookupStep(c))

-----------------------------------------------------------------------------
(***************************************************************************)
(* Properties.                                                             *)
(***************************************************************************)
LookupTypeOK ==
    /\ \A c \in Callers : \A i \in 1 .. Len(frames[c]) :
          LET f == frames[c][i]
          IN /\ f.op \in Lookups \cup {"close"}
             /\ f.self \in Objects \cup {None}
             /\ f.todo # << >>
             /\ f.rest \cup f.found \cup f.loose \subseteq Objects
             /\ f.ref \in Objects \cup {None}
             /\ f.key \in Sets \cup {None}
    /\ refs \in [Objects -> SUBSET (Objects \cup Callers \cup {"app"})]
    /\ fate \in [Objects -> {"late", "open", "closed", "gone"}]
    /\ locked \in [Objects -> Callers \cup {None}]
    /\ setsHeld \subseteq Sets \X Callers
    /\ listed \cup using \subseteq Objects
    /\ \A c \in Callers : called[c] \in 0 .. MaxCalls[c]
    /\ \A c \in Callers : steady[c] \cup closing[c] \subseteq Objects

IsAbout(a, o) ==
    IF a.op = "contains" THEN o = a.for
    ELSE Label[o] = a.for /\ Holder[o] = a.on /\
         SetSort(Sort[o]) \in (IF a.op = "find_topic_description" THEN {"topic", "cft"}
                               ELSE {Seeks[a.op]})

(* What a lookup returns is what was asked for, in the container it was    *)
(* asked of, and still exists: the caller has a reference to it. If an     *)
(* entity that matches was in the set when the lookup got to it, and       *)
(* nobody closes or drops it meanwhile, the lookup finds one, and          *)
(* find_datareaders finds every such reader.                               *)
FindsWhatIsThere ==
    \A c \in Callers : answer[c] # None /\ ~answer[c].threw =>
        LET a == answer[c].ask
            there == {o \in answer[c].steady : IsAbout(a, o)}
        IN /\ \A o \in answer[c].found :
                 /\ IsAbout(a, o)
                 /\ a.op # "contains" => c \in refs[o] /\ fate[o] # "gone"
           /\ there # {} => answer[c].found # {}
           /\ a.op = "find_datareaders" => there \subseteq answer[c].found

(* A lookup throws only if the container it was asked of, or something in  *)
(* it, is closed meanwhile. What was closed before has left the set,       *)
(* except for a discovered AnyTopic; but a reader of a filtered topic that *)
(* was closed makes every search for readers throw. contains_entity throws *)
(* only for the container and a discovered topic: nothing leaves a set     *)
(* while it is looking.                                                    *)
ThrowsForAReason ==
    \A c \in Callers : answer[c] # None /\ answer[c].threw =>
        \E o \in answer[c].closing :
            \/ o = answer[c].ask.on
            \/ /\ Holder[o] = answer[c].ask.on
               /\ answer[c].ask.op # "contains" \/ Sort[o] = "discovered"
            \/ /\ answer[c].ask.op = "find_datareaders"
               /\ \E x \in Objects : Holder[x] = answer[c].ask.on /\ About[x] = o

(* A lookup returns exactly what it should, or throws for a reason.        *)
LookupsAreExact == FindsWhatIsThere /\ ThrowsForAReason

(* contains_entity was left with the last reference to an entity of a set  *)
(* whose mutex it holds: the destructor waits for that mutex.              *)
WaitsForItself(c) == On(c, "unlist") /\ <<SetOf(Top(c).self), c>> \in setsHeld

(* Every lookup ends, whatever is closed or dropped meanwhile, unless a    *)
(* contains_entity waits for itself.                                       *)
LookupsEnd ==
    \A c \in {x \in Callers : Asks[x] # {}} :
        Looking(c) ~> ~InCall(c) \/ \E d \in Callers : WaitsForItself(d)
=============================================================================
