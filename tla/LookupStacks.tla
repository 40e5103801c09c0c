---------------------------- MODULE LookupStacks ----------------------------
(***************************************************************************)
(* The inductive invariant of EntityLookup (LookupInv), for any entities,  *)
(* any threads and any calls, what a step on one stack keeps of it, and    *)
(* that the first stages of a function and the visits to entities keep it. *)
(*                                                                         *)
(* What a lookup looks at, has found or is about to release it has a       *)
(* reference to, one each (References), so that it never destroys what it  *)
(* returns. Whatever matches and was there all the time is in the set that *)
(* it copied, in its hands, or found (Knowledge), and no reference goes    *)
(* before the name was asked. An entity is out of its set, and out of the  *)
(* count of its topic, before it is closed (Closings), so that a name can  *)
(* be refused only by what is being closed. contains_entity has the mutex  *)
(* of the set it looks into (SetsLocked). Dropped references start         *)
(* destructors above a lookup on its stack; CallStacks says which          *)
(* functions can stand on which.                                           *)
(***************************************************************************)
EXTENDS EntityLookup, SequenceTheorems, TLAPS

(* The subjects of lookups, the frames on a stack, and the answers.        *)
Subjects == {a.for : a \in UNION {Asks[c] : c \in Callers}} \cup {None}

StageNames ==
    Sorts \cup {"lock", "first", "second", "each", "test", "name", "release", "leave", "return",
               "unwind", "dependents", "unlist", "uncount", "finish", "forget"}

CallFrames ==
    [op : Lookups \cup {"close"}, self : Objects \cup {None}, for : Subjects,
     todo : Seq(StageNames), rest : SUBSET Objects, ref : Objects \cup {None},
     key : Sets \cup {None}, found : SUBSET Objects, loose : SUBSET Objects]

Answers ==
    [ask : [op : Lookups, on : Objects \cup {None}, for : Subjects],
     found : SUBSET Objects, threw : BOOLEAN, steady : SUBSET Objects,
     closing : SUBSET Objects]

EndOf(q) == q[Len(q)]

(* What is left of a lookup that has thrown.                               *)
Leaving2 == {<<"release", "unwind">>, <<"unwind">>}

(* From place m on there is nothing but leaving the set and finishing.     *)
ClearFrom(q, m) ==
    \E k \in m .. Len(q) : q[k] = "finish" /\ \A j \in m .. k - 1 : q[j] = "unlist"

(* The close() finishes, and does not come by the stage before it does.    *)
FinishesPast(q, stage) ==
    \E k \in 1 .. Len(q) : q[k] = "finish" /\ \A j \in 1 .. k - 1 : q[j] # stage

CloseStages == Sorts \cup {"lock", "each", "release", "dependents", "unlist", "uncount",
                           "finish", "forget"}

CloseTodo(q) ==
    /\ q \in Seq(CloseStages)
    /\ EndOf(q) \in {"finish", "release", "forget"}
    /\ \A i \in 2 .. Len(q) : q[i] # "release"
    /\ \A i \in 1 .. Len(q) : q[i] = "forget" => i = Len(q)
    /\ \A i \in 1 .. Len(q) : q[i] = "uncount" => ClearFrom(q, i + 1)

FindTodos(sort) ==
    {<<"lock", sort, "return">>, <<sort, "return">>, <<"each", "return">>,
     <<"test", "each", "return">>, <<"name", "each", "return">>,
     <<"release", "each", "return">>, <<"return">>} \cup Leaving2

TwiceTodos ==
    {<<"first", "return">>, <<"second", "return">>, <<"return">>} \cup Leaving2

ContainsStages == Sorts \cup {"lock", "each", "test", "release", "leave", "return"}

ContainsTodo(q) ==
    \/ q \in Leaving2
    \/ /\ q \in Seq(ContainsStages)
       /\ \A i \in 1 .. Len(q) : q[i] = "return" <=> i = Len(q)
       /\ \A i \in 2 .. Len(q) : q[i] \notin {"test", "release", "lock"}

CloseShape(f) ==
    /\ f.self \in Objects
    /\ f.ref = None /\ f.found = {} /\ f.key = None
    /\ CloseTodo(f.todo)
    /\ (\E i \in 1 .. Len(f.todo) : f.todo[i] = "uncount") => About[f.self] # None
    /\ Destructor(f) => f.loose = {}

FindShape(f) ==
    /\ f.todo \in FindTodos(Seeks[f.op])
    /\ f.key = None
    /\ f.todo[1] = "lock" => f.self \in Objects
    /\ f.ref # None <=> f.todo[1] \in {"test", "name"}
    /\ f.todo[1] = "name" => Sort[f.ref] \in {"reader", "writer"}
    /\ f.todo[1] \in {"lock", Seeks[f.op]} => f.found = {}
    /\ f.rest # {} => \/ f.todo \in Leaving2 \/ f.todo[1] = "each"
                      \/ f.todo[1] \in {"test", "name", "release"} /\ f.todo[2] = "each"

TwiceShape(f) ==
    /\ f.todo \in TwiceTodos
    /\ f.self \in Objects
    /\ f.rest = {} /\ f.ref = None /\ f.loose = {} /\ f.key = None
    /\ f.todo[1] \in {"first", "release", "unwind"} => f.found = {}

ContainsShape(f) ==
    /\ f.self \in Objects
    /\ ContainsTodo(f.todo)
    /\ f.ref # None <=> f.todo[1] = "test"
    /\ f.todo[1] = "test" => f.found = {}
    /\ f.rest # {} => \/ f.todo \in Leaving2 \/ f.todo[1] = "each"
                      \/ f.todo[1] \in {"test", "release"} /\ f.todo[2] = "each"

FrameShape(f) ==
    /\ f.todo # << >>
    /\ f.loose # {} => f.todo[1] = "release"
    /\ \A o \in f.rest : Holder[o] = f.self
    /\ f.op = "close" => CloseShape(f)
    /\ f.op \in DOMAIN Seeks => FindShape(f)
    /\ f.op = "find_topic_description" => TwiceShape(f)
    /\ f.op = "contains" => ContainsShape(f)

Plain(f) == f.op = "close" /\ ~Destructor(f)
BaseOf(s) == s[Len(s)]
FramesOf(s) == {s[i] : i \in 1 .. Len(s)}
AskOf(f) == [op |-> f.op, on |-> f.self, for |-> f.for]

(* find_topic or find_cfTopic within find_topic_description.               *)
WithinTwice(f, b) ==
    /\ b.op = "find_topic_description" /\ b.self = f.self /\ b.for = f.for /\ b.found = {}
    /\ \/ f.op = "find_topic" /\ b.todo = <<"second", "return">>
       \/ f.op = "find_cfTopic" /\ b.todo = <<"return">>

(* The frame at place i fits those below it.                               *)
Placed(s, i) ==
    /\ Plain(s[i]) => \A j \in i + 1 .. Len(s) : Plain(s[j]) /\ s[j].todo[1] = "release"
    /\ s[i].op = "find_topic_description" => i = Len(s)
    /\ s[i].op \in DOMAIN Seeks => i = Len(s) \/ (i = Len(s) - 1 /\ WithinTwice(s[i], BaseOf(s)))
    /\ s[i].op = "contains" =>
          /\ \A j \in i + 1 .. Len(s) :
                s[j].op = "contains" /\ s[j].todo[1] = "release" /\ s[j].found = {}
                /\ s[j].for = s[i].for
          /\ i < Len(s) => Sort[s[i].self] \in {"publisher", "subscriber"} /\ s[i].todo[1] # "lock"

StackShape(s) ==
    /\ s \in Seq(CallFrames)
    /\ \A i \in 1 .. Len(s) : FrameShape(s[i])
    /\ \A i \in 1 .. Len(s) : Placed(s, i)

CallTypes ==
    /\ frames \in [Callers -> Seq(CallFrames)]
    /\ refs \in [Objects -> SUBSET (Objects \cup Callers \cup {"app"})]
    /\ fate \in [Objects -> {"late", "open", "closed", "gone"}]
    /\ locked \in [Objects -> Callers \cup {None}]
    /\ setsHeld \subseteq Sets \X Callers
    /\ listed \subseteq Objects
    /\ using \subseteq Objects
    /\ answer \in [Callers -> Answers \cup {None}]
    /\ steady \in [Callers -> SUBSET Objects]
    /\ closing \in [Callers -> SUBSET Objects]
    /\ called \in [Callers -> Nat]
    /\ \A c \in Callers : called[c] \in 0 .. MaxCalls[c]

CallStacks == \A c \in Callers : StackShape(frames[c])

(* References.                                                             *)
Tokens(f) == f.found \cup f.loose \cup ({f.ref} \ {None})

(* A lookup has a reference to what it has found, to what it is looking at *)
(* and to what it is about to release, one to each.                        *)
TokensOf(c, f, R) ==
    f.op \notin {"close", "contains"} =>
        /\ \A o \in Tokens(f) : c \in R[o]
        /\ f.found \cap f.loose = {} /\ f.rest \cap (f.found \cup f.loose) = {}
        /\ f.ref \notin f.found \cup f.loose \cup f.rest

GoneHasNone == \A o \in Objects : fate[o] \in {"gone", "late"} => refs[o] = {}

HoldersAreHeld == \A o \in Objects : refs[o] # {} /\ Holder[o] # None => o \in refs[Holder[o]]

DestroyedIsGone ==
    \A c \in Callers : \A f \in FramesOf(frames[c]) : Destructor(f) => fate[f.self] = "gone"

SteadyIsHeld == \A c \in Callers : \A o \in steady[c] : "app" \in refs[o]

Answered ==
    \A c \in Callers : answer[c] # None =>
        /\ \A f \in FramesOf(frames[c]) : Destructor(f)
        /\ answer[c].ask.op # "contains" => \A o \in answer[c].found : c \in refs[o]

TokensHeld == \A c \in Callers : \A f \in FramesOf(frames[c]) : TokensOf(c, f, refs)

References ==
    /\ GoneHasNone /\ HoldersAreHeld /\ DestroyedIsGone /\ SteadyIsHeld /\ Answered
    /\ TokensHeld

(* Closing.                                                                *)
NoLateWriters == \A o \in Late : Sort[o] # "writer"

Unused(o, U) == NoLateWriters => \A w \in U : Sort[w] = "writer" => About[w] # o

ClosesInOrder(f, F, L, U) ==
    f.op = "close" =>
        /\ F[f.self] # "late"
        /\ FinishesPast(f.todo, "unlist") /\ Sort[f.self] # "discovered" => f.self \notin L
        /\ FinishesPast(f.todo, "dependents") /\ Sort[f.self] = "topic" => Unused(f.self, U)

FramesInOrder ==
    \A c \in Callers : \A f \in FramesOf(frames[c]) : ClosesInOrder(f, fate, listed, using)

ClosedIsUnlisted ==
    \A o \in Objects : fate[o] = "closed" /\ Sort[o] # "discovered" => o \notin listed

ClosedIsUnused ==
    \A o \in Objects : fate[o] = "closed" /\ Sort[o] = "topic" => Unused(o, using)

AboutToFinish(f, o) == f.op = "close" /\ ~Destructor(f) /\ f.self = o /\ ClearFrom(f.todo, 1)

UncountedIsClosed ==
    \A o \in Objects : Sort[o] \in {"reader", "writer"} /\ refs[o] # {} /\ o \notin using =>
        \/ fate[o] = "closed"
        \/ \E c \in Callers : \E f \in FramesOf(frames[c]) : AboutToFinish(f, o)

ClosingIsKnown ==
    \A c \in Callers : InCall(c) /\ BaseOf(frames[c]).op # "close" =>
        \A o \in Objects :
            \/ fate[o] = "closed"
            \/ \E d \in Callers : \E f \in FramesOf(frames[d]) : f.op = "close" /\ f.self = o
            => o \in closing[c]

Closings ==
    /\ FramesInOrder /\ ClosedIsUnlisted /\ ClosedIsUnused /\ UncountedIsClosed
    /\ ClosingIsKnown

(* The mutexes of sets.                                                    *)
OneOwner ==
    \A k \in Sets : \A c, d \in Callers : <<k, c>> \in setsHeld /\ <<k, d>> \in setsHeld => c = d

KeepsSet(c, f, S, L) ==
    f.op = "contains" =>
        /\ f.key # None =>
              <<f.key, c>> \in S /\ f.key \in {f.self} \X Sorts
              /\ \A o \in f.rest \cup ({f.ref} \ {None}) : o \in L /\ SetOf(o) = f.key
        /\ f.key = None => f.rest = {} /\ f.ref = None

OwnKeys(s) == \A i, j \in 1 .. Len(s) : s[i].key # None /\ s[i].key = s[j].key => i = j

SetsKept ==
    /\ \A c \in Callers : \A f \in FramesOf(frames[c]) : KeepsSet(c, f, setsHeld, listed)
    /\ \A c \in Callers : OwnKeys(frames[c])

SetsLocked == OneOwner /\ SetsKept

(* What lookups know.                                                      *)
Unwinds(s) == \E f \in FramesOf(s) : f.todo \in Leaving2

Reason(a, C) ==
    \E o \in C :
        \/ o = a.on
        \/ Holder[o] = a.on /\ (a.op # "contains" \/ Sort[o] = "discovered")
        \/ /\ a.op = "find_datareaders"
           /\ \E x \in Objects : Holder[x] = a.on /\ About[x] = o

(* An object that is let go of is not what the lookup is about, or it has  *)
(* found another one.                                                      *)
SeenEnough(f, o) ==
    \/ IF f.op = "contains" THEN o # f.for ELSE Label[o] # f.for
    \/ f.op # "find_datareaders" /\ f.found # {}

RightFrame(f) ==
    /\ f.op # "close" => \A o \in f.found : IsAbout(AskOf(f), o)
    /\ f.op \in DOMAIN Seeks =>
          \A o \in f.rest \cup ({f.ref} \ {None}) :
              Holder[o] = f.self /\ SetSort(Sort[o]) = Seeks[f.op]
    /\ f.op # "close" /\ f.todo \notin Leaving2 => \A o \in f.loose : SeenEnough(f, o)

OnlyRight == \A c \in Callers : \A f \in FramesOf(frames[c]) : RightFrame(f)

InView(op, f, o) ==
    /\ f.op # "close"
    /\ o \in f.rest \cup Tokens(f) \/ (op # "find_datareaders" /\ f.found # {})

Searching(s, S, C) ==
    s # << >> /\ BaseOf(s).op # "close" =>
        IF Unwinds(s) THEN NoLateWriters => Reason(AskOf(BaseOf(s)), C)
        ELSE \A o \in S : IsAbout(AskOf(BaseOf(s)), o) =>
                \E f \in FramesOf(s) : InView(BaseOf(s).op, f, o)

NothingMissed == \A c \in Callers : Searching(frames[c], steady[c], closing[c])

Knowledge == OnlyRight /\ NothingMissed

AnswersAreExact == FindsWhatIsThere /\ (NoLateWriters => ThrowsForAReason)

LookupInv ==
    /\ CallTypes /\ CallStacks /\ References /\ Closings /\ SetsLocked /\ Knowledge
    /\ AnswersAreExact

-----------------------------------------------------------------------------
(* Stacks.                                                                 *)
LEMMA OntoStack ==
    ASSUME NEW X, NEW s \in Seq(X), NEW g \in X
    PROVE  LET t == <<g>> \o s
           IN  /\ t \in Seq(X) /\ t # << >> /\ Len(t) = Len(s) + 1 /\ t[1] = g
               /\ \A i \in 2 .. Len(t) : t[i] = s[i - 1]
               /\ \A i \in 1 .. Len(s) : t[i + 1] = s[i]
               /\ Tail(t) = s
<1> DEFINE t == <<g>> \o s
<1>1. <<g>> \in Seq(X) /\ Len(<<g>>) = 1 /\ <<g>>[1] = g
  OBVIOUS
<1>2. /\ t \in Seq(X) /\ Len(t) = 1 + Len(s)
      /\ \A i \in 1 .. 1 + Len(s) : t[i] = IF i <= 1 THEN <<g>>[i] ELSE s[i - 1]
  BY <1>1, ConcatProperties
<1>3. Len(s) \in Nat
  BY LenProperties
<1> HIDE DEF t
<1>4. t # << >> /\ t[1] = g /\ Len(t) = Len(s) + 1
  BY <1>1, <1>2, <1>3, EmptySeq
<1>5. \A i \in 2 .. Len(t) : t[i] = s[i - 1]
  BY <1>2, <1>3
<1>6. ASSUME NEW i \in 1 .. Len(s)
      PROVE  t[i + 1] = s[i]
  <2>1. i + 1 \in 2 .. Len(t) /\ i + 1 - 1 = i
    BY <1>3, <1>4
  <2> QED
    BY <1>5, <2>1
<1>7. /\ Tail(t) \in Seq(X) /\ Len(Tail(t)) = Len(t) - 1
      /\ \A i \in 1 .. Len(Tail(t)) : Tail(t)[i] = t[i + 1]
  BY <1>2, <1>4, HeadTailProperties
<1>8. Tail(t) = s
  <2>1. Len(Tail(t)) = Len(s)
    BY <1>3, <1>4, <1>7
  <2>2. \A i \in 1 .. Len(Tail(t)) : Tail(t)[i] = s[i]
    BY <1>6, <1>7, <2>1
  <2> QED
    BY <1>7, <2>1, <2>2, SeqEqual
<1> QED
  BY <1>2, <1>4, <1>5, <1>6, <1>8 DEF t

LEMMA OffStack ==
    ASSUME NEW X, NEW s \in Seq(X), s # << >>
    PROVE  /\ Tail(s) \in Seq(X) /\ Len(Tail(s)) = Len(s) - 1 /\ Len(s) \in Nat \ {0}
           /\ \A i \in 1 .. Len(Tail(s)) : Tail(s)[i] = s[i + 1]
           /\ s[1] \in X /\ Head(s) = s[1]
           /\ s = <<s[1]>> \o Tail(s)
           /\ Tail(s) = << >> <=> Len(s) = 1
<1>1. /\ Tail(s) \in Seq(X) /\ Len(Tail(s)) = Len(s) - 1 /\ Len(s) \in Nat \ {0}
      /\ \A i \in 1 .. Len(Tail(s)) : Tail(s)[i] = s[i + 1]
      /\ Head(s) = s[1] /\ s[1] \in X
  BY HeadTailProperties, EmptySeq, LenProperties, ElementOfSeq
<1> DEFINE t == <<s[1]>> \o Tail(s)
<1>2. /\ t \in Seq(X) /\ Len(t) = Len(Tail(s)) + 1 /\ t[1] = s[1]
      /\ \A i \in 2 .. Len(t) : t[i] = Tail(s)[i - 1]
  BY <1>1, OntoStack
<1> HIDE DEF t
<1>3. Len(t) = Len(s)
  BY <1>1, <1>2
<1>4. ASSUME NEW i \in 1 .. Len(s)
      PROVE  t[i] = s[i]
  <2>1. CASE i = 1
    BY <1>2, <2>1
  <2>2. CASE i # 1
    <3>1. i \in 2 .. Len(t) /\ i - 1 \in 1 .. Len(Tail(s)) /\ i - 1 + 1 = i
      BY <1>1, <1>3, <2>2
    <3> QED
      BY <1>1, <1>2, <3>1
  <2> QED
    BY <2>1, <2>2
<1>5. t = s
  BY <1>2, <1>3, <1>4, SeqEqual
<1>6. Tail(s) = << >> <=> Len(s) = 1
  <2> DEFINE q == Tail(s)
  <2>1. q \in Seq(X) /\ Len(q) = Len(s) - 1 /\ Len(s) \in Nat
    BY <1>1
  <2> HIDE DEF q
  <2>2. q = << >> <=> Len(q) = 0
    BY <2>1, EmptySeq
  <2>3. Len(s) - 1 = 0 <=> Len(s) = 1
    BY <2>1
  <2>4. q = << >> <=> Len(s) = 1
    BY <2>1, <2>2, <2>3
  <2> QED
    BY <2>4 DEF q
<1> QED
  BY <1>1, <1>5, <1>6 DEF t

(* The ways in which a stack is written.                                   *)
LEMMA StackForms ==
    ASSUME NEW X, NEW s \in Seq(X), s # << >>, NEW f \in X, NEW g \in X
    PROVE  /\ << >> \o s = s
           /\ <<f, g>> \o Tail(s) = <<f>> \o (<<g>> \o Tail(s))
           /\ <<f>> \o <<g>> \o Tail(s) = <<f>> \o (<<g>> \o Tail(s))
           /\ (<<f>> \o << >>) \o Tail(s) = <<f>> \o Tail(s)
           /\ (<< >> \o <<f>>) \o Tail(s) = <<f>> \o Tail(s)
           /\ << >> \o Tail(s) = Tail(s)
           /\ SubSeq(s, 2, Len(s)) = Tail(s)
           /\ SubSeq(s, Len(s) + 1, Len(s)) = << >>
           /\ <<f>> \o << >> = <<f>>
           /\ Len(s) > 1 => /\ SubSeq(s, 3, Len(s)) = Tail(Tail(s))
                            /\ Tail(s) # << >> /\ Tail(s)[1] = s[2] /\ s[2] \in X
<1> DEFINE q == Tail(s)
<1>1. q \in Seq(X) /\ Len(s) \in Nat \ {0} /\ Len(q) = Len(s) - 1
      /\ \A i \in 1 .. Len(q) : q[i] = s[i + 1]
  BY OffStack
<1>2. <<f>> \in Seq(X) /\ <<g>> \in Seq(X) /\ << >> \in Seq(X)
  OBVIOUS
<1>3. <<f, g>> = <<f>> \o <<g>>
  <2> DEFINE u == <<f, g>>
             v == <<f>> \o <<g>>
  <2>1. u \in Seq(X) /\ Len(u) = 2 /\ u[1] = f /\ u[2] = g
    OBVIOUS
  <2>2. v \in Seq(X) /\ Len(v) = 2 /\ v[1] = f /\ v[2] = <<g>>[1]
    BY <1>2, OntoStack
  <2> HIDE DEF u, v
  <2>3. \A i \in 1 .. 2 : i = 1 \/ i = 2
    OBVIOUS
  <2>4. \A i \in 1 .. Len(u) : u[i] = v[i]
    BY <2>1, <2>2, <2>3
  <2>5. u = v
    BY <2>1, <2>2, <2>4, SeqEqual
  <2> QED
    BY <2>5 DEF u, v
<1> HIDE DEF q
<1>4. (<<f>> \o <<g>>) \o q = <<f>> \o (<<g>> \o q)
  BY <1>1, <1>2, ConcatAssociative
<1>5. << >> \o s = s /\ << >> \o q = q /\ << >> \o <<f>> = <<f>> /\ <<f>> \o << >> = <<f>>
  BY <1>1, <1>2, ConcatEmptySeq
<1>6. SubSeq(s, 2, Len(s)) = q
  <2>1. /\ SubSeq(s, 2, Len(s)) \in Seq(X)
        /\ Len(SubSeq(s, 2, Len(s))) = IF 2 <= Len(s) THEN Len(s) - 2 + 1 ELSE 0
        /\ \A i \in 1 .. Len(s) - 2 + 1 : SubSeq(s, 2, Len(s))[i] = s[2 + i - 1]
    BY <1>1, SubSeqProperties
  <2> DEFINE u == SubSeq(s, 2, Len(s))
  <2> HIDE DEF u
  <2>2. u \in Seq(X) /\ Len(u) = Len(q)
    BY <1>1, <2>1 DEF u
  <2>3. \A i \in 1 .. Len(q) : u[i] = s[2 + i - 1] /\ 2 + i - 1 = i + 1
    BY <1>1, <2>1 DEF u
  <2>4. \A i \in 1 .. Len(q) : u[i] = q[i]
    BY <1>1, <2>3
  <2>5. u = q
    BY <1>1, <2>2, <2>4, SeqEqual
  <2> QED
    BY <2>5 DEF u
<1>7. SubSeq(s, Len(s) + 1, Len(s)) = << >>
  <2>1. /\ SubSeq(s, Len(s) + 1, Len(s)) \in Seq(X)
        /\ Len(SubSeq(s, Len(s) + 1, Len(s))) = IF Len(s) + 1 <= Len(s) THEN Len(s) - (Len(s) + 1) + 1 ELSE 0
    BY <1>1, SubSeqProperties
  <2> QED
    BY <1>1, <2>1, EmptySeq
<1>8. ASSUME Len(s) > 1
      PROVE  SubSeq(s, 3, Len(s)) = Tail(q) /\ q # << >> /\ q[1] = s[2] /\ s[2] \in X
  <2>1. q # << >> /\ 1 \in 1 .. Len(q) /\ 2 \in 1 .. Len(s)
    BY <1>1, <1>8, EmptySeq
  <2>2. Tail(q) \in Seq(X) /\ Len(Tail(q)) = Len(q) - 1
        /\ \A i \in 1 .. Len(Tail(q)) : Tail(q)[i] = q[i + 1]
    BY <1>1, <2>1, OffStack
  <2> DEFINE r == Tail(q)
             u == SubSeq(s, 3, Len(s))
  <2>3. /\ u \in Seq(X) /\ Len(u) = IF 3 <= Len(s) THEN Len(s) - 3 + 1 ELSE 0
        /\ \A i \in 1 .. Len(s) - 3 + 1 : u[i] = s[3 + i - 1]
    BY <1>1, <1>8, SubSeqProperties
  <2> HIDE DEF r, u
  <2>4. r \in Seq(X) /\ Len(r) = Len(s) - 2 /\ \A i \in 1 .. Len(r) : r[i] = q[i + 1]
    BY <1>1, <2>2 DEF r
  <2>5. Len(u) = Len(r)
    BY <1>1, <1>8, <2>3, <2>4
  <2>6. ASSUME NEW i \in 1 .. Len(r)
        PROVE  u[i] = r[i]
    <3>1. i + 1 \in 1 .. Len(q) /\ i + 1 + 1 = 3 + i - 1 /\ i \in 1 .. Len(s) - 3 + 1
      BY <1>1, <2>4
    <3> QED
      BY <1>1, <2>3, <2>4, <3>1
  <2>7. u = r
    BY <2>3, <2>4, <2>5, <2>6, SeqEqual
  <2> QED
    BY <1>1, <2>1, <2>7, ElementOfSeq DEF r, u
<1> QED
  BY <1>3, <1>4, <1>5, <1>6, <1>7, <1>8 DEF q

(* The frame g can go on top of stack s.                                   *)
Fits(g, s) ==
    /\ Plain(g) => \A j \in 1 .. Len(s) : Plain(s[j]) /\ s[j].todo[1] = "release"
    /\ g.op = "find_topic_description" => s = << >>
    /\ g.op \in DOMAIN Seeks => s = << >> \/ (Len(s) = 1 /\ WithinTwice(g, s[1]))
    /\ g.op = "contains" =>
          /\ \A j \in 1 .. Len(s) :
                s[j].op = "contains" /\ s[j].todo[1] = "release" /\ s[j].found = {}
                /\ s[j].for = g.for
          /\ s # << >> => Sort[g.self] \in {"publisher", "subscriber"} /\ g.todo[1] # "lock"

LEMMA PushedStack ==
    ASSUME NEW s, StackShape(s), NEW g \in CallFrames, FrameShape(g), Fits(g, s)
    PROVE  LET t == <<g>> \o s
           IN  /\ StackShape(t) /\ t # << >> /\ t[1] = g /\ Tail(t) = s
               /\ Len(t) = Len(s) + 1
               /\ FramesOf(t) = {g} \cup FramesOf(s)
               /\ BaseOf(t) = IF s = << >> THEN g ELSE BaseOf(s)
<1> DEFINE t == <<g>> \o s
<1>1. s \in Seq(CallFrames) /\ Len(s) \in Nat
  BY LenProperties DEF StackShape
<1>2. /\ t \in Seq(CallFrames) /\ t # << >> /\ Len(t) = Len(s) + 1 /\ t[1] = g /\ Tail(t) = s
      /\ \A i \in 2 .. Len(t) : t[i] = s[i - 1]
      /\ \A i \in 1 .. Len(s) : t[i + 1] = s[i]
  BY <1>1, OntoStack
<1>3. s = << >> <=> Len(s) = 0
  BY <1>1, EmptySeq
<1> HIDE DEF t
<1>4. FramesOf(t) = {g} \cup FramesOf(s)
  <2>1. ASSUME NEW i \in 1 .. Len(t)
        PROVE  t[i] = g \/ t[i] \in FramesOf(s)
    <3>1. CASE i = 1
      BY <1>2, <3>1
    <3>2. CASE i # 1
      <4>1. i \in 2 .. Len(t) /\ i - 1 \in 1 .. Len(s)
        BY <1>1, <1>2, <3>2
      <4> QED
        BY <1>2, <4>1 DEF FramesOf
    <3> QED
      BY <3>1, <3>2
  <2>2. 1 \in 1 .. Len(t)
    BY <1>1, <1>2
  <2>3. g \in FramesOf(t)
    BY <1>2, <2>2 DEF FramesOf
  <2>4. ASSUME NEW i \in 1 .. Len(s)
        PROVE  s[i] \in FramesOf(t)
    <3>1. i + 1 \in 1 .. Len(t)
      BY <1>1, <1>2
    <3> QED
      BY <1>2, <3>1 DEF FramesOf
  <2> QED
    BY <2>1, <2>3, <2>4 DEF FramesOf
<1>5. BaseOf(t) = IF s = << >> THEN g ELSE BaseOf(s)
  <2>1. CASE s = << >>
    <3>1. Len(t) = 1
      BY <1>2, <1>3, <2>1
    <3> QED
      BY <1>2, <2>1, <3>1 DEF BaseOf
  <2>2. CASE s # << >>
    <3>1. Len(s) \in 1 .. Len(s)
      BY <1>1, <1>3, <2>2
    <3>2. t[Len(s) + 1] = s[Len(s)]
      BY <1>2, <3>1
    <3> QED
      BY <1>2, <2>2, <3>2 DEF BaseOf
  <2> QED
    BY <2>1, <2>2
<1>6. ASSUME NEW i \in 1 .. Len(t)
      PROVE  FrameShape(t[i]) /\ Placed(t, i)
  <2>1. CASE i = 1
    <3>1. t[i] = g /\ FrameShape(t[i])
      BY <1>2, <2>1
    <3>2. ASSUME NEW j \in i + 1 .. Len(t)
          PROVE  j - 1 \in 1 .. Len(s) /\ t[j] = s[j - 1] /\ s # << >>
      <4>1. j \in 2 .. Len(t) /\ j - 1 \in 1 .. Len(s)
        BY <1>1, <1>2, <2>1
      <4> QED
        BY <1>2, <1>3, <4>1
    <3>3. Plain(g) => \A j \in i + 1 .. Len(t) : Plain(t[j]) /\ t[j].todo[1] = "release"
      BY <3>2 DEF Fits
    <3>4. g.op = "find_topic_description" => i = Len(t)
      <4>1. s = << >> => Len(t) = 1
        BY <1>2, <1>3
      <4> QED
        BY <2>1, <4>1 DEF Fits
    <3>5. g.op \in DOMAIN Seeks => i = Len(t) \/ (i = Len(t) - 1 /\ WithinTwice(g, BaseOf(t)))
      <4>1. s = << >> => Len(t) = 1
        BY <1>2, <1>3
      <4>2. Len(s) = 1 => Len(t) = 2 /\ s # << >> /\ BaseOf(s) = s[1]
        BY <1>2, <1>3 DEF BaseOf
      <4> QED
        BY <1>5, <2>1, <4>1, <4>2 DEF Fits
    <3>6. ASSUME g.op = "contains"
          PROVE  /\ \A j \in i + 1 .. Len(t) :
                        t[j].op = "contains" /\ t[j].todo[1] = "release" /\ t[j].found = {}
                        /\ t[j].for = g.for
                 /\ i < Len(t) => Sort[g.self] \in {"publisher", "subscriber"} /\ g.todo[1] # "lock"
      <4>1. i < Len(t) => s # << >>
        BY <1>1, <1>2, <1>3, <2>1
      <4> QED
        BY <3>2, <3>6, <4>1 DEF Fits
    <3>7. /\ Plain(t[i]) => \A j \in i + 1 .. Len(t) : Plain(t[j]) /\ t[j].todo[1] = "release"
          /\ t[i].op = "find_topic_description" => i = Len(t)
          /\ t[i].op \in DOMAIN Seeks =>
                i = Len(t) \/ (i = Len(t) - 1 /\ WithinTwice(t[i], BaseOf(t)))
      BY <3>1, <3>3, <3>4, <3>5
    <3>8. t[i].op = "contains" =>
                 /\ \A j \in i + 1 .. Len(t) :
                        t[j].op = "contains" /\ t[j].todo[1] = "release" /\ t[j].found = {}
                        /\ t[j].for = t[i].for
                 /\ i < Len(t) => Sort[t[i].self] \in {"publisher", "subscriber"} /\ t[i].todo[1] # "lock"
      BY <3>1, <3>6
    <3>9. Placed(t, i)
      BY <3>7, <3>8 DEF Placed
    <3> QED
      BY <3>1, <3>9
  <2>2. CASE i # 1
    <3> DEFINE k == i - 1
    <3>1. k \in 1 .. Len(s) /\ k + 1 = i /\ i \in 2 .. Len(t)
      BY <1>1, <1>2, <2>2
    <3>2. t[i] = s[k] /\ s # << >>
      BY <1>2, <1>3, <3>1
    <3> HIDE DEF k
    <3>3. FrameShape(t[i]) /\ Placed(s, k)
      BY <3>1, <3>2 DEF StackShape
    <3>4. BaseOf(t) = BaseOf(s)
      BY <1>5, <3>2
    <3>5. ASSUME NEW j \in i + 1 .. Len(t)
          PROVE  j - 1 \in k + 1 .. Len(s) /\ t[j] = s[j - 1]
      <4>1. j \in 2 .. Len(t) /\ j - 1 \in k + 1 .. Len(s)
        BY <1>1, <1>2, <3>1
      <4> QED
        BY <1>2, <4>1
    <3>6. /\ k = Len(s) <=> i = Len(t)
          /\ k = Len(s) - 1 <=> i = Len(t) - 1
          /\ k < Len(s) <=> i < Len(t)
      BY <1>1, <1>2, <3>1
    <3> DEFINE h == t[i]
    <3>7. s[k] = h
      BY <3>2
    <3> HIDE DEF h
    <3>8. /\ Plain(h) => \A j \in k + 1 .. Len(s) : Plain(s[j]) /\ s[j].todo[1] = "release"
          /\ h.op = "find_topic_description" => k = Len(s)
          /\ h.op \in DOMAIN Seeks => k = Len(s) \/ (k = Len(s) - 1 /\ WithinTwice(h, BaseOf(s)))
          /\ h.op = "contains" =>
                /\ \A j \in k + 1 .. Len(s) :
                      s[j].op = "contains" /\ s[j].todo[1] = "release" /\ s[j].found = {}
                      /\ s[j].for = h.for
                /\ k < Len(s) => Sort[h.self] \in {"publisher", "subscriber"} /\ h.todo[1] # "lock"
      BY <3>3, <3>7 DEF Placed
    <3>9. /\ Plain(h) => \A j \in i + 1 .. Len(t) : Plain(t[j]) /\ t[j].todo[1] = "release"
          /\ h.op = "find_topic_description" => i = Len(t)
          /\ h.op \in DOMAIN Seeks => i = Len(t) \/ (i = Len(t) - 1 /\ WithinTwice(h, BaseOf(t)))
      BY <3>4, <3>5, <3>6, <3>8
    <3>10. h.op = "contains" =>
                /\ \A j \in i + 1 .. Len(t) :
                      t[j].op = "contains" /\ t[j].todo[1] = "release" /\ t[j].found = {}
                      /\ t[j].for = h.for
                /\ i < Len(t) => Sort[h.self] \in {"publisher", "subscriber"} /\ h.todo[1] # "lock"
      BY <3>5, <3>6, <3>8
    <3> QED
      BY <3>3, <3>9, <3>10 DEF Placed, h
  <2> QED
    BY <2>1, <2>2
<1> QED
  BY <1>2, <1>4, <1>5, <1>6 DEF StackShape, t

LEMMA PoppedStack ==
    ASSUME NEW s, StackShape(s), s # << >>
    PROVE  /\ s[1] \in CallFrames /\ FrameShape(s[1]) /\ s[1] \in FramesOf(s)
           /\ Head(s) = s[1]
           /\ StackShape(Tail(s)) /\ Fits(s[1], Tail(s))
           /\ FramesOf(s) = {s[1]} \cup FramesOf(Tail(s))
           /\ BaseOf(s) = IF Tail(s) = << >> THEN s[1] ELSE BaseOf(Tail(s))
           /\ Tail(s) = << >> <=> Len(s) = 1
           /\ Len(s) \in Nat \ {0}
           /\ s = <<s[1]>> \o Tail(s)
<1> DEFINE q == Tail(s)
           f == s[1]
<1>1. /\ s \in Seq(CallFrames) /\ q \in Seq(CallFrames) /\ Len(s) \in Nat \ {0}
      /\ Len(q) = Len(s) - 1
      /\ f \in CallFrames /\ Head(s) = f /\ s = <<f>> \o q
      /\ \A i \in 1 .. Len(q) : q[i] = s[i + 1]
      /\ q = << >> <=> Len(s) = 1
  BY OffStack DEF StackShape
<1> HIDE DEF q
<1>2. 1 \in 1 .. Len(s)
  BY <1>1
<1>3. FrameShape(f) /\ f \in FramesOf(s) /\ Placed(s, 1)
  BY <1>2 DEF StackShape, FramesOf
<1> HIDE DEF f
<1>4. BaseOf(s) = IF q = << >> THEN f ELSE BaseOf(q)
  <2>1. CASE q = << >>
    BY <1>1, <2>1 DEF BaseOf, f
  <2>2. CASE q # << >>
    <3>1. Len(q) \in 1 .. Len(q) /\ Len(q) + 1 = Len(s)
      BY <1>1, <2>2
    <3> QED
      BY <1>1, <2>2, <3>1 DEF BaseOf
  <2> QED
    BY <2>1, <2>2
<1>5. ASSUME NEW i \in 1 .. Len(q)
      PROVE  FrameShape(q[i]) /\ Placed(q, i)
  <2> DEFINE k == i + 1
  <2>1. k \in 1 .. Len(s) /\ q[i] = s[k] /\ q # << >>
    BY <1>1
  <2>2. FrameShape(s[k]) /\ Placed(s, k)
    BY <2>1 DEF StackShape
  <2>3. BaseOf(s) = BaseOf(q)
    BY <1>4, <2>1
  <2>4. ASSUME NEW j \in i + 1 .. Len(q)
        PROVE  j + 1 \in k + 1 .. Len(s) /\ q[j] = s[j + 1]
    BY <1>1
  <2>5. /\ k = Len(s) <=> i = Len(q)
        /\ k = Len(s) - 1 <=> i = Len(q) - 1
        /\ k < Len(s) <=> i < Len(q)
    BY <1>1
  <2> HIDE DEF k
  <2> QED
    BY <2>1, <2>2, <2>3, <2>4, <2>5 DEF Placed
<1>6. StackShape(q)
  BY <1>1, <1>5 DEF StackShape
<1>7. Fits(f, q)
  <2>1. ASSUME NEW j \in 1 .. Len(q)
        PROVE  j + 1 \in 1 + 1 .. Len(s) /\ q[j] = s[j + 1] /\ q # << >>
    BY <1>1
  <2>2. Plain(f) => \A j \in 1 .. Len(q) : Plain(q[j]) /\ q[j].todo[1] = "release"
    BY <1>3, <2>1 DEF Placed, f
  <2>3. f.op = "find_topic_description" => q = << >>
    BY <1>1, <1>3 DEF Placed, f
  <2>4. f.op \in DOMAIN Seeks => q = << >> \/ (Len(q) = 1 /\ WithinTwice(f, q[1]))
    <3>1. Len(s) = 1 => q = << >>
      BY <1>1
    <3>2. 1 = Len(s) - 1 => Len(q) = 1 /\ q # << >> /\ BaseOf(q) = q[1]
      BY <1>1 DEF BaseOf
    <3> QED
      BY <1>3, <1>4, <3>1, <3>2 DEF Placed, f
  <2>5. ASSUME f.op = "contains"
        PROVE  /\ \A j \in 1 .. Len(q) :
                      q[j].op = "contains" /\ q[j].todo[1] = "release" /\ q[j].found = {}
                      /\ q[j].for = f.for
               /\ q # << >> => Sort[f.self] \in {"publisher", "subscriber"} /\ f.todo[1] # "lock"
    <3>1. q # << >> => 1 < Len(s)
      BY <1>1
    <3>2. /\ \A j \in 1 + 1 .. Len(s) :
                s[j].op = "contains" /\ s[j].todo[1] = "release" /\ s[j].found = {}
                /\ s[j].for = f.for
          /\ 1 < Len(s) => Sort[f.self] \in {"publisher", "subscriber"} /\ f.todo[1] # "lock"
      BY <1>3, <2>5 DEF Placed, f
    <3> QED
      BY <2>1, <3>1, <3>2
  <2> QED
    BY <2>2, <2>3, <2>4, <2>5 DEF Fits
<1>8. FramesOf(s) = {f} \cup FramesOf(q)
  <2>1. \A i \in 1 .. Len(q) : i + 1 \in 1 .. Len(s) /\ q[i] = s[i + 1]
    BY <1>1
  <2>2. ASSUME NEW i \in 1 .. Len(s)
        PROVE  s[i] = f \/ s[i] \in FramesOf(q)
    <3>1. CASE i = 1
      BY <3>1 DEF f
    <3>2. CASE i # 1
      <4>1. i - 1 \in 1 .. Len(q) /\ i - 1 + 1 = i
        BY <1>1, <3>2
      <4> QED
        BY <1>1, <4>1 DEF FramesOf
    <3> QED
      BY <3>1, <3>2
  <2>3. f \in FramesOf(s)
    BY <1>3
  <2> QED
    BY <2>1, <2>2, <2>3 DEF FramesOf
<1> QED
  BY <1>1, <1>3, <1>4, <1>6, <1>7, <1>8 DEF f, q

(* The frame on top goes on, as the same function.                         *)
LEMMA ReplacedTop ==
    ASSUME NEW s, StackShape(s), s # << >>, NEW f \in CallFrames, FrameShape(f),
           f.op = s[1].op, f.self = s[1].self, f.for = s[1].for, Plain(f) => Plain(s[1]),
           f.op = "contains" => f.todo[1] # "lock"
    PROVE  LET t == <<f>> \o Tail(s)
           IN  /\ StackShape(t) /\ t # << >> /\ t[1] = f /\ Tail(t) = Tail(s)
               /\ Len(t) = Len(s)
               /\ FramesOf(t) = {f} \cup FramesOf(Tail(s))
               /\ AskOf(BaseOf(t)) = AskOf(BaseOf(s)) /\ BaseOf(t).op = BaseOf(s).op
<1> DEFINE q == Tail(s)
<1>1. /\ StackShape(q) /\ Fits(s[1], q)
      /\ BaseOf(s) = IF q = << >> THEN s[1] ELSE BaseOf(q)
      /\ Len(s) \in Nat \ {0} /\ q \in Seq(CallFrames) /\ Len(q) = Len(s) - 1
  BY PoppedStack, OffStack DEF StackShape
<1> HIDE DEF q
<1>2. Fits(f, q)
  BY <1>1 DEF Fits, WithinTwice
<1> DEFINE t == <<f>> \o q
<1>3. /\ StackShape(t) /\ t # << >> /\ t[1] = f /\ Tail(t) = q /\ Len(t) = Len(q) + 1
      /\ FramesOf(t) = {f} \cup FramesOf(q)
      /\ BaseOf(t) = IF q = << >> THEN f ELSE BaseOf(q)
  BY <1>1, <1>2, PushedStack
<1>4. AskOf(BaseOf(t)) = AskOf(BaseOf(s)) /\ BaseOf(t).op = BaseOf(s).op
  BY <1>1, <1>3 DEF AskOf
<1> HIDE DEF t
<1>5. Len(t) = Len(s)
  BY <1>1, <1>3
<1> QED
  BY <1>3, <1>4, <1>5 DEF q, t

LEMMA NoStack ==
    /\ StackShape(<< >>) /\ FramesOf(<< >>) = {} /\ Len(<< >>) = 0
<1>1. << >> \in Seq(CallFrames) /\ Len(<< >>) = 0 /\ 1 .. 0 = {}
  BY EmptySeq
<1> QED
  BY <1>1 DEF StackShape, FramesOf

-----------------------------------------------------------------------------
(* The lists of stages.                                                    *)

(* A close() goes on to its next stage.                                    *)
LEMMA CloseTail ==
    ASSUME NEW q, CloseTodo(q), q # << >>, Len(q) > 1
    PROVE  LET r == Tail(q)
           IN  /\ CloseTodo(r) /\ r # << >> /\ EndOf(r) = EndOf(q)
               /\ \A st \in {"unlist", "dependents"} : FinishesPast(r, st) /\ q[1] # st => FinishesPast(q, st)
               /\ (\E i \in 1 .. Len(r) : r[i] = "uncount") => \E i \in 1 .. Len(q) : q[i] = "uncount"
               /\ q[1] = "uncount" => ClearFrom(r, 1)
               /\ q[1] = "unlist" /\ ClearFrom(q, 1) => ClearFrom(r, 1)
               /\ r[1] # "release"
<1> DEFINE r == Tail(q)
<1>1. /\ q \in Seq(CloseStages) /\ r \in Seq(CloseStages) /\ Len(q) \in Nat \ {0}
      /\ Len(r) = Len(q) - 1 /\ \A i \in 1 .. Len(r) : r[i] = q[i + 1]
  BY OffStack DEF CloseTodo
<1> HIDE DEF r
<1>2. r # << >>
  BY <1>1, EmptySeq
<1>3. EndOf(r) = EndOf(q)
  BY <1>1 DEF EndOf
<1>4. ASSUME NEW m \in Nat \ {0}, m \in 1 .. Len(q), ClearFrom(q, m + 1)
      PROVE  ClearFrom(r, m)
  <2>1. PICK k \in m + 1 .. Len(q) : q[k] = "finish" /\ \A j \in m + 1 .. k - 1 : q[j] = "unlist"
    BY <1>4 DEF ClearFrom
  <2>2. k - 1 \in m .. Len(r) /\ r[k - 1] = "finish"
    <3>1. k - 1 \in m .. Len(r) /\ k - 1 + 1 = k /\ k - 1 \in 1 .. Len(r)
      BY <1>1
    <3> QED
      BY <1>1, <2>1, <3>1
  <2>3. ASSUME NEW j \in m .. k - 1 - 1
        PROVE  r[j] = "unlist"
    <3>1. j \in 1 .. Len(r) /\ j + 1 \in m + 1 .. k - 1
      BY <1>1
    <3> QED
      BY <1>1, <2>1, <3>1
  <2> QED
    BY <2>2, <2>3 DEF ClearFrom
<1>5. ASSUME NEW i \in 1 .. Len(r), r[i] = "uncount"
      PROVE  ClearFrom(r, i + 1) /\ i + 1 \in 1 .. Len(q) /\ q[i + 1] = "uncount"
  <2>1. i + 1 \in 1 .. Len(q) /\ q[i + 1] = "uncount"
    BY <1>1, <1>5
  <2>2. ClearFrom(q, i + 1 + 1)
    BY <2>1 DEF CloseTodo
  <2> QED
    BY <1>1, <1>4, <2>1, <2>2
<1>6. \A i \in 1 .. Len(r) : r[i] # "release"
  <2>1. ASSUME NEW i \in 1 .. Len(r)
        PROVE  r[i] # "release"
    <3>1. i + 1 \in 2 .. Len(q) /\ r[i] = q[i + 1]
      BY <1>1
    <3> QED
      BY <3>1 DEF CloseTodo
  <2> QED
    BY <2>1
<1>7. CloseTodo(r)
  <2>1. \A i \in 2 .. Len(r) : r[i] # "release"
    <3>1. \A i \in 2 .. Len(r) : i \in 1 .. Len(r)
      BY <1>1
    <3> QED
      BY <1>6, <3>1
  <2>2. ASSUME NEW i \in 1 .. Len(r), r[i] = "forget"
        PROVE  i = Len(r)
    <3>1. i + 1 \in 1 .. Len(q) /\ q[i + 1] = "forget"
      BY <1>1, <2>2
    <3>2. i + 1 = Len(q)
      BY <3>1 DEF CloseTodo
    <3> QED
      BY <1>1, <3>2
  <2> QED
    BY <1>1, <1>3, <1>5, <2>1, <2>2 DEF CloseTodo
<1>8. ASSUME NEW st \in {"unlist", "dependents"}, FinishesPast(r, st), q[1] # st
      PROVE  FinishesPast(q, st)
  <2>1. PICK k \in 1 .. Len(r) : r[k] = "finish" /\ \A j \in 1 .. k - 1 : r[j] # st
    BY <1>8 DEF FinishesPast
  <2>2. k + 1 \in 1 .. Len(q) /\ q[k + 1] = "finish"
    BY <1>1, <2>1
  <2>3. ASSUME NEW j \in 1 .. k + 1 - 1
        PROVE  q[j] # st
    <3>1. CASE j = 1
      BY <1>8, <3>1
    <3>2. CASE j # 1
      <4>1. j - 1 \in 1 .. k - 1 /\ j - 1 \in 1 .. Len(r) /\ j - 1 + 1 = j
        BY <1>1, <3>2
      <4> QED
        BY <1>1, <2>1, <4>1
    <3> QED
      BY <3>1, <3>2
  <2> QED
    BY <2>2, <2>3 DEF FinishesPast
<1>9. q[1] = "uncount" => ClearFrom(r, 1)
  <2>1. ASSUME q[1] = "uncount"
        PROVE  ClearFrom(r, 1)
    <3>1. 1 \in 1 .. Len(q)
      BY <1>1
    <3>2. ClearFrom(q, 1 + 1)
      BY <2>1, <3>1 DEF CloseTodo
    <3> QED
      BY <1>4, <3>1, <3>2
  <2> QED
    BY <2>1
<1>10. ASSUME q[1] = "unlist", ClearFrom(q, 1)
       PROVE  ClearFrom(r, 1)
  <2>1. PICK k \in 1 .. Len(q) : q[k] = "finish" /\ \A j \in 1 .. k - 1 : q[j] = "unlist"
    BY <1>10 DEF ClearFrom
  <2>2. k # 1
    BY <1>10, <2>1
  <2>3. k \in 1 + 1 .. Len(q) /\ \A j \in 1 + 1 .. k - 1 : j \in 1 .. k - 1
    BY <1>1, <2>2
  <2>4. ClearFrom(q, 1 + 1)
    BY <2>1, <2>3 DEF ClearFrom
  <2>5. 1 \in 1 .. Len(q)
    BY <1>1
  <2> QED
    BY <1>4, <2>4, <2>5
<1>11. r[1] # "release"
  <2>1. 1 \in 1 .. Len(r)
    BY <1>1
  <2> QED
    BY <1>6, <2>1
<1> QED
  BY <1>2, <1>3, <1>5, <1>7, <1>8, <1>9, <1>10, <1>11 DEF r

(* A stage is put before what is left of a close().                        *)
LEMMA ClosePut ==
    ASSUME NEW q, CloseTodo(q), q # << >>, NEW x \in {"each", "release"},
           \A i \in 1 .. Len(q) : q[i] # "release"
    PROVE  LET r == <<x>> \o q
           IN  /\ CloseTodo(r) /\ r # << >> /\ EndOf(r) = EndOf(q) /\ r[1] = x
               /\ \A st \in {"unlist", "dependents"} : FinishesPast(r, st) => FinishesPast(q, st)
               /\ (\E i \in 1 .. Len(r) : r[i] = "uncount") => \E i \in 1 .. Len(q) : q[i] = "uncount"
<1> DEFINE r == <<x>> \o q
<1>1. q \in Seq(CloseStages) /\ Len(q) \in Nat \ {0} /\ x \in CloseStages
  BY EmptySeq, LenProperties DEF CloseTodo, CloseStages
<1>2. /\ r \in Seq(CloseStages) /\ r # << >> /\ Len(r) = Len(q) + 1 /\ r[1] = x
      /\ \A i \in 2 .. Len(r) : r[i] = q[i - 1]
      /\ \A i \in 1 .. Len(q) : r[i + 1] = q[i]
  BY <1>1, OntoStack
<1> HIDE DEF r
<1>3. EndOf(r) = EndOf(q)
  <2>1. Len(q) \in 1 .. Len(q)
    BY <1>1
  <2>2. r[Len(q) + 1] = q[Len(q)]
    BY <1>2, <2>1
  <2> QED
    BY <1>2, <2>2 DEF EndOf
<1>4. ASSUME NEW i \in 1 .. Len(r), r[i] = "uncount"
      PROVE  i - 1 \in 1 .. Len(q) /\ q[i - 1] = "uncount"
  <2>1. i # 1
    BY <1>2, <1>4
  <2>2. i \in 2 .. Len(r) /\ i - 1 \in 1 .. Len(q)
    BY <1>1, <1>2, <2>1
  <2> QED
    BY <1>2, <1>4, <2>2
<1>5. ASSUME NEW i \in 1 .. Len(r), r[i] = "uncount"
      PROVE  ClearFrom(r, i + 1)
  <2> DEFINE m == i - 1
  <2>1. m \in 1 .. Len(q) /\ q[m] = "uncount" /\ m + 1 = i
    BY <1>4, <1>5
  <2> HIDE DEF m
  <2>2. PICK k \in m + 1 .. Len(q) : q[k] = "finish" /\ \A j \in m + 1 .. k - 1 : q[j] = "unlist"
    BY <2>1 DEF CloseTodo, ClearFrom
  <2>3. k + 1 \in i + 1 .. Len(r) /\ k \in 1 .. Len(q)
    BY <1>1, <1>2, <2>1
  <2>4. r[k + 1] = "finish"
    BY <1>2, <2>2, <2>3
  <2>5. ASSUME NEW j \in i + 1 .. k + 1 - 1
        PROVE  r[j] = "unlist"
    <3>1. j - 1 \in m + 1 .. k - 1 /\ j \in 2 .. Len(r)
      BY <1>1, <1>2, <2>1
    <3> QED
      BY <1>2, <2>2, <3>1
  <2> QED
    BY <2>3, <2>4, <2>5 DEF ClearFrom
<1>6. ASSUME NEW i \in 2 .. Len(r)
      PROVE  r[i] # "release"
  <2>1. i - 1 \in 1 .. Len(q)
    BY <1>1, <1>2
  <2> QED
    BY <1>2, <2>1
<1>a. ASSUME NEW i \in 1 .. Len(r), r[i] = "forget"
      PROVE  i = Len(r)
  <2>1. i # 1
    BY <1>2, <1>a
  <2>2. i \in 2 .. Len(r) /\ i - 1 \in 1 .. Len(q)
    BY <1>1, <1>2, <2>1
  <2>3. q[i - 1] = "forget"
    BY <1>2, <1>a, <2>2
  <2>4. i - 1 = Len(q)
    BY <2>2, <2>3 DEF CloseTodo
  <2> QED
    BY <1>1, <1>2, <2>4
<1>7. CloseTodo(r)
  BY <1>2, <1>3, <1>5, <1>6, <1>a DEF CloseTodo
<1>8. ASSUME NEW st \in {"unlist", "dependents"}, FinishesPast(r, st)
      PROVE  FinishesPast(q, st)
  <2>1. PICK k \in 1 .. Len(r) : r[k] = "finish" /\ \A j \in 1 .. k - 1 : r[j] # st
    BY <1>8 DEF FinishesPast
  <2>2. k # 1
    BY <1>2, <2>1
  <2>3. k - 1 \in 1 .. Len(q) /\ k \in 2 .. Len(r)
    BY <1>1, <1>2, <2>2
  <2>4. q[k - 1] = "finish"
    BY <1>2, <2>1, <2>3
  <2>5. ASSUME NEW j \in 1 .. k - 1 - 1
        PROVE  q[j] # st
    <3>1. j \in 1 .. Len(q) /\ j + 1 \in 1 .. k - 1
      BY <1>1, <1>2, <2>3
    <3> QED
      BY <1>2, <2>1, <3>1
  <2> QED
    BY <2>3, <2>4, <2>5 DEF FinishesPast
<1> QED
  BY <1>2, <1>3, <1>4, <1>7, <1>8 DEF r

(* A destructor has one stage more than a close().                         *)
LEMMA ForgetPut ==
    ASSUME NEW q, CloseTodo(q), q # << >>, EndOf(q) = "finish"
    PROVE  LET r == q \o <<"forget">>
           IN  /\ CloseTodo(r) /\ r # << >> /\ EndOf(r) = "forget" /\ r[1] = q[1]
               /\ \A st \in {"unlist", "dependents"} : FinishesPast(r, st) => FinishesPast(q, st)
               /\ (\E i \in 1 .. Len(r) : r[i] = "uncount") => \E i \in 1 .. Len(q) : q[i] = "uncount"
<1> DEFINE r == q \o <<"forget">>
<1>1. q \in Seq(CloseStages) /\ Len(q) \in Nat \ {0} /\ <<"forget">> \in Seq(CloseStages)
      /\ Len(<<"forget">>) = 1 /\ <<"forget">>[1] = "forget"
  BY EmptySeq, LenProperties DEF CloseTodo, CloseStages
<1>2. /\ r \in Seq(CloseStages) /\ Len(r) = Len(q) + 1
      /\ \A i \in 1 .. Len(q) + 1 : r[i] = IF i <= Len(q) THEN q[i] ELSE <<"forget">>[i - Len(q)]
  BY <1>1, ConcatProperties
<1> HIDE DEF r
<1>3. \A i \in 1 .. Len(q) : r[i] = q[i]
  BY <1>1, <1>2
<1>4. r[Len(q) + 1] = "forget"
  <2>1. Len(q) + 1 \in 1 .. Len(q) + 1 /\ ~(Len(q) + 1 <= Len(q)) /\ Len(q) + 1 - Len(q) = 1
    BY <1>1
  <2> QED
    BY <1>1, <1>2, <2>1
<1>5. ASSUME NEW i \in 1 .. Len(r), r[i] # "forget"
      PROVE  i \in 1 .. Len(q) /\ r[i] = q[i]
  <2>1. i # Len(q) + 1
    BY <1>4, <1>5
  <2>2. i \in 1 .. Len(q)
    BY <1>1, <1>2, <2>1
  <2> QED
    BY <1>3, <2>2
<1>6. ASSUME NEW i \in 1 .. Len(r), r[i] = "uncount"
      PROVE  ClearFrom(r, i + 1) /\ i \in 1 .. Len(q) /\ q[i] = "uncount"
  <2>1. i \in 1 .. Len(q) /\ q[i] = "uncount"
    BY <1>5, <1>6
  <2>2. PICK k \in i + 1 .. Len(q) : q[k] = "finish" /\ \A j \in i + 1 .. k - 1 : q[j] = "unlist"
    BY <2>1 DEF CloseTodo, ClearFrom
  <2>3. k \in i + 1 .. Len(r) /\ k \in 1 .. Len(q) /\ \A j \in i + 1 .. k - 1 : j \in 1 .. Len(q)
    BY <1>1, <1>2, <2>1
  <2> QED
    BY <1>3, <2>1, <2>2, <2>3 DEF ClearFrom
<1>7. CloseTodo(r)
  <2>1. ASSUME NEW i \in 2 .. Len(r), r[i] = "release"
        PROVE  FALSE
    <3>1. i \in 1 .. Len(r)
      BY <1>1, <1>2
    <3>2. i \in 1 .. Len(q) /\ q[i] = "release"
      BY <1>5, <2>1, <3>1
    <3>3. i \in 2 .. Len(q)
      BY <1>1, <3>2
    <3> QED
      BY <3>2, <3>3 DEF CloseTodo
  <2>2. ASSUME NEW i \in 1 .. Len(r), r[i] = "forget"
        PROVE  i = Len(r)
    <3>1. SUFFICES ASSUME i # Len(r) PROVE FALSE
      OBVIOUS
    <3>2. i \in 1 .. Len(q)
      BY <1>1, <1>2, <3>1
    <3>3. q[i] = "forget"
      BY <1>3, <2>2, <3>2
    <3>4. i = Len(q)
      BY <3>2, <3>3 DEF CloseTodo
    <3>5. q[Len(q)] = "finish"
      BY DEF EndOf
    <3> QED
      BY <3>3, <3>4, <3>5
  <2> QED
    BY <1>2, <1>4, <1>6, <2>1, <2>2 DEF CloseTodo, EndOf
<1>8. ASSUME NEW st \in {"unlist", "dependents"}, FinishesPast(r, st)
      PROVE  FinishesPast(q, st)
  <2>1. PICK k \in 1 .. Len(r) : r[k] = "finish" /\ \A j \in 1 .. k - 1 : r[j] # st
    BY <1>8 DEF FinishesPast
  <2>2. k \in 1 .. Len(q) /\ q[k] = "finish"
    BY <1>5, <2>1
  <2>3. \A j \in 1 .. k - 1 : j \in 1 .. Len(q)
    BY <1>1, <2>2
  <2> QED
    BY <1>3, <2>1, <2>2, <2>3 DEF FinishesPast
<1>9. r # << >> /\ 1 \in 1 .. Len(q)
  BY <1>1, <1>2, EmptySeq
<1> QED
  BY <1>2, <1>3, <1>4, <1>6, <1>7, <1>8, <1>9 DEF r, EndOf

(* What a close() and a destructor begin with, and what an exception       *)
(* leaves of them.                                                         *)
StartsWell(q, sort) ==
    /\ CloseTodo(q) /\ q # << >>
    /\ sort # "discovered" => ~FinishesPast(q, "unlist")
    /\ sort = "topic" => ~FinishesPast(q, "dependents")
    /\ (\E i \in 1 .. Len(q) : q[i] = "uncount") => sort \in {"reader", "writer", "cft"}

LEMMA CloseLiterals ==
    ASSUME NEW sort \in Sorts
    PROVE  /\ StartsWell(CloseBody(sort), sort)
           /\ StartsWell(CloseBody(sort) \o <<"forget">>, sort)
           /\ StartsWell(<< >> \o <<"forget">>, sort)
           /\ StartsWell(<<"release">>, sort) /\ StartsWell(<<"release", "forget">>, sort)
           /\ EndOf(CloseBody(sort)) = "finish" /\ CloseBody(sort)[1] # "release"
           /\ EndOf(CloseBody(sort) \o <<"forget">>) = "forget"
           /\ EndOf(<< >> \o <<"forget">>) = "forget"
           /\ EndOf(<<"release">>) = "release" /\ EndOf(<<"release", "forget">>) = "forget"
<1>1. ASSUME sort = "participant"
      PROVE  StartsWell(CloseBody(sort), sort) /\ EndOf(CloseBody(sort)) = "finish"
             /\ CloseBody(sort)[1] # "release"
  <2> DEFINE b == <<"lock", "publisher", "subscriber", "cft", "topic", "unlist", "finish">>
  <2>1. CloseBody(sort) = b
    BY <1>1 DEF CloseBody
  <2>2. b \in Seq(CloseStages) /\ Len(b) = 7 /\ b # << >>
    BY DEF CloseStages, Sorts, Containers
  <2>3. b[1] = "lock" /\ b[2] = "publisher" /\ b[3] = "subscriber" /\ b[4] = "cft" /\ b[5] = "topic" /\ b[6] = "unlist" /\ b[7] = "finish"
    OBVIOUS
  <2> HIDE DEF b
  <2>4. \A i \in 1 .. 7 : i = 1 \/ i = 2 \/ i = 3 \/ i = 4 \/ i = 5 \/ i = 6 \/ i = 7
    OBVIOUS
  <2>6. \A i \in 1 .. Len(b) : b[i] # "uncount"
    BY <2>2, <2>3, <2>4
  <2>7. CloseTodo(b)
    BY <2>2, <2>3, <2>4, <2>6 DEF CloseTodo, EndOf
  <2>8. \A i \in 1 .. Len(b) : b[i] = "finish" => i = 7
    BY <2>2, <2>3, <2>4
  <2>9. ~FinishesPast(b, "unlist")
    <3>1. 6 \in 1 .. 7 - 1
      OBVIOUS
    <3> QED
      BY <2>3, <2>8, <3>1 DEF FinishesPast
  <2>10. sort # "topic"
    BY <1>1
  <2>11. StartsWell(b, sort)
    BY <1>1, <2>2, <2>6, <2>7, <2>9, <2>10 DEF StartsWell
  <2>12. EndOf(b) = "finish" /\ b[1] # "release"
    BY <2>2, <2>3 DEF EndOf
  <2> QED
    BY <2>1, <2>11, <2>12
<1>2. ASSUME sort = "publisher"
      PROVE  StartsWell(CloseBody(sort), sort) /\ EndOf(CloseBody(sort)) = "finish"
             /\ CloseBody(sort)[1] # "release"
  <2> DEFINE b == <<"lock", "writer", "unlist", "finish">>
  <2>1. CloseBody(sort) = b
    BY <1>2 DEF CloseBody
  <2>2. b \in Seq(CloseStages) /\ Len(b) = 4 /\ b # << >>
    BY DEF CloseStages, Sorts, Containers
  <2>3. b[1] = "lock" /\ b[2] = "writer" /\ b[3] = "unlist" /\ b[4] = "finish"
    OBVIOUS
  <2> HIDE DEF b
  <2>4. \A i \in 1 .. 4 : i = 1 \/ i = 2 \/ i = 3 \/ i = 4
    OBVIOUS
  <2>6. \A i \in 1 .. Len(b) : b[i] # "uncount"
    BY <2>2, <2>3, <2>4
  <2>7. CloseTodo(b)
    BY <2>2, <2>3, <2>4, <2>6 DEF CloseTodo, EndOf
  <2>8. \A i \in 1 .. Len(b) : b[i] = "finish" => i = 4
    BY <2>2, <2>3, <2>4
  <2>9. ~FinishesPast(b, "unlist")
    <3>1. 3 \in 1 .. 4 - 1
      OBVIOUS
    <3> QED
      BY <2>3, <2>8, <3>1 DEF FinishesPast
  <2>10. sort # "topic"
    BY <1>2
  <2>11. StartsWell(b, sort)
    BY <1>2, <2>2, <2>6, <2>7, <2>9, <2>10 DEF StartsWell
  <2>12. EndOf(b) = "finish" /\ b[1] # "release"
    BY <2>2, <2>3 DEF EndOf
  <2> QED
    BY <2>1, <2>11, <2>12
<1>3. ASSUME sort = "subscriber"
      PROVE  StartsWell(CloseBody(sort), sort) /\ EndOf(CloseBody(sort)) = "finish"
             /\ CloseBody(sort)[1] # "release"
  <2> DEFINE b == <<"lock", "reader", "unlist", "finish">>
  <2>1. CloseBody(sort) = b
    BY <1>3 DEF CloseBody
  <2>2. b \in Seq(CloseStages) /\ Len(b) = 4 /\ b # << >>
    BY DEF CloseStages, Sorts, Containers
  <2>3. b[1] = "lock" /\ b[2] = "reader" /\ b[3] = "unlist" /\ b[4] = "finish"
    OBVIOUS
  <2> HIDE DEF b
  <2>4. \A i \in 1 .. 4 : i = 1 \/ i = 2 \/ i = 3 \/ i = 4
    OBVIOUS
  <2>6. \A i \in 1 .. Len(b) : b[i] # "uncount"
    BY <2>2, <2>3, <2>4
  <2>7. CloseTodo(b)
    BY <2>2, <2>3, <2>4, <2>6 DEF CloseTodo, EndOf
  <2>8. \A i \in 1 .. Len(b) : b[i] = "finish" => i = 4
    BY <2>2, <2>3, <2>4
  <2>9. ~FinishesPast(b, "unlist")
    <3>1. 3 \in 1 .. 4 - 1
      OBVIOUS
    <3> QED
      BY <2>3, <2>8, <3>1 DEF FinishesPast
  <2>10. sort # "topic"
    BY <1>3
  <2>11. StartsWell(b, sort)
    BY <1>3, <2>2, <2>6, <2>7, <2>9, <2>10 DEF StartsWell
  <2>12. EndOf(b) = "finish" /\ b[1] # "release"
    BY <2>2, <2>3 DEF EndOf
  <2> QED
    BY <2>1, <2>11, <2>12
<1>4. ASSUME sort = "topic"
      PROVE  StartsWell(CloseBody(sort), sort) /\ EndOf(CloseBody(sort)) = "finish"
             /\ CloseBody(sort)[1] # "release"
  <2> DEFINE b == <<"lock", "dependents", "unlist", "finish">>
  <2>1. CloseBody(sort) = b
    BY <1>4 DEF CloseBody
  <2>2. b \in Seq(CloseStages) /\ Len(b) = 4 /\ b # << >>
    BY DEF CloseStages, Sorts, Containers
  <2>3. b[1] = "lock" /\ b[2] = "dependents" /\ b[3] = "unlist" /\ b[4] = "finish"
    OBVIOUS
  <2> HIDE DEF b
  <2>4. \A i \in 1 .. 4 : i = 1 \/ i = 2 \/ i = 3 \/ i = 4
    OBVIOUS
  <2>6. \A i \in 1 .. Len(b) : b[i] # "uncount"
    BY <2>2, <2>3, <2>4
  <2>7. CloseTodo(b)
    BY <2>2, <2>3, <2>4, <2>6 DEF CloseTodo, EndOf
  <2>8. \A i \in 1 .. Len(b) : b[i] = "finish" => i = 4
    BY <2>2, <2>3, <2>4
  <2>9. ~FinishesPast(b, "unlist")
    <3>1. 3 \in 1 .. 4 - 1
      OBVIOUS
    <3> QED
      BY <2>3, <2>8, <3>1 DEF FinishesPast
  <2>10. ~FinishesPast(b, "dependents")
    <3>1. 2 \in 1 .. 4 - 1
      OBVIOUS
    <3> QED
      BY <2>3, <2>8, <3>1 DEF FinishesPast
  <2>11. StartsWell(b, sort)
    BY <1>4, <2>2, <2>6, <2>7, <2>9, <2>10 DEF StartsWell
  <2>12. EndOf(b) = "finish" /\ b[1] # "release"
    BY <2>2, <2>3 DEF EndOf
  <2> QED
    BY <2>1, <2>11, <2>12
<1>5. ASSUME sort = "discovered"
      PROVE  StartsWell(CloseBody(sort), sort) /\ EndOf(CloseBody(sort)) = "finish"
             /\ CloseBody(sort)[1] # "release"
  <2> DEFINE b == <<"finish">>
  <2>1. CloseBody(sort) = b
    BY <1>5 DEF CloseBody
  <2>2. b \in Seq(CloseStages) /\ Len(b) = 1 /\ b # << >>
    BY DEF CloseStages, Sorts, Containers
  <2>3. b[1] = "finish"
    OBVIOUS
  <2> HIDE DEF b
  <2>4. \A i \in 1 .. 1 : i = 1
    OBVIOUS
  <2>6. \A i \in 1 .. Len(b) : b[i] # "uncount"
    BY <2>2, <2>3, <2>4
  <2>7. CloseTodo(b)
    BY <2>2, <2>3, <2>4, <2>6 DEF CloseTodo, EndOf
  <2>8. \A i \in 1 .. Len(b) : b[i] = "finish" => i = 1
    BY <2>2, <2>3, <2>4
  <2>9. sort = "discovered"
    BY <1>5
  <2>10. sort # "topic"
    BY <1>5
  <2>11. StartsWell(b, sort)
    BY <1>5, <2>2, <2>6, <2>7, <2>9, <2>10 DEF StartsWell
  <2>12. EndOf(b) = "finish" /\ b[1] # "release"
    BY <2>2, <2>3 DEF EndOf
  <2> QED
    BY <2>1, <2>11, <2>12
<1>6. ASSUME sort = "cft"
      PROVE  StartsWell(CloseBody(sort), sort) /\ EndOf(CloseBody(sort)) = "finish"
             /\ CloseBody(sort)[1] # "release"
  <2> DEFINE b == <<"lock", "uncount", "unlist", "finish">>
  <2>1. CloseBody(sort) = b
    BY <1>6 DEF CloseBody
  <2>2. b \in Seq(CloseStages) /\ Len(b) = 4 /\ b # << >>
    BY DEF CloseStages, Sorts, Containers
  <2>3. b[1] = "lock" /\ b[2] = "uncount" /\ b[3] = "unlist" /\ b[4] = "finish"
    OBVIOUS
  <2> HIDE DEF b
  <2>4. \A i \in 1 .. 4 : i = 1 \/ i = 2 \/ i = 3 \/ i = 4
    OBVIOUS
  <2>5. ClearFrom(b, 2 + 1)
    <3>1. 4 \in 2 + 1 .. Len(b) /\ \A j \in 2 + 1 .. 4 - 1 : j = 3
      BY <2>2
    <3> QED
      BY <2>3, <3>1 DEF ClearFrom
  <2>6. \A i \in 1 .. Len(b) : b[i] = "uncount" => i = 2
    BY <2>2, <2>3, <2>4
  <2>7. CloseTodo(b)
    BY <2>2, <2>3, <2>4, <2>5, <2>6 DEF CloseTodo, EndOf
  <2>8. \A i \in 1 .. Len(b) : b[i] = "finish" => i = 4
    BY <2>2, <2>3, <2>4
  <2>9. ~FinishesPast(b, "unlist")
    <3>1. 3 \in 1 .. 4 - 1
      OBVIOUS
    <3> QED
      BY <2>3, <2>8, <3>1 DEF FinishesPast
  <2>10. sort # "topic"
    BY <1>6
  <2>11. StartsWell(b, sort)
    BY <1>6, <2>2, <2>6, <2>7, <2>9, <2>10 DEF StartsWell
  <2>12. EndOf(b) = "finish" /\ b[1] # "release"
    BY <2>2, <2>3 DEF EndOf
  <2> QED
    BY <2>1, <2>11, <2>12
<1>7. ASSUME sort = "reader"
      PROVE  StartsWell(CloseBody(sort), sort) /\ EndOf(CloseBody(sort)) = "finish"
             /\ CloseBody(sort)[1] # "release"
  <2> DEFINE b == <<"lock", "unlist", "uncount", "finish">>
  <2>1. CloseBody(sort) = b
    BY <1>7 DEF CloseBody
  <2>2. b \in Seq(CloseStages) /\ Len(b) = 4 /\ b # << >>
    BY DEF CloseStages, Sorts, Containers
  <2>3. b[1] = "lock" /\ b[2] = "unlist" /\ b[3] = "uncount" /\ b[4] = "finish"
    OBVIOUS
  <2> HIDE DEF b
  <2>4. \A i \in 1 .. 4 : i = 1 \/ i = 2 \/ i = 3 \/ i = 4
    OBVIOUS
  <2>5. ClearFrom(b, 3 + 1)
    <3>1. 4 \in 3 + 1 .. Len(b) /\ \A j \in 3 + 1 .. 4 - 1 : FALSE
      BY <2>2
    <3> QED
      BY <2>3, <3>1 DEF ClearFrom
  <2>6. \A i \in 1 .. Len(b) : b[i] = "uncount" => i = 3
    BY <2>2, <2>3, <2>4
  <2>7. CloseTodo(b)
    BY <2>2, <2>3, <2>4, <2>5, <2>6 DEF CloseTodo, EndOf
  <2>8. \A i \in 1 .. Len(b) : b[i] = "finish" => i = 4
    BY <2>2, <2>3, <2>4
  <2>9. ~FinishesPast(b, "unlist")
    <3>1. 2 \in 1 .. 4 - 1
      OBVIOUS
    <3> QED
      BY <2>3, <2>8, <3>1 DEF FinishesPast
  <2>10. sort # "topic"
    BY <1>7
  <2>11. StartsWell(b, sort)
    BY <1>7, <2>2, <2>6, <2>7, <2>9, <2>10 DEF StartsWell
  <2>12. EndOf(b) = "finish" /\ b[1] # "release"
    BY <2>2, <2>3 DEF EndOf
  <2> QED
    BY <2>1, <2>11, <2>12
<1>8. ASSUME sort = "writer"
      PROVE  StartsWell(CloseBody(sort), sort) /\ EndOf(CloseBody(sort)) = "finish"
             /\ CloseBody(sort)[1] # "release"
  <2> DEFINE b == <<"lock", "uncount", "unlist", "finish">>
  <2>1. CloseBody(sort) = b
    BY <1>8 DEF CloseBody
  <2>2. b \in Seq(CloseStages) /\ Len(b) = 4 /\ b # << >>
    BY DEF CloseStages, Sorts, Containers
  <2>3. b[1] = "lock" /\ b[2] = "uncount" /\ b[3] = "unlist" /\ b[4] = "finish"
    OBVIOUS
  <2> HIDE DEF b
  <2>4. \A i \in 1 .. 4 : i = 1 \/ i = 2 \/ i = 3 \/ i = 4
    OBVIOUS
  <2>5. ClearFrom(b, 2 + 1)
    <3>1. 4 \in 2 + 1 .. Len(b) /\ \A j \in 2 + 1 .. 4 - 1 : j = 3
      BY <2>2
    <3> QED
      BY <2>3, <3>1 DEF ClearFrom
  <2>6. \A i \in 1 .. Len(b) : b[i] = "uncount" => i = 2
    BY <2>2, <2>3, <2>4
  <2>7. CloseTodo(b)
    BY <2>2, <2>3, <2>4, <2>5, <2>6 DEF CloseTodo, EndOf
  <2>8. \A i \in 1 .. Len(b) : b[i] = "finish" => i = 4
    BY <2>2, <2>3, <2>4
  <2>9. ~FinishesPast(b, "unlist")
    <3>1. 3 \in 1 .. 4 - 1
      OBVIOUS
    <3> QED
      BY <2>3, <2>8, <3>1 DEF FinishesPast
  <2>10. sort # "topic"
    BY <1>8
  <2>11. StartsWell(b, sort)
    BY <1>8, <2>2, <2>6, <2>7, <2>9, <2>10 DEF StartsWell
  <2>12. EndOf(b) = "finish" /\ b[1] # "release"
    BY <2>2, <2>3 DEF EndOf
  <2> QED
    BY <2>1, <2>11, <2>12
<1>9. StartsWell(CloseBody(sort), sort) /\ EndOf(CloseBody(sort)) = "finish"
      /\ CloseBody(sort)[1] # "release"
  BY <1>1, <1>2, <1>3, <1>4, <1>5, <1>6, <1>7, <1>8 DEF Sorts, Containers
<1>10. StartsWell(CloseBody(sort) \o <<"forget">>, sort) /\ EndOf(CloseBody(sort) \o <<"forget">>) = "forget"
  <2> DEFINE b == CloseBody(sort)
  <2>1. StartsWell(b, sort) /\ EndOf(b) = "finish"
    BY <1>9
  <2> HIDE DEF b
  <2>2. CloseTodo(b) /\ b # << >> /\ EndOf(b) = "finish"
    BY <2>1 DEF StartsWell
  <2> DEFINE r == b \o <<"forget">>
  <2>3. /\ CloseTodo(r) /\ r # << >> /\ EndOf(r) = "forget"
        /\ \A st \in {"unlist", "dependents"} : FinishesPast(r, st) => FinishesPast(b, st)
        /\ (\E i \in 1 .. Len(r) : r[i] = "uncount") => \E i \in 1 .. Len(b) : b[i] = "uncount"
    BY <2>2, ForgetPut
  <2> HIDE DEF r
  <2>5. /\ FinishesPast(r, "unlist") => FinishesPast(b, "unlist")
        /\ FinishesPast(r, "dependents") => FinishesPast(b, "dependents")
    BY <2>3
  <2>6. (\E i \in 1 .. Len(r) : r[i] = "uncount") => sort \in {"reader", "writer", "cft"}
    BY <2>1, <2>3 DEF StartsWell
  <2>7. /\ sort # "discovered" => ~FinishesPast(r, "unlist")
        /\ sort = "topic" => ~FinishesPast(r, "dependents")
    BY <2>1, <2>5 DEF StartsWell
  <2>4. StartsWell(r, sort) /\ EndOf(r) = "forget"
    BY <2>3, <2>6, <2>7 DEF StartsWell
  <2> QED
    BY <2>4 DEF b, r
<1>11. ASSUME NEW q \in {<<"forget">>, <<"release">>, <<"release", "forget">>}
      PROVE  StartsWell(q, sort)
  <2>1. q \in Seq(CloseStages) /\ q # << >> /\ Len(q) \in 1 .. 2
    <3>1. {"forget", "release"} \subseteq CloseStages
      BY DEF CloseStages
    <3>2. CASE q = <<"forget">>
      BY <3>1, <3>2
    <3>3. CASE q = <<"release">>
      BY <3>1, <3>3
    <3>4. CASE q = <<"release", "forget">>
      BY <3>1, <3>4
    <3> QED
      BY <3>2, <3>3, <3>4
  <2>2. \A i \in 1 .. Len(q) : q[i] \in {"release", "forget"} /\ (q[i] = "release" => i = 1)
    OBVIOUS
  <2>3. \A i \in 1 .. Len(q) : q[i] # "finish" /\ q[i] # "uncount"
    BY <2>2
  <2>4. EndOf(q) \in {"release", "forget"}
    BY <2>1, <2>2 DEF EndOf
  <2>5. \A i \in 2 .. Len(q) : i \in 1 .. Len(q) /\ i # 1
    BY <2>1
  <2>6. CloseTodo(q)
    BY <2>1, <2>2, <2>3, <2>4, <2>5 DEF CloseTodo
  <2> QED
    BY <2>1, <2>3, <2>6 DEF StartsWell, FinishesPast
<1>12. << >> \o <<"forget">> = <<"forget">>
  BY ConcatEmptySeq
<1>13. EndOf(<<"forget">>) = "forget" /\ EndOf(<<"release">>) = "release" /\ EndOf(<<"release", "forget">>) = "forget"
  BY DEF EndOf
<1> QED
  BY <1>9, <1>10, <1>11, <1>12, <1>13

LEMMA SeeksFacts ==
    /\ DOMAIN Seeks = {"find_topic", "find_cfTopic", "lookup_participant", "find_datareaders",
                       "find_datawriter"}
    /\ Seeks["find_topic"] = "topic" /\ Seeks["find_cfTopic"] = "cft"
    /\ Seeks["lookup_participant"] = "participant" /\ Seeks["find_datareaders"] = "reader"
    /\ Seeks["find_datawriter"] = "writer"
    /\ \A op \in DOMAIN Seeks :
          /\ op \in Lookups /\ op # "find_topic_description" /\ op # "contains" /\ op # "close"
          /\ Seeks[op] \in Sorts \ {"discovered"}
    /\ "contains" \in Lookups /\ "find_topic_description" \in Lookups /\ "close" \notin Lookups
    /\ \A op \in Lookups : op \in DOMAIN Seeks \/ op \in {"contains", "find_topic_description"}
BY DEF Seeks, Lookups, Sorts, Containers

(* Short lists.                                                            *)
LEMMA Tuples ==
    ASSUME NEW X, NEW a \in X, NEW b \in X, NEW c \in X
    PROVE  /\ <<a, b, c>> \in Seq(X) /\ <<a, b>> \in Seq(X) /\ <<a>> \in Seq(X)
           /\ <<a>> \o <<b, c>> = <<a, b, c>> /\ <<a>> \o <<b>> = <<a, b>>
           /\ Tail(<<a, b, c>>) = <<b, c>> /\ Tail(<<a, b>>) = <<b>>
<1>1. <<a, b, c>> \in Seq(X)
  OBVIOUS
<1>2. <<a, b>> \in Seq(X) /\ <<b, c>> \in Seq(X) /\ <<a>> \in Seq(X) /\ <<b>> \in Seq(X)
  OBVIOUS
<1>3. Tail(<<a, b, c>>) = <<b, c>> /\ Tail(<<a, b>>) = <<b>>
  OBVIOUS
<1>4. <<a, b, c>> # << >> /\ <<a, b>> # << >> /\ <<a, b, c>>[1] = a /\ <<a, b>>[1] = a
  OBVIOUS
<1>5. <<a>> \o <<b, c>> = <<a, b, c>>
  <2> DEFINE u == <<a, b, c>>
  <2>1. u = <<u[1]>> \o Tail(u)
    BY <1>1, <1>4, OffStack
  <2> QED
    BY <1>3, <1>4, <2>1
<1>6. <<a>> \o <<b>> = <<a, b>>
  <2> DEFINE u == <<a, b>>
  <2>1. u = <<u[1]>> \o Tail(u)
    BY <1>2, <1>4, OffStack
  <2> QED
    BY <1>3, <1>4, <2>1
<1> QED
  BY <1>1, <1>2, <1>3, <1>5, <1>6

SoughtSorts == {"topic", "cft", "participant", "reader", "writer"}

(* The stages of a search, one after another.                              *)
LEMMA PutBefore ==
    ASSUME NEW X
    PROVE  /\ \A a, b \in X : <<a>> \o <<b>> = <<a, b>>
           /\ \A a, b, c \in X : <<a>> \o <<b, c>> = <<a, b, c>>
<1>1. ASSUME NEW a \in X, NEW b \in X
      PROVE  <<a>> \o <<b>> = <<a, b>>
  <2> DEFINE u == <<a, b>>
  <2>1. u \in Seq(X) /\ u # << >> /\ u[1] = a /\ Tail(u) = <<b>>
    OBVIOUS
  <2>2. u = <<u[1]>> \o Tail(u)
    BY <2>1, OffStack
  <2> QED
    BY <2>1, <2>2
<1>2. ASSUME NEW a \in X, NEW b \in X, NEW c \in X
      PROVE  <<a>> \o <<b, c>> = <<a, b, c>>
  <2> DEFINE u == <<a, b, c>>
  <2>1. u \in Seq(X) /\ u # << >> /\ u[1] = a /\ Tail(u) = <<b, c>>
    OBVIOUS
  <2>2. u = <<u[1]>> \o Tail(u)
    BY <2>1, OffStack
  <2> QED
    BY <2>1, <2>2
<1> QED
  BY <1>1, <1>2

LEMMA Put ==
    /\ <<"each">> \o <<"return">> = <<"each", "return">>
    /\ <<"test">> \o <<"each", "return">> = <<"test", "each", "return">>
    /\ <<"name">> \o <<"each", "return">> = <<"name", "each", "return">>
    /\ <<"release">> \o <<"each", "return">> = <<"release", "each", "return">>
<1> DEFINE X == {"each", "return", "test", "name", "release"}
           e == "each"
           u == "return"
           t == "test"
           n == "name"
           l == "release"
<1>1. e \in X /\ u \in X /\ t \in X /\ n \in X /\ l \in X
  OBVIOUS
<1> HIDE DEF X, e, u, t, n, l
<1>2. <<e>> \o <<u>> = <<e, u>>
  BY <1>1, PutBefore
<1>3. <<t>> \o <<e, u>> = <<t, e, u>> /\ <<n>> \o <<e, u>> = <<n, e, u>>
  BY <1>1, PutBefore
<1>4. <<l>> \o <<e, u>> = <<l, e, u>>
  BY <1>1, PutBefore
<1> QED
  BY <1>2, <1>3, <1>4 DEF e, u, t, n, l

LEMMA FindStages ==
    ASSUME NEW sort \in SoughtSorts, NEW q \in FindTodos(sort)
    PROVE  /\ q \in Seq(StageNames) /\ q # << >> /\ EndOf(q) # "forget"
           /\ q[1] \in {"lock", sort, "each", "test", "name", "release", "return", "unwind"}
           /\ q[1] = "lock" => q = <<"lock", sort, "return">> /\ Tail(q) = <<sort, "return">>
           /\ q[1] = sort => q = <<sort, "return">> /\ <<"each">> \o Tail(q) = <<"each", "return">>
           /\ q[1] = "each" => /\ q = <<"each", "return">> /\ Tail(q) = <<"return">>
                               /\ <<"test">> \o q = <<"test", "each", "return">>
           /\ q[1] = "test" => /\ q = <<"test", "each", "return">>
                               /\ <<"name">> \o Tail(q) = <<"name", "each", "return">>
                               /\ <<"release">> \o Tail(q) = <<"release", "each", "return">>
           /\ q[1] = "name" => /\ q = <<"name", "each", "return">>
                               /\ <<"release">> \o Tail(q) = <<"release", "each", "return">>
           /\ q[1] = "release" => \/ q = <<"release", "each", "return">> /\ Tail(q) = <<"each", "return">>
                                  \/ q = <<"release", "unwind">> /\ Tail(q) = <<"unwind">>
           /\ q[1] = "return" => q = <<"return">>
           /\ q[1] = "unwind" => q = <<"unwind">>
           /\ q \in Leaving2 <=> EndOf(q) = "unwind"
           /\ Len(q) = 1 <=> q[1] \in {"return", "unwind"}
<1> DEFINE N == {"lock", "first", "second", "each", "test", "name", "release", "return", "unwind"}
<1>0. /\ N \subseteq StageNames /\ sort \in StageNames /\ sort \notin N
      /\ sort \notin {"forget"}
  BY DEF SoughtSorts, StageNames, Sorts, Containers
<1>a. {"lock", "first", "second", "each", "test", "name", "release", "return", "unwind"} \subseteq StageNames
  BY <1>0
<1>b. /\ <<"lock", sort, "return">> \in Seq(StageNames) /\ <<sort, "return">> \in Seq(StageNames)
      /\ <<"each", "return">> \in Seq(StageNames) /\ <<"return">> \in Seq(StageNames)
      /\ <<"test", "each", "return">> \in Seq(StageNames)
      /\ <<"name", "each", "return">> \in Seq(StageNames)
      /\ <<"release", "each", "return">> \in Seq(StageNames)
      /\ <<"release", "unwind">> \in Seq(StageNames) /\ <<"unwind">> \in Seq(StageNames)
  BY <1>0, Tuples
<1>c. /\ <<"each">> \o <<"return">> = <<"each", "return">>
      /\ <<"test">> \o <<"each", "return">> = <<"test", "each", "return">>
      /\ <<"name">> \o <<"each", "return">> = <<"name", "each", "return">>
      /\ <<"release">> \o <<"each", "return">> = <<"release", "each", "return">>
  BY Put
<1> HIDE DEF N
<1> USE DEF EndOf, Leaving2
<1>1. CASE q = <<"lock", sort, "return">>
  BY <1>0, <1>b, <1>c, <1>1 DEF N
<1>2. CASE q = <<sort, "return">>
  BY <1>0, <1>b, <1>c, <1>2 DEF N
<1>3. CASE q = <<"each", "return">>
  BY <1>0, <1>b, <1>c, <1>3 DEF N
<1>4. CASE q = <<"test", "each", "return">>
  BY <1>0, <1>b, <1>c, <1>4 DEF N
<1>5. CASE q = <<"name", "each", "return">>
  BY <1>0, <1>b, <1>c, <1>5 DEF N
<1>6. CASE q = <<"release", "each", "return">>
  BY <1>0, <1>b, <1>c, <1>6 DEF N
<1>7. CASE q = <<"return">>
  BY <1>0, <1>b, <1>c, <1>7 DEF N
<1>8. CASE q = <<"release", "unwind">>
  BY <1>0, <1>b, <1>c, <1>8 DEF N
<1>9. CASE q = <<"unwind">>
  BY <1>0, <1>b, <1>c, <1>9 DEF N
<1> QED
  BY <1>1, <1>2, <1>3, <1>4, <1>5, <1>6, <1>7, <1>8, <1>9 DEF FindTodos

LEMMA LeavingStages ==
    ASSUME NEW q \in Leaving2
    PROVE  /\ q \in Seq(StageNames) /\ q # << >> /\ EndOf(q) = "unwind"
           /\ q[1] \in {"release", "unwind"}
           /\ q[1] = "release" => q = <<"release", "unwind">> /\ Tail(q) = <<"unwind">>
           /\ q[1] = "unwind" => q = <<"unwind">> /\ Len(q) = 1
<1>1. {"release", "unwind"} \subseteq StageNames
  BY DEF StageNames
<1>2. <<"release", "unwind">> \in Seq(StageNames) /\ <<"unwind">> \in Seq(StageNames)
  BY <1>1, Tuples
<1>3. CASE q = <<"release", "unwind">>
  BY <1>2, <1>3 DEF EndOf
<1>4. CASE q = <<"unwind">>
  BY <1>2, <1>4 DEF EndOf
<1> QED
  BY <1>3, <1>4 DEF Leaving2

LEMMA TwiceStages ==
    ASSUME NEW q \in TwiceTodos
    PROVE  /\ q \in Seq(StageNames) /\ q # << >> /\ EndOf(q) # "forget"
           /\ q[1] \in {"first", "second", "release", "return", "unwind"}
           /\ q[1] = "first" => q = <<"first", "return">>
           /\ q[1] = "second" => q = <<"second", "return">> /\ Tail(q) = <<"return">>
           /\ q[1] = "release" => q = <<"release", "unwind">> /\ Tail(q) = <<"unwind">>
           /\ q[1] = "return" => q = <<"return">>
           /\ q[1] = "unwind" => q = <<"unwind">>
           /\ q \in Leaving2 <=> EndOf(q) = "unwind"
           /\ Len(q) = 1 <=> q[1] \in {"return", "unwind"}
<1>1. {"first", "second", "release", "return", "unwind"} \subseteq StageNames
  BY DEF StageNames
<1>2. /\ <<"first", "return">> \in Seq(StageNames) /\ <<"second", "return">> \in Seq(StageNames)
      /\ <<"return">> \in Seq(StageNames) /\ <<"release", "unwind">> \in Seq(StageNames)
      /\ <<"unwind">> \in Seq(StageNames)
  BY <1>1, Tuples
<1> USE DEF EndOf, Leaving2
<1>3. CASE q = <<"first", "return">>
  BY <1>2, <1>3
<1>4. CASE q = <<"second", "return">>
  BY <1>2, <1>4
<1>5. CASE q = <<"return">>
  BY <1>2, <1>5
<1>6. CASE q = <<"release", "unwind">>
  BY <1>2, <1>6
<1>7. CASE q = <<"unwind">>
  BY <1>2, <1>7
<1> QED
  BY <1>3, <1>4, <1>5, <1>6, <1>7 DEF TwiceTodos

(* contains_entity goes on, looks into a set, looks at an entity.          *)
LEMMA ContainsTail ==
    ASSUME NEW q, ContainsTodo(q), q # << >>, q[1] \notin {"return", "unwind"}
    PROVE  LET r == Tail(q)
           IN  /\ ContainsTodo(r) /\ r # << >> /\ EndOf(r) = EndOf(q)
               /\ r \in Leaving2 <=> q \in Leaving2
               /\ q \notin Leaving2 => r \in Seq(ContainsStages) /\ r[1] \notin {"test", "release", "lock"}
               /\ q \notin Leaving2 => \A i \in 1 .. Len(r) : r[i] \notin {"test", "release", "lock"}
               /\ r[1] # "lock"
               /\ Len(q) > 1 /\ r[1] = q[2]
<1>1. CASE q \in Leaving2
  <2>1. q = <<"release", "unwind">>
    <3>1. CASE q = <<"unwind">>
      BY <3>1
    <3> QED
      BY <1>1, <3>1 DEF Leaving2
  <2>2. Tail(q) = <<"unwind">> /\ EndOf(q) = "unwind" /\ Len(q) = 2 /\ q[2] = "unwind"
    BY <2>1 DEF EndOf
  <2>3. <<"unwind">> \in Leaving2 /\ EndOf(<<"unwind">>) = "unwind" /\ <<"unwind">> # << >>
        /\ <<"unwind">>[1] = "unwind"
    BY DEF Leaving2, EndOf
  <2> DEFINE r == Tail(q)
             w == <<"unwind">>
  <2>4. r = w /\ w \in Leaving2 /\ EndOf(w) = "unwind" /\ w # << >> /\ w[1] = "unwind"
    BY <2>2, <2>3
  <2> HIDE DEF w, r
  <2>5. ContainsTodo(r)
    BY <2>4 DEF ContainsTodo
  <2>6. /\ ContainsTodo(r) /\ r # << >> /\ EndOf(r) = EndOf(q)
        /\ r \in Leaving2 <=> q \in Leaving2
        /\ Len(q) > 1 /\ r[1] = q[2] /\ r[1] # "lock"
    BY <1>1, <2>2, <2>4, <2>5
  <2> QED
    BY <1>1, <2>6 DEF r
<1>2. CASE q \notin Leaving2
  <2> DEFINE r == Tail(q)
  <2>1. /\ q \in Seq(ContainsStages) /\ \A i \in 1 .. Len(q) : q[i] = "return" <=> i = Len(q)
        /\ \A i \in 2 .. Len(q) : q[i] \notin {"test", "release", "lock"}
    BY <1>2 DEF ContainsTodo
  <2>3. /\ r \in Seq(ContainsStages) /\ Len(q) \in Nat \ {0} /\ Len(r) = Len(q) - 1
        /\ \A i \in 1 .. Len(r) : r[i] = q[i + 1]
    BY <2>1, OffStack
  <2> HIDE DEF r
  <2>4. Len(q) # 1
    BY <2>1, <2>3
  <2>5. r # << >> /\ Len(r) \in 1 .. Len(r) /\ Len(r) + 1 = Len(q) /\ 1 \in 1 .. Len(r)
    BY <2>3, <2>4, EmptySeq
  <2>6. EndOf(r) = EndOf(q) /\ r[1] = q[2]
    BY <2>3, <2>5 DEF EndOf
  <2>7. ASSUME NEW i \in 1 .. Len(r)
        PROVE  r[i] \notin {"test", "release", "lock"} /\ (r[i] = "return" <=> i = Len(r))
    <3>1. i + 1 \in 2 .. Len(q) /\ i + 1 \in 1 .. Len(q) /\ (i + 1 = Len(q) <=> i = Len(r))
      BY <2>3
    <3> QED
      BY <2>1, <2>3, <3>1
  <2>8. EndOf(r) = "return"
    BY <2>5, <2>7 DEF EndOf
  <2>9. r \notin Leaving2
    <3> SUFFICES ASSUME r \in Leaving2 PROVE FALSE
      OBVIOUS
    <3> QED
      BY <2>8 DEF Leaving2, EndOf
  <2>10. ContainsTodo(r)
    <3>1. \A i \in 2 .. Len(r) : i \in 1 .. Len(r)
      BY <2>3
    <3> QED
      BY <2>3, <2>7, <3>1 DEF ContainsTodo
  <2>11. Len(q) > 1
    BY <2>3, <2>4
  <2> QED
    BY <1>2, <2>3, <2>5, <2>6, <2>7, <2>9, <2>10, <2>11 DEF r
<1> QED
  BY <1>1, <1>2

LEMMA ContainsPut ==
    ASSUME NEW q \in Seq(ContainsStages), ContainsTodo(q), q # << >>, q \notin Leaving2,
           \A i \in 1 .. Len(q) : q[i] \notin {"test", "release", "lock"},
           NEW x \in {"each", "leave", "test", "release"}
    PROVE  LET r == <<x>> \o q
           IN  /\ ContainsTodo(r) /\ r # << >> /\ EndOf(r) = EndOf(q) /\ r[1] = x /\ r[2] = q[1]
               /\ r \notin Leaving2 /\ r \in Seq(ContainsStages) /\ EndOf(r) = "return"
<1> DEFINE r == <<x>> \o q
<1>1. x \in ContainsStages /\ Len(q) \in Nat \ {0}
  BY EmptySeq, LenProperties DEF ContainsStages
<1>2. /\ r \in Seq(ContainsStages) /\ r # << >> /\ Len(r) = Len(q) + 1 /\ r[1] = x
      /\ \A i \in 2 .. Len(r) : r[i] = q[i - 1]
      /\ \A i \in 1 .. Len(q) : r[i + 1] = q[i]
  BY <1>1, OntoStack
<1> HIDE DEF r
<1>3. 1 \in 1 .. Len(q) /\ Len(q) \in 1 .. Len(q) /\ 1 + 1 = 2
  BY <1>1
<1>4. EndOf(r) = EndOf(q) /\ r[2] = q[1]
  BY <1>2, <1>3 DEF EndOf
<1>5. EndOf(q) = "return"
  BY <1>3 DEF ContainsTodo, EndOf
<1>6. ASSUME NEW i \in 1 .. Len(r)
      PROVE  /\ r[i] = "return" <=> i = Len(r)
             /\ i # 1 => r[i] \notin {"test", "release", "lock"}
  <2>1. CASE i = 1
    BY <1>1, <1>2, <2>1
  <2>2. CASE i # 1
    <3>1. i \in 2 .. Len(r) /\ i - 1 \in 1 .. Len(q) /\ (i - 1 = Len(q) <=> i = Len(r))
      BY <1>1, <1>2, <2>2
    <3> QED
      BY <1>2, <3>1 DEF ContainsTodo
  <2> QED
    BY <2>1, <2>2
<1>7. r \notin Leaving2
  <2>1. EndOf(<<"release", "unwind">>) = "unwind" /\ EndOf(<<"unwind">>) = "unwind"
    BY DEF EndOf
  <2> QED
    BY <1>4, <1>5, <2>1 DEF Leaving2
<1>8. ContainsTodo(r)
  <2>1. \A i \in 2 .. Len(r) : i \in 1 .. Len(r) /\ i # 1
    BY <1>2
  <2>2. /\ \A i \in 1 .. Len(r) : r[i] = "return" <=> i = Len(r)
        /\ \A i \in 2 .. Len(r) : r[i] \notin {"test", "release", "lock"}
    BY <1>6, <2>1
  <2> QED
    BY <1>2, <2>2 DEF ContainsTodo
<1>9. EndOf(r) = "return"
  BY <1>4, <1>5
<1> QED
  BY <1>2, <1>4, <1>7, <1>8, <1>9 DEF r

(* What lookups begin with.                                                *)
LEMMA LookupLiterals ==
    /\ \A op \in DOMAIN Seeks :
          /\ LookupBody(op) \in {<<"lock", Seeks[op], "return">>, <<Seeks[op], "return">>}
          /\ LookupBody(op)[1] = "lock" => HasLock(op)
    /\ LookupBody("find_topic_description") = <<"first", "return">>
    /\ \A q \in {LookupBody("contains"), <<"return">>, <<"writer", "return">>, <<"reader", "return">>} :
          /\ ContainsTodo(q) /\ q # << >> /\ q \in Seq(StageNames) /\ q \notin Leaving2
          /\ \A i \in 1 .. Len(q) : q[i] \notin {"test", "release"}
          /\ q # LookupBody("contains") => q[1] # "lock"
          /\ q[1] \notin {"test", "release"} /\ EndOf(q) = "return" /\ q \in Seq(ContainsStages)
<1>1. ASSUME NEW op \in DOMAIN Seeks
      PROVE  /\ LookupBody(op) \in {<<"lock", Seeks[op], "return">>, <<Seeks[op], "return">>}
             /\ LookupBody(op)[1] = "lock" => HasLock(op)
  <2> DEFINE sort == Seeks[op]
             u == <<sort, "return">>
  <2>1. LookupBody(op) = (IF HasLock(op) THEN <<"lock">> ELSE << >>) \o u
    BY SeeksFacts DEF LookupBody
  <2>2. sort \in Sorts
    BY SeeksFacts
  <2>3. sort \in StageNames /\ "return" \in StageNames /\ "lock" \in StageNames /\ sort # "lock"
    BY <2>2 DEF StageNames, Sorts, Containers
  <2> HIDE DEF sort
  <2>4. <<"lock">> \o u = <<"lock", sort, "return">>
    <3> DEFINE e == "lock"
               w == "return"
    <3>1. e \in StageNames /\ w \in StageNames /\ sort \in StageNames
      BY <2>3
    <3> HIDE DEF e, w
    <3>2. <<e>> \o <<sort, w>> = <<e, sort, w>>
      BY <3>1, PutBefore
    <3> QED
      BY <3>2 DEF e, w
  <2>5. u \in Seq(StageNames) /\ u[1] = sort
    BY <2>3
  <2> HIDE DEF u
  <2>6. << >> \o u = u
    BY <2>5, ConcatEmptySeq
  <2>7. CASE HasLock(op)
    BY <2>1, <2>4, <2>7 DEF sort
  <2>8. CASE ~HasLock(op)
    <3>1. LookupBody(op) = u
      BY <2>1, <2>6, <2>8
    <3>2. u[1] # "lock"
      BY <2>3, <2>5
    <3> QED
      BY <3>1, <3>2 DEF u, sort
  <2> QED
    BY <2>7, <2>8
<1>2. LookupBody("find_topic_description") = <<"first", "return">>
  BY DEF LookupBody
<1>3. ASSUME NEW q, q \in Seq(ContainsStages), q \in Seq(StageNames), Len(q) \in Nat \ {0},
             \A i \in 1 .. Len(q) : q[i] = "return" <=> i = Len(q),
             \A i \in 1 .. Len(q) : q[i] \notin {"test", "release"},
             \A i \in 2 .. Len(q) : q[i] # "lock"
      PROVE  /\ ContainsTodo(q) /\ q # << >> /\ q \in Seq(StageNames) /\ q \notin Leaving2
             /\ \A i \in 1 .. Len(q) : q[i] \notin {"test", "release"}
             /\ q[1] \notin {"test", "release"} /\ EndOf(q) = "return" /\ q \in Seq(ContainsStages)
  <2>1. 1 \in 1 .. Len(q) /\ Len(q) \in 1 .. Len(q) /\ \A i \in 2 .. Len(q) : i \in 1 .. Len(q)
    BY <1>3
  <2>2. q # << >>
    BY <1>3, EmptySeq
  <2>3. ContainsTodo(q)
    BY <1>3, <2>1 DEF ContainsTodo
  <2>4. EndOf(q) = "return"
    BY <1>3, <2>1 DEF EndOf
  <2>5. EndOf(<<"release", "unwind">>) = "unwind" /\ EndOf(<<"unwind">>) = "unwind"
    BY DEF EndOf
  <2>6. q \notin Leaving2
    BY <2>4, <2>5 DEF Leaving2
  <2> QED
    BY <1>3, <2>1, <2>2, <2>3, <2>4, <2>6
<1>4. LookupBody("contains") = <<"lock", "publisher", "subscriber", "topic", "return">>
  BY DEF LookupBody
<1>a. /\ {"lock", "publisher", "subscriber", "topic", "return", "writer", "reader"} \subseteq ContainsStages
      /\ {"lock", "publisher", "subscriber", "topic", "return", "writer", "reader"} \subseteq StageNames
  BY DEF ContainsStages, StageNames, Sorts, Containers
<1>5. ASSUME NEW q, q = <<"lock", "publisher", "subscriber", "topic", "return">>
      PROVE  /\ q \in Seq(ContainsStages) /\ q \in Seq(StageNames) /\ Len(q) \in Nat \ {0}
             /\ \A i \in 1 .. Len(q) : q[i] = "return" <=> i = Len(q)
             /\ \A i \in 1 .. Len(q) : q[i] \notin {"test", "release"}
             /\ \A i \in 2 .. Len(q) : q[i] # "lock"
  <2>1. /\ Len(q) = 5 /\ q[1] = "lock" /\ q[2] = "publisher" /\ q[3] = "subscriber"
        /\ q[4] = "topic" /\ q[5] = "return"
    BY <1>5
  <2>2. q \in Seq(ContainsStages) /\ q \in Seq(StageNames)
    BY <1>a, <1>5
  <2>3. 1 .. 5 = {1, 2, 3, 4, 5}
    OBVIOUS
  <2>4. /\ \A i \in {1, 2, 3, 4, 5} : q[i] = "return" <=> i = 5
        /\ \A i \in {1, 2, 3, 4, 5} : q[i] \notin {"test", "release"}
        /\ \A i \in {1, 2, 3, 4, 5} : i = 1 \/ q[i] # "lock"
    BY <2>1
  <2> QED
    BY <2>1, <2>2, <2>3, <2>4
<1>6. ASSUME NEW x \in {"writer", "reader"}, NEW q, q = <<x, "return">>
      PROVE  /\ q \in Seq(ContainsStages) /\ q \in Seq(StageNames) /\ Len(q) \in Nat \ {0}
             /\ \A i \in 1 .. Len(q) : q[i] = "return" <=> i = Len(q)
             /\ \A i \in 1 .. Len(q) : q[i] \notin {"test", "release"}
             /\ \A i \in 2 .. Len(q) : q[i] # "lock"
  <2>1. /\ Len(q) = 2 /\ q[1] = x /\ q[2] = "return"
    BY <1>6
  <2>2. q \in Seq(ContainsStages) /\ q \in Seq(StageNames)
    BY <1>a, <1>6
  <2>3. 1 .. 2 = {1, 2}
    OBVIOUS
  <2>4. /\ \A i \in {1, 2} : q[i] = "return" <=> i = 2
        /\ \A i \in {1, 2} : q[i] \notin {"test", "release"}
        /\ \A i \in {1, 2} : i = 1 \/ q[i] # "lock"
    BY <1>6, <2>1
  <2> QED
    BY <2>1, <2>2, <2>3, <2>4
<1>7. ASSUME NEW q, q = <<"return">>
      PROVE  /\ q \in Seq(ContainsStages) /\ q \in Seq(StageNames) /\ Len(q) \in Nat \ {0}
             /\ \A i \in 1 .. Len(q) : q[i] = "return" <=> i = Len(q)
             /\ \A i \in 1 .. Len(q) : q[i] \notin {"test", "release"}
             /\ \A i \in 2 .. Len(q) : q[i] # "lock"
  <2>1. /\ Len(q) = 1 /\ q[1] = "return"
    BY <1>7
  <2>2. q \in Seq(ContainsStages) /\ q \in Seq(StageNames)
    BY <1>a, <1>7
  <2> QED
    BY <2>1, <2>2
<1>8. ASSUME NEW q \in {LookupBody("contains"), <<"return">>, <<"writer", "return">>, <<"reader", "return">>}
      PROVE  /\ ContainsTodo(q) /\ q # << >> /\ q \in Seq(StageNames) /\ q \notin Leaving2
             /\ q # LookupBody("contains") => q[1] # "lock"
             /\ \A i \in 1 .. Len(q) : q[i] \notin {"test", "release"}
             /\ q[1] \notin {"test", "release"} /\ EndOf(q) = "return" /\ q \in Seq(ContainsStages)
  <2>1. \/ q = <<"lock", "publisher", "subscriber", "topic", "return">> \/ q = <<"return">>
        \/ q = <<"writer", "return">> \/ q = <<"reader", "return">>
    BY <1>4, <1>8
  <2>2. /\ q \in Seq(ContainsStages) /\ q \in Seq(StageNames) /\ Len(q) \in Nat \ {0}
        /\ \A i \in 1 .. Len(q) : q[i] = "return" <=> i = Len(q)
        /\ \A i \in 1 .. Len(q) : q[i] \notin {"test", "release"}
        /\ \A i \in 2 .. Len(q) : q[i] # "lock"
    <3>1. CASE q = <<"lock", "publisher", "subscriber", "topic", "return">>
      BY <1>5, <3>1
    <3>2. CASE q = <<"return">>
      BY <1>7, <3>2
    <3>3. CASE q = <<"writer", "return">>
      BY <1>6, <3>3
    <3>4. CASE q = <<"reader", "return">>
      BY <1>6, <3>4
    <3> QED
      BY <2>1, <3>1, <3>2, <3>3, <3>4
  <2>3. q # LookupBody("contains") => q[1] # "lock"
    BY <1>4, <2>1
  <2> QED
    BY <1>3, <2>2, <2>3
<1> QED
  BY <1>1, <1>2, <1>8

-----------------------------------------------------------------------------
(* A function that goes on: its next frame.                                *)
SameCall(f, g) ==
    /\ DOMAIN g = DOMAIN f /\ g = [x \in DOMAIN g |-> g[x]]
    /\ g.op = f.op /\ g.self = f.self /\ g.for = f.for

Continues(f, g) ==
    /\ g \in CallFrames /\ FrameShape(g)
    /\ g.op = f.op /\ g.self = f.self /\ g.for = f.for
    /\ Plain(g) <=> Plain(f)
    /\ g.op = "contains" => g.todo[1] # "lock"

LEMMA WiderSeq ==
    ASSUME NEW X, NEW Y, X \subseteq Y, NEW q \in Seq(X)
    PROVE  q \in Seq(Y)
<1>1. Len(q) \in Nat /\ q = [i \in 1 .. Len(q) |-> q[i]] /\ \A i \in 1 .. Len(q) : q[i] \in X
  BY LenProperties, ElementOfSeq
<1>2. \A i \in 1 .. Len(q) : q[i] \in Y
  BY <1>1
<1>3. [i \in 1 .. Len(q) |-> q[i]] \in Seq(Y)
  BY <1>1, <1>2, IsASeq
<1> QED
  BY <1>1, <1>3

LEMMA StageSets ==
    /\ CloseStages \subseteq StageNames /\ ContainsStages \subseteq StageNames
    /\ \A q : CloseTodo(q) => q \in Seq(StageNames)
    /\ \A q \in Seq(ContainsStages) : q \in Seq(StageNames)
    /\ Sorts \subseteq StageNames
<1>1. CloseStages \subseteq StageNames /\ ContainsStages \subseteq StageNames /\ Sorts \subseteq StageNames
  BY DEF CloseStages, ContainsStages, StageNames
<1>2. ASSUME NEW q, CloseTodo(q)
      PROVE  q \in Seq(StageNames)
  BY <1>1, <1>2, WiderSeq DEF CloseTodo
<1>3. ASSUME NEW q \in Seq(ContainsStages)
      PROVE  q \in Seq(StageNames)
  BY <1>1, <1>3, WiderSeq
<1> QED
  BY <1>1, <1>2, <1>3

LEMMA FrameType ==
    ASSUME NEW f \in CallFrames, NEW g, SameCall(f, g), g.todo \in Seq(StageNames),
           g.rest \in SUBSET Objects, g.ref \in Objects \cup {None}, g.key \in Sets \cup {None},
           g.found \in SUBSET Objects, g.loose \in SUBSET Objects
    PROVE  g \in CallFrames
BY DEF CallFrames, SameCall

LEMMA CloseContinues ==
    ASSUME NEW f \in CallFrames, FrameShape(f), f.op = "close", NEW g, SameCall(f, g),
           CloseTodo(g.todo), g.todo # << >>,
           EndOf(g.todo) = "forget" <=> EndOf(f.todo) = "forget",
           (\E i \in 1 .. Len(g.todo) : g.todo[i] = "uncount") =>
               \E i \in 1 .. Len(f.todo) : f.todo[i] = "uncount",
           g.ref = None, g.found = {}, g.key = None,
           g.rest \in SUBSET Objects, \A o \in g.rest : Holder[o] = f.self,
           g.loose \in SUBSET Objects,
           g.loose # {} => g.todo[1] = "release" /\ ~Destructor(f)
    PROVE  Continues(f, g)
<1>1. g.op = "close" /\ g.self = f.self /\ g.for = f.for
  BY DEF SameCall
<1>2. CloseShape(f)
  BY DEF FrameShape
<1>3. "close" \notin DOMAIN Seeks
  BY SeeksFacts
<1>4. g \in CallFrames
  BY StageSets, FrameType
<1>5. Destructor(g) <=> Destructor(f)
  BY <1>1 DEF Destructor, EndOf
<1>6. CloseShape(g)
  BY <1>1, <1>2, <1>5 DEF CloseShape
<1>7. FrameShape(g)
  BY <1>1, <1>3, <1>6 DEF FrameShape
<1> QED
  BY <1>1, <1>4, <1>5, <1>7 DEF Continues, Plain

LEMMA LookupContinues ==
    ASSUME NEW f \in CallFrames, f.op # "close", NEW g, SameCall(f, g),
           g.todo \in Seq(StageNames), g.todo # << >>,
           g.rest \in SUBSET Objects, \A o \in g.rest : Holder[o] = f.self,
           g.ref \in Objects \cup {None}, g.key \in Sets \cup {None},
           g.found \in SUBSET Objects, g.loose \in SUBSET Objects,
           g.loose # {} => g.todo[1] = "release",
           f.op \in DOMAIN Seeks => FindShape(g),
           f.op = "find_topic_description" => TwiceShape(g),
           f.op = "contains" => ContainsShape(g) /\ g.todo[1] # "lock"
    PROVE  Continues(f, g)
<1>1. g.op = f.op /\ g.self = f.self /\ g.for = f.for
  BY DEF SameCall
<1>2. g \in CallFrames
  BY FrameType
<1>3. FrameShape(g)
  BY <1>1 DEF FrameShape
<1> QED
  BY <1>1, <1>2, <1>3 DEF Continues, Plain

LEMMA Ops ==
    ASSUME NEW f \in CallFrames, FrameShape(f)
    PROVE  /\ f.op = "close" \/ f.op \in DOMAIN Seeks \/ f.op = "find_topic_description"
              \/ f.op = "contains"
           /\ f.op = "close" => CloseShape(f) /\ f.op \notin DOMAIN Seeks
           /\ f.op \in DOMAIN Seeks => FindShape(f) /\ Seeks[f.op] \in SoughtSorts
           /\ f.op = "find_topic_description" => TwiceShape(f) /\ f.op \notin DOMAIN Seeks
           /\ f.op = "contains" => ContainsShape(f) /\ f.op \notin DOMAIN Seeks
           /\ f.todo \in Seq(StageNames) /\ f.todo # << >> /\ f.rest \in SUBSET Objects
           /\ f.found \in SUBSET Objects /\ f.loose \in SUBSET Objects
           /\ f.ref \in Objects \cup {None} /\ f.key \in Sets \cup {None}
           /\ f.self \in Objects \cup {None} /\ f.for \in Subjects
           /\ f.op \in Lookups \cup {"close"}
           /\ Len(f.todo) \in Nat \ {0}
           /\ f.loose # {} => f.todo[1] = "release"
           /\ \A o \in f.rest : Holder[o] = f.self
<1>1. /\ f.op \in Lookups \cup {"close"} /\ f.todo \in Seq(StageNames) /\ f.rest \in SUBSET Objects
      /\ f.found \in SUBSET Objects /\ f.loose \in SUBSET Objects
      /\ f.ref \in Objects \cup {None} /\ f.key \in Sets \cup {None}
      /\ f.self \in Objects \cup {None} /\ f.for \in Subjects
  BY DEF CallFrames
<1>2. /\ f.todo # << >> /\ (f.loose # {} => f.todo[1] = "release")
      /\ \A o \in f.rest : Holder[o] = f.self
      /\ f.op = "close" => CloseShape(f)
      /\ f.op \in DOMAIN Seeks => FindShape(f)
      /\ f.op = "find_topic_description" => TwiceShape(f)
      /\ f.op = "contains" => ContainsShape(f)
  BY DEF FrameShape
<1>3. Len(f.todo) \in Nat \ {0}
  BY <1>1, <1>2, OffStack
<1>4. /\ f.op = "close" \/ f.op \in DOMAIN Seeks \/ f.op = "find_topic_description"
           \/ f.op = "contains"
      /\ f.op \in {"close", "find_topic_description", "contains"} => f.op \notin DOMAIN Seeks
  BY <1>1, SeeksFacts
<1>5. f.op \in DOMAIN Seeks => Seeks[f.op] \in SoughtSorts
  BY SeeksFacts DEF SoughtSorts
<1> QED
  BY <1>1, <1>2, <1>3, <1>4, <1>5

(* The lists of a search, and how they begin.                              *)
LEMMA FindForms ==
    ASSUME NEW sort \in SoughtSorts
    PROVE  /\ sort \notin {"lock", "first", "second", "each", "test", "name", "release", "return", "unwind",
                           "leave", "dependents", "unlist", "uncount", "finish", "forget", "discovered"}
           /\ sort \in Sorts
           /\ LET w == <<"lock", sort, "return">> IN w \in FindTodos(sort) /\ w[1] = "lock" /\ w \notin Leaving2
           /\ LET w == <<sort, "return">> IN w \in FindTodos(sort) /\ w[1] = sort /\ w \notin Leaving2
           /\ LET w == <<"each", "return">> IN w \in FindTodos(sort) /\ w[1] = "each" /\ w \notin Leaving2
           /\ LET w == <<"return">> IN w \in FindTodos(sort) /\ w[1] = "return" /\ w \notin Leaving2
           /\ LET w == <<"unwind">> IN w \in FindTodos(sort) /\ w[1] = "unwind" /\ w \in Leaving2
           /\ LET w == <<"test", "each", "return">>
              IN w \in FindTodos(sort) /\ w[1] = "test" /\ w[2] = "each" /\ w \notin Leaving2
           /\ LET w == <<"name", "each", "return">>
              IN w \in FindTodos(sort) /\ w[1] = "name" /\ w[2] = "each" /\ w \notin Leaving2
           /\ LET w == <<"release", "each", "return">>
              IN w \in FindTodos(sort) /\ w[1] = "release" /\ w[2] = "each" /\ w \notin Leaving2
           /\ LET w == <<"release", "unwind">>
              IN w \in FindTodos(sort) /\ w[1] = "release" /\ w[2] = "unwind" /\ w \in Leaving2
<1>1. /\ sort \notin {"lock", "first", "second", "each", "test", "name", "release", "return", "unwind",
                      "leave", "dependents", "unlist", "uncount", "finish", "forget", "discovered"}
      /\ sort \in Sorts
  BY DEF SoughtSorts, Sorts, Containers
<1>2. LET w == <<"lock", sort, "return">> IN w \in FindTodos(sort) /\ w[1] = "lock" /\ w \notin Leaving2
  BY DEF FindTodos, Leaving2
<1>3. LET w == <<sort, "return">> IN w \in FindTodos(sort) /\ w[1] = sort /\ w \notin Leaving2
  BY <1>1 DEF FindTodos, Leaving2
<1>4. LET w == <<"each", "return">> IN w \in FindTodos(sort) /\ w[1] = "each" /\ w \notin Leaving2
  BY DEF FindTodos, Leaving2
<1>5. LET w == <<"return">> IN w \in FindTodos(sort) /\ w[1] = "return" /\ w \notin Leaving2
  BY DEF FindTodos, Leaving2
<1>6. LET w == <<"unwind">> IN w \in FindTodos(sort) /\ w[1] = "unwind" /\ w \in Leaving2
  BY DEF FindTodos, Leaving2
<1>7. LET w == <<"test", "each", "return">>
      IN w \in FindTodos(sort) /\ w[1] = "test" /\ w[2] = "each" /\ w \notin Leaving2
  BY DEF FindTodos, Leaving2
<1>8. LET w == <<"name", "each", "return">>
      IN w \in FindTodos(sort) /\ w[1] = "name" /\ w[2] = "each" /\ w \notin Leaving2
  BY DEF FindTodos, Leaving2
<1>9. LET w == <<"release", "each", "return">>
      IN w \in FindTodos(sort) /\ w[1] = "release" /\ w[2] = "each" /\ w \notin Leaving2
  BY DEF FindTodos, Leaving2
<1>10. LET w == <<"release", "unwind">>
       IN w \in FindTodos(sort) /\ w[1] = "release" /\ w[2] = "unwind" /\ w \in Leaving2
  BY DEF FindTodos, Leaving2
<1> QED
  BY <1>1, <1>2, <1>3, <1>4, <1>5, <1>6, <1>7, <1>8, <1>9, <1>10

(* The next stage of close().                                              *)
LEMMA CloseGoesOn ==
    ASSUME NEW f \in CallFrames, FrameShape(f), f.op = "close", f.loose = {},
           f.todo[1] \notin {"finish", "release", "forget"} \/ Len(f.todo) > 1,
           NEW R, R \subseteq f.rest, NEW g, g = [Done(f) EXCEPT !.rest = R]
    PROVE  /\ Continues(f, g) /\ Len(f.todo) > 1 /\ g.todo = Tail(f.todo)
           /\ g.rest = R /\ g.loose = {}
<1> DEFINE q == f.todo
           r == Tail(q)
<1>1. CloseShape(f) /\ q # << >> /\ CloseTodo(q) /\ Len(q) \in Nat \ {0}
      /\ f.rest \in SUBSET Objects /\ \A o \in f.rest : Holder[o] = f.self
  BY Ops DEF CloseShape
<1>2. Len(q) > 1
  <2>1. CASE Len(q) = 1
    <3>1. q[1] \in {"finish", "release", "forget"}
      BY <1>1, <2>1 DEF CloseTodo, EndOf
    <3> QED
      BY <2>1, <3>1
  <2>2. \A n \in Nat \ {0} : n # 1 => n > 1
    OBVIOUS
  <2> QED
    BY <1>1, <2>1, <2>2
<1>3. /\ SameCall(f, g) /\ g.todo = r /\ g.rest = R /\ g.ref = f.ref /\ g.key = f.key
      /\ g.found = f.found /\ g.loose = f.loose
  BY DEF CallFrames, Done, SameCall
<1>4. /\ CloseTodo(r) /\ r # << >> /\ EndOf(r) = EndOf(q)
      /\ (\E i \in 1 .. Len(r) : r[i] = "uncount") => \E i \in 1 .. Len(q) : q[i] = "uncount"
  BY <1>1, <1>2, CloseTail
<1> HIDE DEF q, r
<1>5. f.ref = None /\ f.found = {} /\ f.key = None
  BY <1>1 DEF CloseShape
<1>6. Continues(f, g)
  BY <1>1, <1>3, <1>4, <1>5, CloseContinues DEF q
<1> QED
  BY <1>2, <1>3, <1>6 DEF q, r

CopiedFrame(f, R) == [f EXCEPT !.todo = <<"each">> \o Tail(@), !.rest = R]

(* close() looks at a set, and at a child of it.                           *)
LEMMA CloseCopies ==
    ASSUME NEW f \in CallFrames, FrameShape(f), f.op = "close", f.todo[1] \in Sorts,
           NEW R \in SUBSET Objects, \A o \in R : Holder[o] = f.self,
           NEW g, g = CopiedFrame(f, R)
    PROVE  /\ Continues(f, g) /\ g.todo = <<"each">> \o Tail(f.todo) /\ Len(f.todo) > 1
           /\ g.rest = R /\ g.loose = {}
<1> DEFINE q == f.todo
           r == Tail(q)
           w == <<"each">> \o r
<1>1. CloseShape(f) /\ q # << >> /\ CloseTodo(q) /\ Len(q) \in Nat \ {0}
      /\ (f.loose # {} => q[1] = "release")
  BY Ops DEF CloseShape
<1>2. q[1] \notin {"finish", "release", "forget"}
  BY DEF Sorts, Containers
<1>3. Len(q) > 1
  <2>1. ASSUME Len(q) = 1
        PROVE  FALSE
    BY <1>1, <1>2, <2>1 DEF CloseTodo, EndOf
  <2>2. \A n \in Nat \ {0} : n # 1 => n > 1
    OBVIOUS
  <2> QED
    BY <1>1, <2>1, <2>2
<1>4. /\ CloseTodo(r) /\ r # << >> /\ EndOf(r) = EndOf(q)
      /\ (\E i \in 1 .. Len(r) : r[i] = "uncount") => \E i \in 1 .. Len(q) : q[i] = "uncount"
  BY <1>1, <1>3, CloseTail
<1>5. \A i \in 1 .. Len(r) : r[i] # "release"
  <2>1. q \in Seq(CloseStages) /\ \A i \in 2 .. Len(q) : q[i] # "release"
    BY <1>1 DEF CloseTodo
  <2>2. Len(r) = Len(q) - 1 /\ \A i \in 1 .. Len(r) : r[i] = q[i + 1]
    BY <1>1, <2>1, OffStack
  <2> HIDE DEF q, r
  <2>3. \A i \in 1 .. Len(r) : i + 1 \in 2 .. Len(q)
    BY <1>1, <2>2
  <2> QED
    BY <2>1, <2>2, <2>3
<1> HIDE DEF r
<1>6. /\ CloseTodo(w) /\ w # << >> /\ EndOf(w) = EndOf(r)
      /\ (\E i \in 1 .. Len(w) : w[i] = "uncount") => \E i \in 1 .. Len(r) : r[i] = "uncount"
  BY <1>4, <1>5, ClosePut
<1>7. /\ SameCall(f, g) /\ g.todo = w /\ g.rest = R /\ g.ref = f.ref /\ g.key = f.key
      /\ g.found = f.found /\ g.loose = f.loose
  BY DEF CallFrames, SameCall, CopiedFrame, w, r, q
<1> HIDE DEF w, q
<1>8. f.ref = None /\ f.found = {} /\ f.key = None /\ f.loose = {}
  BY <1>1, <1>2 DEF CloseShape, q
<1>9. Continues(f, g)
  BY <1>4, <1>6, <1>7, <1>8, CloseContinues DEF q
<1> QED
  BY <1>3, <1>7, <1>8, <1>9 DEF q, r, w

LEMMA CloseVisits ==
    ASSUME NEW f \in CallFrames, FrameShape(f), f.op = "close", f.todo[1] = "each", ~Destructor(f),
           NEW o \in f.rest,
           NEW g, g = [[f EXCEPT !.rest = @ \ {o}] EXCEPT !.todo = <<"release">> \o @, !.loose = {o}]
    PROVE  /\ Continues(f, g) /\ g.todo = <<"release">> \o f.todo /\ g.loose = {o}
           /\ g.todo[1] = "release" /\ Plain(f)
<1> DEFINE q == f.todo
           w == <<"release">> \o q
<1>1. CloseShape(f) /\ q # << >> /\ CloseTodo(q) /\ Len(q) \in Nat \ {0}
      /\ f.rest \in SUBSET Objects /\ \A x \in f.rest : Holder[x] = f.self
  BY Ops DEF CloseShape
<1>2. \A i \in 1 .. Len(q) : q[i] # "release"
  <2>1. \A i \in 1 .. Len(q) : i = 1 \/ i \in 2 .. Len(q)
    BY <1>1
  <2> QED
    BY <1>1, <2>1 DEF CloseTodo
<1>3. /\ CloseTodo(w) /\ w # << >> /\ EndOf(w) = EndOf(q) /\ w[1] = "release"
      /\ (\E i \in 1 .. Len(w) : w[i] = "uncount") => \E i \in 1 .. Len(q) : q[i] = "uncount"
  BY <1>1, <1>2, ClosePut
<1>4. /\ SameCall(f, g) /\ g.todo = w /\ g.rest = f.rest \ {o} /\ g.ref = f.ref /\ g.key = f.key
      /\ g.found = f.found /\ g.loose = {o}
  BY DEF CallFrames, SameCall
<1> HIDE DEF w, q
<1>5. f.ref = None /\ f.found = {} /\ f.key = None
  BY <1>1 DEF CloseShape
<1>6. g.rest \in SUBSET Objects /\ g.loose \in SUBSET Objects /\ \A x \in g.rest : Holder[x] = f.self
  BY <1>1, <1>4
<1>7. Continues(f, g)
  BY <1>3, <1>4, <1>5, <1>6, CloseContinues DEF q
<1> QED
  BY <1>3, <1>4, <1>7 DEF q, w, Plain

(* References go out of scope, or the set gets smaller.                    *)
LEMMA Lessens ==
    ASSUME NEW f \in CallFrames, FrameShape(f), NEW R, R \subseteq f.rest, NEW L, L \subseteq f.loose,
           NEW g, g = [f EXCEPT !.rest = R] \/ g = [f EXCEPT !.loose = L],
           f.op # "close" => f.todo[1] \in {"each", "release"}
    PROVE  /\ Continues(f, g) /\ g.todo = f.todo
<1>1. /\ SameCall(f, g) /\ g.todo = f.todo /\ g.rest \subseteq f.rest /\ g.ref = f.ref /\ g.key = f.key
      /\ g.found = f.found /\ g.loose \subseteq f.loose
  BY DEF CallFrames, SameCall
<1>2. /\ g.rest \in SUBSET Objects /\ g.loose \in SUBSET Objects /\ \A x \in g.rest : Holder[x] = f.self
      /\ (g.loose # {} => g.todo[1] = "release") /\ f.todo # << >>
      /\ (g.rest # {} => f.rest # {}) /\ (f.loose = {} => g.loose = {})
      /\ f.todo \in Seq(StageNames)
  BY <1>1, Ops
<1>3. CASE f.op = "close"
  <2>1. CloseShape(f) /\ (Destructor(f) => g.loose = {})
    BY <1>2, <1>3, Ops DEF CloseShape
  <2> QED
    BY <1>1, <1>2, <1>3, <2>1, CloseContinues DEF CloseShape
<1>4. CASE f.op # "close"
  <2>1. f.op \in DOMAIN Seeks => FindShape(g)
    <3>1. SUFFICES ASSUME f.op \in DOMAIN Seeks PROVE FindShape(g)
      OBVIOUS
    <3>2. FindShape(f)
      BY <3>1, Ops
    <3>3. g.op = f.op /\ g.self = f.self
      BY <1>1 DEF SameCall
    <3> QED
      BY <1>1, <1>2, <3>2, <3>3 DEF FindShape
  <2>2. f.op = "find_topic_description" => TwiceShape(g)
    <3>1. SUFFICES ASSUME f.op = "find_topic_description" PROVE TwiceShape(g)
      OBVIOUS
    <3>2. TwiceShape(f)
      BY <3>1, Ops
    <3>3. g.op = f.op /\ g.self = f.self
      BY <1>1 DEF SameCall
    <3> QED
      BY <1>1, <1>2, <3>2, <3>3 DEF TwiceShape
  <2>3. f.op = "contains" => ContainsShape(g)
    <3>1. SUFFICES ASSUME f.op = "contains" PROVE ContainsShape(g)
      OBVIOUS
    <3>2. ContainsShape(f)
      BY <3>1, Ops
    <3>3. g.op = f.op /\ g.self = f.self
      BY <1>1 DEF SameCall
    <3> QED
      BY <1>1, <1>2, <3>2, <3>3 DEF ContainsShape
  <2>4. g.ref \in Objects \cup {None} /\ g.key \in Sets \cup {None} /\ g.found \in SUBSET Objects
    BY <1>1, Ops
  <2>5. g.todo[1] # "lock"
    BY <1>1, <1>4
  <2> QED
    BY <1>1, <1>2, <1>4, <2>1, <2>2, <2>3, <2>4, <2>5, LookupContinues
<1> QED
  BY <1>1, <1>3, <1>4

(* A lookup leaves a stage; what is left of the set is forgotten with the  *)
(* last entity of it.                                                      *)
LEMMA LookupGoesOn ==
    ASSUME NEW f \in CallFrames, FrameShape(f), f.op # "close", f.loose = {}, NEW g,
           \/ f.todo[1] \in {"lock", "release"} /\ Len(f.todo) > 1 /\ g = Done(f)
           \/ f.todo[1] = "each" /\ g = [Done(f) EXCEPT !.rest = {}]
    PROVE  /\ Continues(f, g) /\ g.todo = Tail(f.todo) /\ Len(f.todo) > 1
           /\ g.rest = (IF f.todo[1] = "each" THEN {} ELSE f.rest) /\ g.ref = f.ref
           /\ g.found = f.found /\ g.key = f.key /\ g.loose = {}
           /\ f.ref = None
<1> DEFINE q == f.todo
           r == Tail(q)
<1>1. /\ SameCall(f, g) /\ g.todo = r /\ g.ref = f.ref /\ g.key = f.key
      /\ g.rest = (IF q[1] = "each" THEN {} ELSE f.rest)
      /\ g.found = f.found /\ g.loose = {}
  BY DEF CallFrames, SameCall, Done
<1>2. /\ f.ref \in Objects \cup {None} /\ f.key \in Sets \cup {None} /\ f.found \in SUBSET Objects
      /\ f.rest \in SUBSET Objects /\ \A x \in f.rest : Holder[x] = f.self
      /\ q # << >> /\ q \in Seq(StageNames) /\ Len(q) \in Nat \ {0}
  BY Ops
<1>a. g.op = f.op /\ g.self = f.self
  BY <1>1 DEF SameCall
<1>b. q[1] \in {"lock", "release", "each"}
  OBVIOUS
<1>3. CASE f.op \in DOMAIN Seeks
  <2> DEFINE sort == Seeks[f.op]
  <2>1. FindShape(f) /\ sort \in SoughtSorts /\ q \in FindTodos(sort)
    BY <1>3, Ops DEF FindShape
  <2>2. FindShape(f) => /\ f.key = None /\ (f.ref # None <=> f.todo[1] \in {"test", "name"})
                        /\ (f.todo[1] \in {"lock", sort} => f.found = {})
                        /\ (f.rest # {} => f.todo \in Leaving2 \/ f.todo[1] = "each" \/ f.todo[2] = "each")
    BY DEF FindShape
  <2> HIDE DEF sort, q
  <2>3. f.ref = None
    BY <1>b, <2>1, <2>2 DEF q
  <2>4. /\ r \in FindTodos(sort) /\ r # << >>
        /\ \/ q[1] = "lock" /\ r[1] = sort /\ q[2] = sort /\ q \notin Leaving2
           \/ q[1] = "each" /\ r[1] = "return"
           \/ q[1] = "release" /\ (r[1] = "each" \/ (r \in Leaving2 /\ r[1] = "unwind"))
        /\ Len(q) > 1
    <3>1. CASE q[1] = "lock"
      <4>1. q = <<"lock", sort, "return">> /\ r = <<sort, "return">>
        BY <2>1, <3>1, FindStages
      <4>2. Len(q) = 3 /\ q[2] = sort
        BY <4>1
      <4>3. q \notin Leaving2 /\ r \in FindTodos(sort) /\ r[1] = sort
        BY <2>1, <4>1, FindForms
      <4>4. r # << >>
        BY <4>1
      <4> QED
        BY <3>1, <4>2, <4>3, <4>4
    <3>2. CASE q[1] = "each"
      <4>1. q = <<"each", "return">> /\ r = <<"return">>
        BY <2>1, <3>2, FindStages
      <4>2. Len(q) = 2 /\ r # << >>
        BY <4>1
      <4> HIDE DEF r
      <4>3. r \in FindTodos(sort) /\ r[1] = "return"
        BY <2>1, <4>1, FindForms
      <4> QED
        BY <3>2, <4>2, <4>3
    <3>3. CASE q[1] = "release"
      <4>1. \/ q = <<"release", "each", "return">> /\ r = <<"each", "return">>
            \/ q = <<"release", "unwind">> /\ r = <<"unwind">>
        BY <2>1, <3>3, FindStages
      <4>2. CASE q = <<"release", "each", "return">> /\ r = <<"each", "return">>
        <5>1. Len(q) > 1 /\ r # << >>
          BY <4>2
        <5> HIDE DEF r
        <5>2. r \in FindTodos(sort) /\ r[1] = "each"
          BY <2>1, <4>2, FindForms
        <5> QED
          BY <3>3, <5>1, <5>2
      <4>3. CASE q = <<"release", "unwind">> /\ r = <<"unwind">>
        <5>1. Len(q) > 1 /\ r # << >>
          BY <4>3
        <5> HIDE DEF r
        <5>2. r \in FindTodos(sort) /\ r[1] = "unwind" /\ r \in Leaving2
          BY <2>1, <4>3, FindForms
        <5> QED
          BY <3>3, <5>1, <5>2
      <4> QED
        BY <4>1, <4>2, <4>3
    <3> QED
      BY <1>b, <3>1, <3>2, <3>3 DEF q
  <2>5. sort \notin {"lock", "each", "test", "name", "release", "return", "unwind"}
    BY <2>1, FindForms
  <2> HIDE DEF r
  <2>6. g.rest # {} => g.todo \in Leaving2 \/ g.todo[1] = "each"
    <3>1. CASE q[1] = "lock"
      <4>1. q[2] # "each" /\ q[1] # "each" /\ q \notin Leaving2
        BY <2>4, <2>5, <3>1
      <4>2. f.rest = {}
        BY <2>1, <2>2, <4>1 DEF q
      <4> QED
        BY <1>1, <4>2 DEF q
    <3>2. CASE q[1] # "lock"
      BY <1>1, <2>4, <3>2 DEF q
    <3> QED
      BY <3>1, <3>2
  <2>7. g.todo[1] \notin {"lock", "test", "name"} /\ (g.todo[1] = sort => g.found = {})
    BY <1>1, <2>1, <2>2, <2>4, <2>5 DEF q
  <2>8. FindShape(g)
    BY <1>1, <1>a, <2>1, <2>2, <2>3, <2>4, <2>6, <2>7 DEF FindShape, sort
  <2>9. f.op # "find_topic_description" /\ f.op # "contains"
    BY <1>3, SeeksFacts
  <2>10. r \in Seq(StageNames)
    BY <2>1, <2>4, FindStages
  <2>11. Continues(f, g)
    BY <1>1, <1>2, <2>3, <2>4, <2>8, <2>9, <2>10, LookupContinues
  <2> QED
    BY <1>1, <2>3, <2>4, <2>11 DEF q, r
<1>4. CASE f.op = "find_topic_description"
  <2>1. TwiceShape(f) /\ f.op \notin DOMAIN Seeks
    BY <1>4, Ops
  <2>2. q \in TwiceTodos /\ f.self \in Objects /\ f.rest = {} /\ f.ref = None /\ f.loose = {}
        /\ f.key = None /\ (q[1] \in {"first", "release", "unwind"} => f.found = {})
    BY <2>1 DEF TwiceShape
  <2>3. q[1] = "release" /\ r = <<"unwind">> /\ q = <<"release", "unwind">>
    BY <1>b, <2>2, TwiceStages
  <2>4. r \in TwiceTodos /\ r[1] = "unwind" /\ r # << >> /\ Len(q) > 1
    BY <2>3 DEF TwiceTodos, Leaving2
  <2> HIDE DEF q, r
  <2>5. r \in Seq(StageNames)
    BY <2>4, TwiceStages
  <2>6. TwiceShape(g)
    BY <1>1, <1>a, <2>2, <2>3, <2>4 DEF TwiceShape, q
  <2>7. g.rest = {}
    BY <1>1, <2>2
  <2>8. Continues(f, g)
    BY <1>1, <1>2, <1>4, <2>1, <2>2, <2>4, <2>5, <2>6, <2>7, LookupContinues
  <2> QED
    BY <1>1, <2>2, <2>4, <2>8 DEF q, r
<1>5. CASE f.op = "contains"
  <2>1. ContainsShape(f) /\ f.op \notin DOMAIN Seeks
    BY <1>5, Ops
  <2>2. /\ f.self \in Objects /\ ContainsTodo(q) /\ (f.ref # None <=> q[1] = "test")
        /\ f.rest # {} => \/ q \in Leaving2 \/ q[1] = "each"
                          \/ q[1] \in {"test", "release"} /\ q[2] = "each"
    BY <2>1 DEF ContainsShape
  <2>3. f.ref = None
    BY <1>b, <2>2
  <2>4. /\ ContainsTodo(r) /\ r # << >> /\ (r \in Leaving2 <=> q \in Leaving2)
        /\ q \notin Leaving2 => r \in Seq(ContainsStages) /\ r[1] \notin {"test", "release", "lock"}
        /\ Len(q) > 1 /\ r[1] = q[2] /\ r[1] # "lock"
    BY <1>2, <1>b, <2>2, ContainsTail
  <2>5. r \in Seq(StageNames)
    BY <1>2, OffStack
  <2>6. r \in Leaving2 => r[1] # "test"
    BY LeavingStages
  <2> HIDE DEF q, r
  <2>7. r[1] # "test"
    BY <2>4, <2>6
  <2>8. g.rest # {} => r \in Leaving2 \/ r[1] = "each"
    <3>1. CASE q[1] = "each"
      BY <1>1, <3>1 DEF q
    <3>2. CASE q[1] # "each"
      <4>1. g.rest = f.rest
        BY <1>1, <3>2 DEF q
      <4> QED
        BY <1>b, <2>2, <2>4, <3>2, <4>1 DEF q
    <3> QED
      BY <3>1, <3>2
  <2>9. ContainsShape(g)
    BY <1>1, <1>a, <2>2, <2>3, <2>4, <2>7, <2>8 DEF ContainsShape
  <2>10. g.rest \in SUBSET Objects /\ (\A x \in g.rest : Holder[x] = f.self) /\ g.todo[1] # "lock"
    BY <1>1, <1>2, <2>4
  <2>11. Continues(f, g)
    BY <1>1, <1>2, <1>5, <2>1, <2>3, <2>4, <2>5, <2>9, <2>10, LookupContinues
  <2> QED
    BY <1>1, <2>3, <2>4, <2>11 DEF q, r
<1> QED
  BY <1>3, <1>4, <1>5, Ops

LEMMA NotClose ==
    ASSUME NEW f \in CallFrames, FrameShape(f), f.op = "close"
    PROVE  f.todo[1] \in CloseStages
<1>1. f.todo \in Seq(CloseStages) /\ Len(f.todo) \in Nat \ {0}
  BY Ops DEF CloseShape, CloseTodo
<1>2. 1 \in 1 .. Len(f.todo)
  BY <1>1
<1> QED
  BY <1>1, <1>2, ElementOfSeq

LEMMA NotContains ==
    ASSUME NEW f \in CallFrames, FrameShape(f), f.op = "contains"
    PROVE  /\ f.todo[1] \in ContainsStages \cup {"unwind"}
           /\ f.todo \in Leaving2 <=> EndOf(f.todo) = "unwind"
           /\ EndOf(f.todo) \in {"return", "unwind"}
           /\ f.todo[1] \notin {"release", "unwind"} => f.todo \notin Leaving2
<1> DEFINE q == f.todo
<1>1. ContainsTodo(q) /\ Len(q) \in Nat \ {0}
  BY Ops DEF ContainsShape
<1>2. 1 \in 1 .. Len(q) /\ Len(q) \in 1 .. Len(q)
  BY <1>1
<1> HIDE DEF q
<1>3. CASE q \in Leaving2
  <2>1. q[1] \in {"release", "unwind"} /\ EndOf(q) = "unwind"
    BY <1>3, LeavingStages
  <2>2. {"release", "unwind"} \subseteq ContainsStages \cup {"unwind"}
    BY DEF ContainsStages
  <2> QED
    BY <1>3, <2>1, <2>2 DEF q
<1>4. CASE q \notin Leaving2
  <2>1. q \in Seq(ContainsStages) /\ EndOf(q) = "return"
    BY <1>1, <1>2, <1>4 DEF ContainsTodo, EndOf
  <2>2. q[1] \in ContainsStages
    BY <1>2, <2>1, ElementOfSeq
  <2> QED
    BY <1>4, <2>1, <2>2 DEF q
<1> QED
  BY <1>3, <1>4

(* A search gets a copy of its set.                                        *)
LEMMA LookupCopies ==
    ASSUME NEW f \in CallFrames, FrameShape(f), f.op # "close", f.op # "contains",
           f.todo[1] \in Sorts, NEW R \in SUBSET Objects, \A o \in R : Holder[o] = f.self,
           NEW g, g = [f EXCEPT !.todo = <<"each">> \o Tail(@), !.rest = R]
    PROVE  /\ Continues(f, g) /\ f.op \in DOMAIN Seeks /\ f.todo[1] = Seeks[f.op]
           /\ f.todo = <<Seeks[f.op], "return">>
           /\ f.found = {} /\ f.ref = None /\ f.loose = {} /\ g.todo = <<"each", "return">>
<1> DEFINE q == f.todo
           sort == Seeks[f.op]
           w == <<"each", "return">>
<1>1. q[1] \notin {"lock", "first", "second", "each", "test", "name", "release", "return", "unwind"}
  BY DEF Sorts, Containers
<1>2. f.op \in DOMAIN Seeks
  <2>1. f.op = "find_topic_description" => FALSE
    <3>1. f.op = "find_topic_description" => q \in TwiceTodos
      BY Ops DEF TwiceShape
    <3> QED
      BY <1>1, <3>1, TwiceStages
  <2> QED
    BY <2>1, Ops
<1>3. FindShape(f) /\ sort \in SoughtSorts /\ q \in FindTodos(sort)
  BY <1>2, Ops DEF FindShape
<1>4. FindShape(f) => /\ f.key = None /\ (f.ref # None <=> q[1] \in {"test", "name"})
                      /\ (q[1] \in {"lock", sort} => f.found = {})
  BY DEF FindShape
<1>5. f.loose # {} => q[1] = "release"
  BY Ops
<1>a. g = [f EXCEPT !.todo = <<"each">> \o Tail(q), !.rest = R]
  OBVIOUS
<1> HIDE DEF q, sort
<1>6. q[1] = sort
  BY <1>1, <1>3, FindStages
<1>7. q = <<sort, "return">> /\ <<"each">> \o Tail(q) = w
  BY <1>3, <1>6, FindStages
<1>8. w \in FindTodos(sort) /\ w[1] = "each" /\ w # << >>
  BY <1>3, FindForms
<1> HIDE DEF w
<1>9. /\ SameCall(f, g) /\ g.todo = w /\ g.rest = R /\ g.ref = f.ref /\ g.key = f.key
      /\ g.found = f.found /\ g.loose = f.loose
  BY <1>7, <1>a DEF CallFrames, SameCall
<1>10. g.op = f.op
  BY <1>9 DEF SameCall
<1>11. f.ref = None /\ f.loose = {} /\ f.found = {} /\ f.key = None
  BY <1>1, <1>3, <1>4, <1>5, <1>6
<1>12. sort \notin {"lock", "each", "test", "name"}
  BY <1>3, FindForms
<1>13. FindShape(g)
  BY <1>8, <1>9, <1>10, <1>11, <1>12 DEF FindShape, sort
<1>14. w \in Seq(StageNames)
  BY <1>3, <1>8, FindStages
<1>15. f.op # "find_topic_description"
  BY <1>2, SeeksFacts
<1>16. Continues(f, g)
  BY <1>8, <1>9, <1>11, <1>13, <1>14, <1>15, LookupContinues
<1> QED
  BY <1>2, <1>6, <1>7, <1>9, <1>11, <1>16 DEF q, sort, w

(* A lookup has made a weak reference strong.                              *)
LEMMA LookupVisits ==
    ASSUME NEW f \in CallFrames, FrameShape(f), f.op # "close", f.todo[1] = "each", NEW o \in f.rest,
           f.op = "contains" => f.found = {},
           NEW g, g = [[f EXCEPT !.rest = @ \ {o}] EXCEPT !.todo = <<"test">> \o @, !.ref = o]
    PROVE  /\ Continues(f, g) /\ f.ref = None /\ f.loose = {} /\ o \in Objects /\ o # None
           /\ g.todo[1] = "test" /\ EndOf(g.todo) = EndOf(f.todo) /\ g.todo \notin Leaving2
           /\ f.op # "find_topic_description"
<1> DEFINE q == f.todo
           w == <<"test">> \o q
<1>1. /\ f.rest \in SUBSET Objects /\ \A x \in f.rest : Holder[x] = f.self
      /\ f.key \in Sets \cup {None} /\ f.found \in SUBSET Objects
      /\ q # << >> /\ q \in Seq(StageNames)
      /\ (f.loose # {} => q[1] = "release")
  BY Ops
<1>2. f.loose = {} /\ o \in Objects /\ o # None
  BY <1>1, LookupAssumption
<1>3. /\ SameCall(f, g) /\ g.todo = w /\ g.rest = f.rest \ {o} /\ g.ref = o /\ g.key = f.key
      /\ g.found = f.found /\ g.loose = f.loose
  BY DEF CallFrames, SameCall
<1>4. g.op = f.op /\ g.self = f.self
  BY <1>3 DEF SameCall
<1>5. g.rest \in SUBSET Objects /\ \A x \in g.rest : Holder[x] = f.self
  BY <1>1, <1>3
<1>6. CASE f.op \in DOMAIN Seeks
  <2> DEFINE sort == Seeks[f.op]
  <2>1. FindShape(f) /\ sort \in SoughtSorts /\ q \in FindTodos(sort)
    BY <1>6, Ops DEF FindShape
  <2>2. FindShape(f) => f.key = None /\ (f.ref # None <=> q[1] \in {"test", "name"})
    BY DEF FindShape
  <2>3. f.ref = None /\ f.key = None
    BY <2>1, <2>2
  <2>a. q[1] = "each"
    OBVIOUS
  <2> HIDE DEF sort, q, w
  <2>4. q = <<"each", "return">> /\ w = <<"test", "each", "return">>
    BY <2>1, <2>a, FindStages DEF w
  <2>5. w \in FindTodos(sort) /\ w[1] = "test" /\ w[2] = "each" /\ w \notin Leaving2
    BY <2>1, <2>4, FindForms
  <2>6. w \in Seq(StageNames) /\ w # << >>
    BY <2>1, <2>5, FindStages
  <2>7. sort # "test"
    BY <2>1, FindForms
  <2>8. FindShape(g)
    BY <1>2, <1>3, <1>4, <2>3, <2>5, <2>7 DEF FindShape, sort
  <2>9. f.op # "find_topic_description" /\ f.op # "contains"
    BY <1>6, SeeksFacts
  <2>10. Continues(f, g)
    BY <1>1, <1>2, <1>3, <1>5, <2>3, <2>6, <2>8, <2>9, LookupContinues
  <2>11. EndOf(w) = "return" /\ EndOf(q) = "return"
    BY <2>4 DEF EndOf
  <2> QED
    BY <1>2, <1>3, <2>3, <2>5, <2>9, <2>10, <2>11 DEF q
<1>7. CASE f.op = "contains"
  <2>1. ContainsShape(f) /\ f.op \notin DOMAIN Seeks /\ f.op # "find_topic_description"
    BY <1>7, Ops
  <2>2. /\ f.self \in Objects /\ ContainsTodo(q) /\ (f.ref # None <=> q[1] = "test")
    BY <2>1 DEF ContainsShape
  <2>3. f.ref = None /\ q \notin Leaving2
    BY <1>7, <2>2, NotContains
  <2>4. q \in Seq(ContainsStages) /\ \A i \in 2 .. Len(q) : q[i] \notin {"test", "release", "lock"}
    BY <2>2, <2>3 DEF ContainsTodo
  <2>5. \A i \in 1 .. Len(q) : q[i] \notin {"test", "release", "lock"}
    <3>1. \A i \in 1 .. Len(q) : i = 1 \/ i \in 2 .. Len(q)
      BY <2>4, LenProperties
    <3> QED
      BY <2>4, <3>1
  <2>6. /\ ContainsTodo(w) /\ w # << >> /\ EndOf(w) = EndOf(q) /\ w[1] = "test" /\ w[2] = q[1]
        /\ w \notin Leaving2 /\ w \in Seq(ContainsStages)
    BY <1>1, <2>2, <2>3, <2>4, <2>5, ContainsPut
  <2>7. w \in Seq(StageNames)
    BY <2>6, StageSets
  <2>8. w[2] = "each"
    BY <2>6
  <2> HIDE DEF w
  <2>b. g.found = {} /\ g.ref # None /\ g.todo = w /\ g.self = f.self
    BY <1>2, <1>3, <1>4, <1>7
  <2>9. ContainsShape(g)
    BY <2>2, <2>6, <2>8, <2>b DEF ContainsShape
  <2>11. g.todo[1] # "lock"
    BY <1>3, <2>6
  <2>10. Continues(f, g)
    BY <1>1, <1>2, <1>3, <1>5, <2>1, <2>6, <2>7, <2>9, <2>11, LookupContinues
  <2> QED
    BY <1>2, <1>3, <2>1, <2>3, <2>6, <2>10
<1>8. CASE f.op = "find_topic_description"
  <2>1. q \in TwiceTodos
    BY <1>8, Ops DEF TwiceShape
  <2> QED
    BY <2>1, TwiceStages
<1> QED
  BY <1>6, <1>7, <1>8, Ops

(* A search looks at the name of what it has a reference to.               *)
LEMMA LookupLooks ==
    ASSUME NEW f \in CallFrames, FrameShape(f), f.op # "contains", f.todo[1] \in {"test", "name"}
    PROVE  /\ f.op \in DOMAIN Seeks /\ f.ref \in Objects /\ f.ref # None /\ f.loose = {}
           /\ Seeks[f.op] \in SoughtSorts /\ f.key = None
           /\ \/ f.todo = <<"test", "each", "return">> /\ f.todo[1] = "test"
              \/ f.todo = <<"name", "each", "return">> /\ f.todo[1] = "name"
           /\ <<"release">> \o Tail(f.todo) = <<"release", "each", "return">>
           /\ f.todo[1] = "test" => <<"name">> \o Tail(f.todo) = <<"name", "each", "return">>
           /\ f.todo[1] = "name" => Sort[f.ref] \in {"reader", "writer"}
<1> DEFINE q == f.todo
           sort == Seeks[f.op]
<1>1. f.op # "close"
  <2>1. "test" \notin CloseStages /\ "name" \notin CloseStages
    BY DEF CloseStages, Sorts, Containers
  <2> QED
    BY <2>1, NotClose
<1>2. f.op # "find_topic_description"
  <2>1. f.op = "find_topic_description" => q \in TwiceTodos
    BY Ops DEF TwiceShape
  <2> QED
    BY <2>1, TwiceStages
<1>3. /\ f.op \in DOMAIN Seeks /\ FindShape(f) /\ sort \in SoughtSorts
      /\ f.ref \in Objects \cup {None} /\ (f.loose # {} => q[1] = "release")
  BY <1>1, <1>2, Ops
<1>4. /\ q \in FindTodos(sort) /\ f.key = None /\ (f.ref # None <=> q[1] \in {"test", "name"})
      /\ (q[1] = "name" => Sort[f.ref] \in {"reader", "writer"})
  BY <1>3 DEF FindShape
<1>a. q[1] \in {"test", "name"}
  OBVIOUS
<1> HIDE DEF q, sort
<1>5. /\ \/ q = <<"test", "each", "return">> /\ q[1] = "test"
         \/ q = <<"name", "each", "return">> /\ q[1] = "name"
      /\ <<"release">> \o Tail(q) = <<"release", "each", "return">>
      /\ q[1] = "test" => <<"name">> \o Tail(q) = <<"name", "each", "return">>
  BY <1>a, <1>3, <1>4, FindStages
<1> QED
  BY <1>a, <1>3, <1>4, <1>5 DEF q, sort

LEMMA LookupNames ==
    ASSUME NEW f \in CallFrames, FrameShape(f), f.op # "contains", f.todo[1] = "test",
           Sort[f.ref] \in {"reader", "writer"},
           NEW g, g = [f EXCEPT !.todo = <<"name">> \o Tail(@)]
    PROVE  Continues(f, g) /\ g.todo = <<"name", "each", "return">>
<1> DEFINE w == <<"name", "each", "return">>
           sort == Seeks[f.op]
<1>1. /\ f.op \in DOMAIN Seeks /\ f.ref \in Objects /\ f.ref # None /\ f.loose = {}
      /\ sort \in SoughtSorts /\ f.key = None /\ <<"name">> \o Tail(f.todo) = w
      /\ f.todo = <<"test", "each", "return">>
  BY LookupLooks
<1>2. w \in FindTodos(sort) /\ w[1] = "name" /\ w[2] = "each" /\ w \notin Leaving2
      /\ sort \notin {"name", "lock"}
  BY <1>1, FindForms
<1>a. f.todo[1] = "test" /\ f.todo[2] = "each"
  BY <1>1
<1>4. f.rest \in SUBSET Objects /\ f.found \in SUBSET Objects /\ \A x \in f.rest : Holder[x] = f.self
  BY Ops
<1> HIDE DEF w, sort
<1>3. /\ SameCall(f, g) /\ g.todo = w /\ g.rest = f.rest /\ g.ref = f.ref /\ g.key = f.key
      /\ g.found = f.found /\ g.loose = f.loose
  BY <1>1 DEF CallFrames, SameCall
<1>5. w \in Seq(StageNames) /\ w # << >>
  BY <1>1, <1>2, FindStages
<1>6. g.op = f.op
  BY <1>3 DEF SameCall
<1>7. FindShape(g)
  BY <1>1, <1>2, <1>3, <1>6 DEF FindShape, sort
<1>8. f.op # "close" /\ f.op # "find_topic_description"
  BY <1>1, SeeksFacts
<1>9. Continues(f, g)
  BY <1>1, <1>3, <1>4, <1>5, <1>7, <1>8, LookupContinues
<1> QED
  BY <1>3, <1>9 DEF w

(* The search has judged what it looks at.                                 *)
JudgedFrame(f) == [Done(f) EXCEPT !.todo = <<"release">> \o @, !.ref = None]

Judgement(f, g) ==
    \/ Label[f.ref] # f.for /\ g = [JudgedFrame(f) EXCEPT !.loose = {f.ref}]
    \/ /\ Label[f.ref] = f.for /\ f.op = "find_datareaders"
       /\ g = [JudgedFrame(f) EXCEPT !.found = @ \cup {f.ref}]
    \/ /\ Label[f.ref] = f.for /\ f.op # "find_datareaders"
       /\ g = [JudgedFrame(f) EXCEPT !.found = {f.ref}, !.loose = f.found]

LEMMA JudgementIs ==
    ASSUME NEW f \in CallFrames, FrameShape(f), f.op # "contains", f.todo[1] \in {"test", "name"},
           NEW g, Judgement(f, g)
    PROVE  /\ Continues(f, g) /\ g.todo = <<"release", "each", "return">>
           /\ g.rest = f.rest /\ g.ref = None /\ g.key = None
           /\ \/ Label[f.ref] # f.for /\ g.found = f.found /\ g.loose = {f.ref}
              \/ /\ Label[f.ref] = f.for /\ f.op = "find_datareaders"
                 /\ g.found = f.found \cup {f.ref} /\ g.loose = {}
              \/ /\ Label[f.ref] = f.for /\ f.op # "find_datareaders"
                 /\ g.found = {f.ref} /\ g.loose = f.found
<1> DEFINE w == <<"release", "each", "return">>
           sort == Seeks[f.op]
           h == JudgedFrame(f)
<1>1. /\ f.op \in DOMAIN Seeks /\ f.ref \in Objects /\ f.ref # None /\ f.loose = {}
      /\ sort \in SoughtSorts /\ f.key = None /\ <<"release">> \o Tail(f.todo) = w
  BY LookupLooks
<1>2. w \in FindTodos(sort) /\ w[1] = "release" /\ w[2] = "each" /\ w \notin Leaving2
      /\ sort \notin {"release", "lock"}
  BY <1>1, FindForms
<1>4. f.rest \in SUBSET Objects /\ f.found \in SUBSET Objects /\ \A x \in f.rest : Holder[x] = f.self
  BY Ops
<1> HIDE DEF w, sort
<1>a. /\ SameCall(f, h) /\ h.todo = w /\ h.rest = f.rest /\ h.ref = None /\ h.key = f.key
      /\ h.found = f.found /\ h.loose = {} /\ h \in CallFrames
  <2>1. w \in Seq(StageNames)
    BY <1>1, <1>2, FindStages
  <2>2. /\ SameCall(f, h) /\ h.todo = w /\ h.rest = f.rest /\ h.ref = None /\ h.key = f.key
        /\ h.found = f.found /\ h.loose = {}
    BY <1>1 DEF CallFrames, SameCall, Done, JudgedFrame
  <2> QED
    BY <1>1, <1>4, <2>1, <2>2, FrameType
<1>h. \/ Label[f.ref] # f.for /\ g = [h EXCEPT !.loose = {f.ref}]
      \/ Label[f.ref] = f.for /\ f.op = "find_datareaders" /\ g = [h EXCEPT !.found = @ \cup {f.ref}]
      \/ /\ Label[f.ref] = f.for /\ f.op # "find_datareaders"
         /\ g = [h EXCEPT !.found = {f.ref}, !.loose = f.found]
  BY DEF Judgement
<1> HIDE DEF h
<1>3. /\ SameCall(h, g) /\ g.todo = w /\ g.rest = f.rest /\ g.ref = None /\ g.key = f.key
      /\ \/ Label[f.ref] # f.for /\ g.found = f.found /\ g.loose = {f.ref}
         \/ /\ Label[f.ref] = f.for /\ f.op = "find_datareaders"
            /\ g.found = f.found \cup {f.ref} /\ g.loose = {}
         \/ /\ Label[f.ref] = f.for /\ f.op # "find_datareaders"
            /\ g.found = {f.ref} /\ g.loose = f.found
  <2>1. CASE g = [h EXCEPT !.loose = {f.ref}] /\ Label[f.ref] # f.for
    BY <1>a, <2>1 DEF CallFrames, SameCall
  <2>2. CASE g = [h EXCEPT !.found = @ \cup {f.ref}] /\ Label[f.ref] = f.for /\ f.op = "find_datareaders"
    BY <1>a, <2>2 DEF CallFrames, SameCall
  <2>3. CASE /\ g = [h EXCEPT !.found = {f.ref}, !.loose = f.found]
             /\ Label[f.ref] = f.for /\ f.op # "find_datareaders"
    BY <1>a, <2>3 DEF CallFrames, SameCall
  <2> QED
    BY <1>h, <2>1, <2>2, <2>3
<1>b. SameCall(f, g)
  BY <1>a, <1>3 DEF SameCall
<1>5. w \in Seq(StageNames) /\ w # << >>
  BY <1>1, <1>2, FindStages
<1>6. g.op = f.op /\ g.found \in SUBSET Objects /\ g.loose \in SUBSET Objects
  BY <1>b, <1>1, <1>3, <1>4 DEF SameCall
<1>7. FindShape(g)
  BY <1>1, <1>2, <1>3, <1>6 DEF FindShape, sort
<1>8. f.op # "close" /\ f.op # "find_topic_description"
  BY <1>1, SeeksFacts
<1>9. Continues(f, g)
  BY <1>1, <1>b, <1>2, <1>3, <1>4, <1>5, <1>6, <1>7, <1>8, LookupContinues
<1> QED
  BY <1>1, <1>3, <1>9 DEF w

(* contains_entity in the mutex of a set.                                  *)
LockedFrame(f, R, k) ==
    [f EXCEPT !.todo = <<"each", "leave">> \o Tail(@), !.rest = R, !.key = k]

InSet(f, R, k) == R \in SUBSET Objects /\ k \in Sets /\ \A o \in R : Holder[o] = f.self

LocksOn(f, R, k, g) ==
    /\ Continues(f, g) /\ g.todo[1] = "each" /\ EndOf(g.todo) = EndOf(f.todo)
    /\ f.todo \notin Leaving2 /\ g.todo \notin Leaving2
    /\ f.loose = {} /\ f.ref = None
    /\ g.rest = R /\ g.key = k /\ g.ref = None /\ g.found = f.found /\ g.loose = {}

LEMMA ContainsLocks ==
    ASSUME NEW f \in CallFrames, FrameShape(f), f.op = "contains", f.todo[1] \in Sorts,
           NEW R, NEW k, InSet(f, R, k), NEW g, g = LockedFrame(f, R, k)
    PROVE  LocksOn(f, R, k, g)
<1>0. R \in SUBSET Objects /\ k \in Sets /\ \A o \in R : Holder[o] = f.self
  BY DEF InSet
<1> DEFINE q == f.todo
           r == Tail(q)
           u == <<"leave">> \o r
           w == <<"each">> \o u
<1>1. /\ q # << >> /\ q \in Seq(StageNames) /\ (f.loose # {} => q[1] = "release")
      /\ ContainsShape(f) /\ f.op \notin DOMAIN Seeks /\ f.found \in SUBSET Objects
  BY Ops
<1>2. q[1] \notin {"release", "return", "unwind", "test"}
  BY DEF Sorts, Containers
<1>3. f.self \in Objects /\ ContainsTodo(q) /\ (f.ref # None <=> q[1] = "test")
  BY <1>1 DEF ContainsShape
<1>4. q \notin Leaving2
  BY <1>2, NotContains
<1>5. /\ ContainsTodo(r) /\ r # << >> /\ EndOf(r) = EndOf(q)
      /\ r \notin Leaving2 /\ r \in Seq(ContainsStages)
      /\ \A i \in 1 .. Len(r) : r[i] \notin {"test", "release", "lock"}
  BY <1>1, <1>2, <1>3, <1>4, ContainsTail
<1>6. /\ ContainsTodo(u) /\ u # << >> /\ EndOf(u) = EndOf(r) /\ u[1] = "leave"
      /\ u \notin Leaving2 /\ u \in Seq(ContainsStages)
  BY <1>5, ContainsPut
<1>7. \A i \in 1 .. Len(u) : u[i] \notin {"test", "release", "lock"}
  <2>1. u \in Seq(ContainsStages) /\ \A i \in 2 .. Len(u) : u[i] \notin {"test", "release", "lock"}
    BY <1>6 DEF ContainsTodo
  <2>2. \A i \in 1 .. Len(u) : i = 1 \/ i \in 2 .. Len(u)
    BY <2>1, LenProperties
  <2> QED
    BY <1>6, <2>1, <2>2
<1> HIDE DEF u
<1>8. /\ ContainsTodo(w) /\ w # << >> /\ EndOf(w) = EndOf(u) /\ w[1] = "each"
      /\ w \notin Leaving2 /\ w \in Seq(ContainsStages)
  BY <1>6, <1>7, ContainsPut
<1>9. <<"each", "leave">> \o Tail(f.todo) = w
  <2> DEFINE a == "each"
             b == "leave"
  <2>1. a \in StageNames /\ b \in StageNames
    BY DEF StageNames
  <2>2. r \in Seq(StageNames)
    BY <1>5, StageSets
  <2> HIDE DEF a, b, r
  <2>3. <<a>> \o <<b>> = <<a, b>>
    BY <2>1, PutBefore
  <2>4. <<a>> \in Seq(StageNames) /\ <<b>> \in Seq(StageNames)
    BY <2>1
  <2>5. (<<a>> \o <<b>>) \o r = <<a>> \o (<<b>> \o r)
    BY <2>2, <2>4, ConcatAssociative
  <2>6. <<a, b>> \o r = <<a>> \o (<<b>> \o r)
    BY <2>3, <2>5
  <2> QED
    BY <2>6 DEF a, b, w, u, r, q
<1>a. w \in Seq(StageNames)
  BY <1>8, StageSets
<1>b. f.loose = {} /\ f.ref = None
  BY <1>1, <1>2, <1>3
<1> HIDE DEF w, q
<1>10. /\ SameCall(f, g) /\ g.todo = w /\ g.rest = R /\ g.ref = f.ref /\ g.key = k
       /\ g.found = f.found /\ g.loose = f.loose
  BY <1>9 DEF CallFrames, SameCall, LockedFrame
<1>r. g.rest \in SUBSET Objects /\ (\A o \in g.rest : Holder[o] = f.self) /\ g.key \in Sets \cup {None}
  BY <1>0, <1>10
<1>11. g.self = f.self
  BY <1>10 DEF SameCall
<1>12. ContainsShape(g)
  BY <1>3, <1>8, <1>10, <1>11, <1>b DEF ContainsShape
<1>13. f.op # "close" /\ f.op # "find_topic_description"
  OBVIOUS
<1>14. Continues(f, g)
  <2>1. g.todo[1] # "lock"
    BY <1>8, <1>10
  <2> QED
    BY <1>1, <1>8, <1>a, <1>r, <1>b, <1>10, <1>12, <1>13, <2>1, LookupContinues
<1> QED
  BY <1>4, <1>5, <1>6, <1>8, <1>10, <1>14, <1>b DEF q, LocksOn

(* It has looked at an entity of the set, which it will release.           *)
LookedFrame(f) == [Done(f) EXCEPT !.todo = <<"release">> \o @, !.ref = None, !.loose = {f.ref}]
MatchedFrame(f) == [LookedFrame(f) EXCEPT !.found = {f.ref}]

LEMMA ContainsLooks ==
    ASSUME NEW f \in CallFrames, FrameShape(f), f.op = "contains", f.todo[1] = "test",
           NEW g, g = LookedFrame(f) \/ g = MatchedFrame(f)
    PROVE  /\ Continues(f, g) /\ g.todo[1] = "release" /\ EndOf(g.todo) = EndOf(f.todo)
           /\ f.todo \notin Leaving2 /\ g.todo \notin Leaving2
           /\ f.loose = {} /\ f.ref \in Objects /\ f.ref # None
           /\ g.rest = f.rest /\ g.key = f.key /\ g.ref = None /\ g.loose = {f.ref}
           /\ (g = MatchedFrame(f) => g.found = {f.ref})
           /\ (g = LookedFrame(f) => g.found = f.found) /\ f.self \in Objects
<1> DEFINE h == LookedFrame(f)
           q == f.todo
           r == Tail(q)
           w == <<"release">> \o r
<1>1. /\ q # << >> /\ q \in Seq(StageNames) /\ (f.loose # {} => q[1] = "release")
      /\ ContainsShape(f) /\ f.op \notin DOMAIN Seeks /\ f.found \in SUBSET Objects
      /\ f.rest \in SUBSET Objects /\ \A x \in f.rest : Holder[x] = f.self
      /\ f.ref \in Objects \cup {None} /\ f.key \in Sets \cup {None}
  BY Ops
<1>2. q[1] \notin {"release", "return", "unwind"}
  OBVIOUS
<1>3. /\ f.self \in Objects /\ ContainsTodo(q) /\ (f.ref # None <=> q[1] = "test")
      /\ f.rest # {} => \/ f.todo \in Leaving2 \/ f.todo[1] = "each"
                        \/ f.todo[1] \in {"test", "release"} /\ f.todo[2] = "each"
  BY <1>1 DEF ContainsShape
<1>4. q \notin Leaving2
  BY <1>2, NotContains
<1>5. /\ ContainsTodo(r) /\ r # << >> /\ EndOf(r) = EndOf(q)
      /\ r \notin Leaving2 /\ r \in Seq(ContainsStages) /\ r[1] = q[2]
      /\ \A i \in 1 .. Len(r) : r[i] \notin {"test", "release", "lock"}
  BY <1>1, <1>2, <1>3, <1>4, ContainsTail
<1>b. f.loose = {} /\ f.ref \in Objects /\ f.ref # None
  BY <1>1, <1>2, <1>3
<1>c. f.rest # {} => q[2] = "each"
  BY <1>3, <1>4
<1> HIDE DEF r
<1>8. /\ ContainsTodo(w) /\ w # << >> /\ EndOf(w) = EndOf(r) /\ w[1] = "release"
      /\ w \notin Leaving2 /\ w \in Seq(ContainsStages) /\ w[2] = r[1]
  BY <1>5, ContainsPut
<1>a. w \in Seq(StageNames)
  BY <1>8, StageSets
<1>d. Tail(f.todo) = r
  BY DEF r
<1> HIDE DEF w, q
<1>9. /\ SameCall(f, h) /\ h.todo = w /\ h.rest = f.rest /\ h.ref = None /\ h.key = f.key
      /\ h.found = f.found /\ h.loose = {f.ref} /\ h \in CallFrames
  <2>1. /\ SameCall(f, h) /\ h.todo = w /\ h.rest = f.rest /\ h.ref = None /\ h.key = f.key
        /\ h.found = f.found /\ h.loose = {f.ref}
    BY <1>d DEF CallFrames, SameCall, Done, w, LookedFrame
  <2>2. h.loose \in SUBSET Objects
    BY <1>b, <2>1
  <2> QED
    BY <1>1, <1>a, <2>1, <2>2, FrameType
<1>10. /\ SameCall(f, g) /\ g.todo = w /\ g.rest = f.rest /\ g.ref = None /\ g.key = f.key
       /\ (g = MatchedFrame(f) => g.found = {f.ref})
       /\ (g = LookedFrame(f) => g.found = f.found)
       /\ g.loose = {f.ref}
  <2>0. MatchedFrame(f) = [h EXCEPT !.found = {f.ref}]
    BY DEF MatchedFrame
  <2> HIDE DEF h
  <2>1. CASE g = h
    <3>1. g = MatchedFrame(f) => g.found = {f.ref}
      BY <1>9, <2>0, <2>1 DEF CallFrames
    <3> QED
      BY <1>9, <2>1, <3>1 DEF h
  <2>2. CASE g = MatchedFrame(f)
    <3>1. g = h => g.found = f.found
      BY <1>9
    <3> QED
      BY <1>9, <2>0, <2>2, <3>1 DEF CallFrames, SameCall, h
  <2>3. g = h \/ g = MatchedFrame(f)
    BY DEF h
  <2> QED
    BY <2>1, <2>2, <2>3
<1>11. g.self = f.self
  BY <1>10 DEF SameCall
<1>12. g.found \in SUBSET Objects /\ g.loose \in SUBSET Objects
  BY <1>1, <1>b, <1>10
<1>13. g.rest # {} => g.todo[1] = "release" /\ g.todo[2] = "each"
  BY <1>5, <1>8, <1>10, <1>c
<1>14. ContainsShape(g)
  BY <1>3, <1>8, <1>10, <1>11, <1>13 DEF ContainsShape
<1>15. f.op # "close" /\ f.op # "find_topic_description"
  OBVIOUS
<1>16. g.todo[1] = "release"
  BY <1>8, <1>10
<1>17. Continues(f, g)
  BY <1>1, <1>8, <1>a, <1>10, <1>12, <1>14, <1>15, <1>16, LookupContinues
<1> QED
  BY <1>3, <1>4, <1>5, <1>8, <1>9, <1>10, <1>17, <1>b DEF q

LeftFrame(f) ==
    [f EXCEPT !.key = None, !.todo = IF f.found = {} THEN Tail(@) ELSE <<"return">>]

LEMMA ContainsLeaves ==
    ASSUME NEW f \in CallFrames, FrameShape(f), f.todo[1] = "leave",
           NEW g, g = LeftFrame(f)
    PROVE  /\ Continues(f, g) /\ f.op = "contains" /\ f.todo \notin Leaving2 /\ g.todo \notin Leaving2
           /\ f.rest = {} /\ f.loose = {} /\ f.ref = None
           /\ g.rest = {} /\ g.ref = None /\ g.key = None /\ g.loose = {} /\ g.found = f.found
<1> DEFINE q == f.todo
           r == Tail(q)
           w == IF f.found = {} THEN r ELSE <<"return">>
<1>1. /\ q # << >> /\ q \in Seq(StageNames) /\ (f.loose # {} => q[1] = "release")
      /\ f.found \in SUBSET Objects
      /\ f.rest \in SUBSET Objects /\ \A x \in f.rest : Holder[x] = f.self
  BY Ops
<1>2. f.op = "contains"
  <2>1. f.op # "close"
    <3>1. "leave" \notin CloseStages
      BY DEF CloseStages, Sorts, Containers
    <3> QED
      BY <3>1, NotClose
  <2>2. f.op \notin DOMAIN Seeks
    <3> DEFINE sort == Seeks[f.op]
    <3>1. SUFFICES ASSUME f.op \in DOMAIN Seeks PROVE FALSE
      OBVIOUS
    <3>2. sort \in SoughtSorts /\ q \in FindTodos(sort)
      BY <3>1, Ops DEF FindShape
    <3> HIDE DEF sort
    <3>3. sort # "leave"
      BY <3>2, FindForms
    <3> QED
      BY <3>2, <3>3, FindStages
  <2>3. f.op # "find_topic_description"
    <3>1. f.op = "find_topic_description" => q \in TwiceTodos
      BY Ops DEF TwiceShape
    <3> QED
      BY <3>1, TwiceStages
  <2> QED
    BY <2>1, <2>2, <2>3, Ops
<1>3. ContainsShape(f) /\ f.op \notin DOMAIN Seeks
  BY <1>2, Ops
<1>4. /\ f.self \in Objects /\ ContainsTodo(q) /\ (f.ref # None <=> q[1] = "test")
      /\ f.rest # {} => \/ f.todo \in Leaving2 \/ f.todo[1] = "each"
                        \/ f.todo[1] \in {"test", "release"} /\ f.todo[2] = "each"
  BY <1>3 DEF ContainsShape
<1>5. q \notin Leaving2
  BY <1>2, NotContains
<1>6. f.rest = {} /\ f.ref = None /\ f.loose = {}
  BY <1>1, <1>4, <1>5
<1>7. /\ ContainsTodo(r) /\ r # << >> /\ r \notin Leaving2 /\ r \in Seq(ContainsStages)
      /\ r[1] \notin {"test", "release", "lock"}
  BY <1>1, <1>4, <1>5, ContainsTail
<1> DEFINE v == <<"return">>
<1>8. ContainsTodo(v) /\ v # << >> /\ v \notin Leaving2 /\ v \in Seq(ContainsStages)
      /\ v[1] = "return"
  BY LookupLiterals
<1> HIDE DEF v, r
<1>9. ContainsTodo(w) /\ w # << >> /\ w \notin Leaving2 /\ w \in Seq(ContainsStages)
      /\ w[1] # "test" /\ w[1] # "lock"
  BY <1>7, <1>8 DEF v
<1>10. w \in Seq(StageNames)
  BY <1>9, StageSets
<1>a. g = [f EXCEPT !.key = None, !.todo = w]
  BY DEF r, LeftFrame
<1> HIDE DEF w, q
<1>11. /\ SameCall(f, g) /\ g.todo = w /\ g.rest = f.rest /\ g.ref = f.ref /\ g.key = None
       /\ g.found = f.found /\ g.loose = f.loose
  BY <1>a DEF CallFrames, SameCall
<1>12. g.self = f.self
  BY <1>11 DEF SameCall
<1>13. ContainsShape(g)
  BY <1>4, <1>6, <1>9, <1>11, <1>12 DEF ContainsShape
<1>14. f.op # "close" /\ f.op # "find_topic_description"
  BY <1>2
<1>15. Continues(f, g)
  BY <1>1, <1>3, <1>6, <1>9, <1>10, <1>11, <1>13, <1>14, LookupContinues
<1> QED
  BY <1>2, <1>5, <1>6, <1>9, <1>11, <1>15 DEF q

(* find_topic_description looks for a topic, then for a filtered topic.    *)
LEMMA TwiceGoesOn ==
    ASSUME NEW f \in CallFrames, FrameShape(f), f.todo[1] \in {"first", "second"},
           NEW g, \/ f.todo[1] = "first" /\ g = [f EXCEPT !.todo = <<"second", "return">>]
                  \/ f.todo[1] = "second" /\ g = Done(f)
    PROVE  /\ Continues(f, g) /\ f.op = "find_topic_description" /\ f.self \in Objects
           /\ f.rest = {} /\ f.ref = None /\ f.loose = {} /\ f.key = None
           /\ f.todo \notin Leaving2 /\ g.todo \notin Leaving2
           /\ f.todo[1] = "first" => f.found = {} /\ g.todo = <<"second", "return">>
           /\ f.todo[1] = "second" => g.todo = <<"return">>
           /\ g.found = f.found /\ g.rest = {} /\ g.ref = None /\ g.loose = {} /\ g.key = None
<1> DEFINE q == f.todo
           w == IF q[1] = "first" THEN <<"second", "return">> ELSE <<"return">>
<1>1. f.op = "find_topic_description"
  <2>1. f.op # "close"
    <3>1. "first" \notin CloseStages /\ "second" \notin CloseStages
      BY DEF CloseStages, Sorts, Containers
    <3> QED
      BY <3>1, NotClose
  <2>2. f.op \notin DOMAIN Seeks
    <3> DEFINE sort == Seeks[f.op]
    <3>1. SUFFICES ASSUME f.op \in DOMAIN Seeks PROVE FALSE
      OBVIOUS
    <3>2. sort \in SoughtSorts /\ q \in FindTodos(sort)
      BY <3>1, Ops DEF FindShape
    <3> HIDE DEF sort
    <3>3. sort \notin {"first", "second"}
      BY <3>2, FindForms
    <3> QED
      BY <3>2, <3>3, FindStages
  <2>3. f.op # "contains"
    <3>1. "first" \notin ContainsStages \cup {"unwind"} /\ "second" \notin ContainsStages \cup {"unwind"}
      BY DEF ContainsStages, Sorts, Containers
    <3> QED
      BY <3>1, NotContains
  <2> QED
    BY <2>1, <2>2, <2>3, Ops
<1>2. /\ TwiceShape(f) /\ f.op \notin DOMAIN Seeks /\ f.found \in SUBSET Objects
  BY <1>1, Ops
<1>3. /\ q \in TwiceTodos /\ f.self \in Objects /\ f.rest = {} /\ f.ref = None /\ f.loose = {}
      /\ f.key = None /\ (q[1] \in {"first", "release", "unwind"} => f.found = {})
  BY <1>2 DEF TwiceShape
<1>a. q[1] \in {"first", "second"}
  OBVIOUS
<1> HIDE DEF q
<1>4. /\ q[1] = "first" => q = <<"first", "return">>
      /\ q[1] = "second" => q = <<"second", "return">> /\ Tail(q) = <<"return">>
  BY <1>3, TwiceStages
<1>5. q \notin Leaving2
  BY <1>3, <1>a, LeavingStages
<1>6. /\ w \in TwiceTodos /\ w[1] \in {"second", "return"} /\ w # << >>
      /\ (q[1] = "first" => w = <<"second", "return">>)
      /\ (q[1] = "second" => w = <<"return">>)
  <2>1. <<"second", "return">> \in TwiceTodos /\ <<"return">> \in TwiceTodos
    BY DEF TwiceTodos
  <2>2. /\ <<"second", "return">>[1] = "second" /\ <<"return">>[1] = "return"
        /\ <<"second", "return">> # << >> /\ <<"return">> # << >>
    OBVIOUS
  <2> QED
    BY <1>a, <2>1, <2>2
<1>7. g = [f EXCEPT !.todo = w]
  <2>1. CASE q[1] = "first"
    BY <1>6, <2>1 DEF q
  <2>2. CASE q[1] = "second"
    BY <1>4, <1>6, <2>2 DEF q, Done
  <2> QED
    BY <1>a, <2>1, <2>2
<1> HIDE DEF w
<1>8. /\ SameCall(f, g) /\ g.todo = w /\ g.rest = f.rest /\ g.ref = f.ref /\ g.key = f.key
      /\ g.found = f.found /\ g.loose = f.loose
  BY <1>7 DEF CallFrames, SameCall
<1>9. g.self = f.self
  BY <1>8 DEF SameCall
<1>10. TwiceShape(g)
  BY <1>3, <1>6, <1>8, <1>9 DEF TwiceShape
<1>11. w \in Seq(StageNames)
  BY <1>6, TwiceStages
<1>12. w \notin Leaving2
  BY <1>6, LeavingStages
<1>13. f.op # "close" /\ f.op # "contains"
  BY <1>1
<1>14. Continues(f, g)
  BY <1>2, <1>3, <1>6, <1>8, <1>10, <1>11, <1>13, LookupContinues
<1> QED
  BY <1>1, <1>3, <1>5, <1>6, <1>8, <1>12, <1>14 DEF q

(* A lookup within another one has returned, or thrown.                    *)
UnwoundFrame(b) == [b EXCEPT !.todo = <<"release", "unwind">>]
HandedFrame(b, S) == [b EXCEPT !.found = S]

LEMMA Returned ==
    ASSUME NEW f \in CallFrames, FrameShape(f), NEW b \in CallFrames, FrameShape(b),
           \/ WithinTwice(f, b)
           \/ b.op = "contains" /\ b.todo[1] = "release" /\ b.found = {},
           NEW g, g = UnwoundFrame(b) \/ g = HandedFrame(b, f.found)
    PROVE  /\ Continues(b, g) /\ b.op # "close" /\ b.op \notin DOMAIN Seeks
           /\ g.rest = b.rest /\ g.ref = b.ref /\ g.key = b.key /\ g.loose = b.loose
           /\ g = UnwoundFrame(b) =>
                g.todo = <<"release", "unwind">> /\ g.found = b.found
           /\ g = HandedFrame(b, f.found) => g.todo = b.todo /\ g.found = f.found
<1> DEFINE w == <<"release", "unwind">>
<1>1. /\ b.op # "close" /\ b.op \notin DOMAIN Seeks
      /\ (b.op = "find_topic_description" => TwiceShape(b))
      /\ (b.op = "contains" => ContainsShape(b))
      /\ b.op \in {"find_topic_description", "contains"}
      /\ b.rest \in SUBSET Objects /\ b.loose \in SUBSET Objects /\ b.found \in SUBSET Objects
      /\ b.ref \in Objects \cup {None} /\ b.key \in Sets \cup {None}
      /\ b.todo \in Seq(StageNames) /\ b.todo # << >> /\ (b.loose # {} => b.todo[1] = "release")
      /\ (\A o \in b.rest : Holder[o] = b.self)
  BY Ops, SeeksFacts DEF WithinTwice
<1>2. f.found \in SUBSET Objects
  BY Ops
<1>3. /\ w \in Leaving2 /\ w \in TwiceTodos /\ ContainsTodo(w) /\ w \in Seq(StageNames) /\ w # << >>
      /\ w[1] = "release"
  <2>1. w \in Leaving2
    BY DEF Leaving2
  <2>2. w[1] = "release" /\ w # << >>
    OBVIOUS
  <2>3. w \in Seq(StageNames)
    BY <2>1, LeavingStages
  <2> HIDE DEF w
  <2> QED
    BY <2>1, <2>2, <2>3 DEF TwiceTodos, ContainsTodo
<1>4. /\ SameCall(b, g) /\ g.rest = b.rest /\ g.ref = b.ref /\ g.key = b.key /\ g.loose = b.loose
      /\ g = UnwoundFrame(b) => g.todo = w /\ g.found = b.found
      /\ g = HandedFrame(b, f.found) => g.todo = b.todo /\ g.found = f.found
  <2>1. CASE g = UnwoundFrame(b)
    <3>1. /\ SameCall(b, g) /\ g.rest = b.rest /\ g.ref = b.ref /\ g.key = b.key /\ g.loose = b.loose
          /\ g.todo = w /\ g.found = b.found
      BY <2>1 DEF CallFrames, SameCall, UnwoundFrame
    <3>2. g = HandedFrame(b, f.found) => g.todo = b.todo /\ g.found = f.found
      BY <2>1 DEF CallFrames, HandedFrame, UnwoundFrame
    <3> QED
      BY <3>1, <3>2
  <2>2. CASE g = HandedFrame(b, f.found)
    <3>1. /\ SameCall(b, g) /\ g.rest = b.rest /\ g.ref = b.ref /\ g.key = b.key /\ g.loose = b.loose
          /\ g.todo = b.todo /\ g.found = f.found
      BY <2>2 DEF CallFrames, SameCall, HandedFrame
    <3>2. g = UnwoundFrame(b) => g.todo = w /\ g.found = b.found
      BY <2>2 DEF CallFrames, UnwoundFrame, HandedFrame
    <3> QED
      BY <3>1, <3>2
  <2> QED
    BY <2>1, <2>2
<1> HIDE DEF w
<1>5. /\ \/ g.todo = w /\ g.found = b.found
         \/ g.todo = b.todo /\ g.found = f.found
      /\ g.self = b.self
  BY <1>4 DEF SameCall
<1>6. g.todo \in Seq(StageNames) /\ g.todo # << >> /\ g.found \in SUBSET Objects
      /\ (g.loose # {} => g.todo[1] = "release")
  BY <1>1, <1>2, <1>3, <1>4, <1>5
<1>7. b.op = "find_topic_description" => TwiceShape(g)
  <2>1. SUFFICES ASSUME b.op = "find_topic_description" PROVE TwiceShape(g)
    OBVIOUS
  <2>2. TwiceShape(b) /\ b.found = {} /\ b.todo[1] \in {"second", "return"}
    BY <1>1, <2>1 DEF WithinTwice
  <2>3. TwiceShape(b) => /\ b.todo \in TwiceTodos /\ b.self \in Objects /\ b.rest = {} /\ b.ref = None
                         /\ b.loose = {} /\ b.key = None
    BY DEF TwiceShape
  <2>4. g.todo[1] \in {"first", "release", "unwind"} => g.found = {}
    BY <1>5, <2>2
  <2> QED
    BY <1>3, <1>4, <1>5, <2>2, <2>3, <2>4 DEF TwiceShape
<1>8. b.op = "contains" => ContainsShape(g) /\ g.todo[1] # "lock"
  <2>1. SUFFICES ASSUME b.op = "contains" PROVE ContainsShape(g) /\ g.todo[1] # "lock"
    OBVIOUS
  <2>2. ContainsShape(b) /\ b.todo[1] = "release"
    BY <1>1, <2>1 DEF WithinTwice
  <2>3. b.ref = None
    BY <2>2 DEF ContainsShape
  <2>4. g.todo[1] = "release"
    BY <1>3, <1>5, <2>2
  <2>5. CASE g.todo = w
    BY <1>3, <1>4, <1>5, <2>2, <2>3, <2>4, <2>5 DEF ContainsShape
  <2>6. CASE g.todo = b.todo
    BY <1>3, <1>4, <1>5, <2>2, <2>3, <2>4, <2>6 DEF ContainsShape
  <2> QED
    BY <1>5, <2>5, <2>6
<1>9. Continues(b, g)
  BY <1>1, <1>4, <1>6, <1>7, <1>8, LookupContinues
<1> QED
  BY <1>1, <1>4, <1>9 DEF w

(* An exception ends in frame f.                                           *)
ThrownFrame(f, L) ==
    [f EXCEPT !.ref = None, !.found = {}, !.loose = L,
              !.todo = IF @[Len(@)] = "forget" THEN <<"release", "forget">>
                       ELSE IF f.op = "close" THEN <<"release">>
                       ELSE <<"release", "unwind">>]

LEMMA Thrown ==
    ASSUME NEW f \in CallFrames, FrameShape(f), NEW L \in SUBSET Objects,
           Destructor(f) => L = {}, f.op # "find_topic_description",
           NEW g, g = ThrownFrame(f, L)
    PROVE  /\ Continues(f, g) /\ g.todo[1] = "release"
           /\ g.loose = L /\ g.found = {} /\ g.ref = None /\ g.rest = f.rest /\ g.key = f.key
           /\ f.op # "close" => g.todo = <<"release", "unwind">>
           /\ f.op = "close" => g.todo = IF Destructor(f) THEN <<"release", "forget">> ELSE <<"release">>
<1> DEFINE q == f.todo
           w == IF f.op = "close" THEN (IF Destructor(f) THEN <<"release", "forget">> ELSE <<"release">>)
                ELSE <<"release", "unwind">>
<1>1. /\ f.rest \in SUBSET Objects /\ (\A o \in f.rest : Holder[o] = f.self)
      /\ f.key \in Sets \cup {None} /\ q # << >>
  BY Ops
<1>2. f.op # "close" => EndOf(q) # "forget"
  <2>1. ASSUME f.op \in DOMAIN Seeks
        PROVE  EndOf(q) # "forget"
    <3> DEFINE sort == Seeks[f.op]
    <3>1. q \in FindTodos(sort) /\ sort \in SoughtSorts
      BY <2>1, Ops DEF FindShape
    <3> HIDE DEF sort
    <3> QED
      BY <3>1, FindStages
  <2>2. f.op = "find_topic_description" => EndOf(q) # "forget"
    <3>1. f.op = "find_topic_description" => q \in TwiceTodos
      BY Ops DEF TwiceShape
    <3> QED
      BY <3>1, TwiceStages
  <2>3. f.op = "contains" => EndOf(q) # "forget"
    BY NotContains
  <2> QED
    BY <2>1, <2>2, <2>3, Ops
<1>3. g = [f EXCEPT !.ref = None, !.found = {}, !.loose = L, !.todo = w]
  BY <1>2 DEF Destructor, EndOf, ThrownFrame
<1>a. w[1] = "release" /\ w # << >>
  <2>1. /\ <<"release", "forget">>[1] = "release" /\ <<"release">>[1] = "release"
        /\ <<"release", "unwind">>[1] = "release"
        /\ <<"release", "forget">> # << >> /\ <<"release">> # << >> /\ <<"release", "unwind">> # << >>
    OBVIOUS
  <2> QED
    BY <2>1
<1>4. /\ SameCall(f, g) /\ g.todo = w /\ g.rest = f.rest /\ g.ref = None /\ g.key = f.key
      /\ g.found = {} /\ g.loose = L
  <2> HIDE DEF w
  <2> QED
    BY <1>3 DEF CallFrames, SameCall
<1>5. CASE f.op = "close"
  <2> DEFINE v == w
  <2>1. /\ CloseTodo(w) /\ (\A i \in 1 .. Len(w) : w[i] # "uncount")
        /\ (EndOf(w) = "forget" <=> Destructor(f))
    <3>1. CASE Destructor(f)
      <4> DEFINE u == <<"release", "forget">>
      <4>1. StartsWell(u, "discovered") /\ EndOf(u) = "forget"
        BY CloseLiterals DEF Sorts
      <4>2. CloseTodo(u) /\ \A i \in 1 .. Len(u) : u[i] # "uncount"
        BY <4>1 DEF StartsWell
      <4>3. w = u
        BY <1>5, <3>1
      <4> HIDE DEF u, w
      <4> QED
        BY <3>1, <4>1, <4>2, <4>3
    <3>2. CASE ~Destructor(f)
      <4> DEFINE u == <<"release">>
      <4>1. StartsWell(u, "discovered") /\ EndOf(u) = "release"
        BY CloseLiterals DEF Sorts
      <4>2. CloseTodo(u) /\ \A i \in 1 .. Len(u) : u[i] # "uncount"
        BY <4>1 DEF StartsWell
      <4>3. w = u
        BY <1>5, <3>2
      <4> HIDE DEF u, w
      <4>4. "release" # "forget"
        OBVIOUS
      <4> QED
        BY <3>2, <4>1, <4>2, <4>3, <4>4
    <3> QED
      BY <3>1, <3>2
  <2>2. EndOf(f.todo) = "forget" <=> Destructor(f)
    BY <1>5 DEF Destructor, EndOf
  <2> HIDE DEF w
  <2>3. f.key = None
    BY <1>5, Ops DEF CloseShape
  <2>4. L # {} => w[1] = "release" /\ ~Destructor(f)
    BY <1>a
  <2>5. Continues(f, g)
    BY <1>1, <1>4, <1>5, <1>a, <2>1, <2>2, <2>3, <2>4, CloseContinues
  <2> QED
    BY <1>4, <1>5, <1>a, <2>5 DEF w
<1>6. CASE f.op # "close"
  <2>1. w = <<"release", "unwind">>
    BY <1>6
  <2> HIDE DEF w
  <2>2. w \in Leaving2
    BY <2>1 DEF Leaving2
  <2>3. w \in Seq(StageNames)
    BY <2>2, LeavingStages
  <2>4. g.self = f.self /\ g.op = f.op
    BY <1>4 DEF SameCall
  <2>5. f.op \in DOMAIN Seeks => FindShape(g)
    <3> DEFINE sort == Seeks[f.op]
    <3>1. SUFFICES ASSUME f.op \in DOMAIN Seeks PROVE FindShape(g)
      OBVIOUS
    <3>2. FindShape(f) /\ sort \in SoughtSorts
      BY <3>1, Ops
    <3>3. FindShape(f) => f.key = None
      BY DEF FindShape
    <3> HIDE DEF sort
    <3>4. sort # "release" /\ w \in FindTodos(sort)
      BY <2>1, <3>2, FindForms
    <3> QED
      BY <1>4, <1>a, <2>2, <2>4, <3>2, <3>3, <3>4 DEF FindShape, sort
  <2>7. f.op = "contains" => ContainsShape(g)
    <3>1. SUFFICES ASSUME f.op = "contains" PROVE ContainsShape(g)
      OBVIOUS
    <3>2. f.self \in Objects
      BY <3>1, Ops DEF ContainsShape
    <3>3. ContainsTodo(w)
      BY <2>2 DEF ContainsTodo
    <3> QED
      BY <1>4, <1>a, <2>2, <2>4, <3>2, <3>3 DEF ContainsShape
  <2>8. Continues(f, g)
    BY <1>1, <1>4, <1>6, <1>a, <2>3, <2>5, <2>7, LookupContinues
  <2> QED
    BY <1>4, <1>6, <1>a, <2>1, <2>8
<1> QED
  BY <1>5, <1>6

(* What a call starts with.                                                *)
StartsWith(op, self, q) ==
    \/ /\ op \in DOMAIN Seeks /\ q = LookupBody(op)
       /\ IF op = "lookup_participant" THEN self = None ELSE self \in Objects
    \/ op = "find_topic_description" /\ q = LookupBody(op) /\ self \in Objects
    \/ /\ op = "contains" /\ self \in Objects
       /\ q \in {LookupBody("contains"), <<"writer", "return">>, <<"reader", "return">>}

NewCall(g, op, self, for, q) ==
    /\ g \in CallFrames /\ FrameShape(g) /\ g.op = op /\ g.self = self /\ g.for = for
    /\ g.todo = q /\ g.rest = {} /\ g.ref = None /\ g.key = None /\ g.found = {} /\ g.loose = {}
    /\ g.todo \notin Leaving2 /\ g.op # "close" /\ ~Plain(g) /\ ~Destructor(g)

LEMMA Starts ==
    ASSUME NEW op, NEW self, NEW for \in Subjects, NEW q, StartsWith(op, self, q),
           NEW g, g = Call(op, self, for, q)
    PROVE  NewCall(g, op, self, for, q)
<1>0. \/ /\ op \in DOMAIN Seeks /\ q = LookupBody(op)
         /\ IF op = "lookup_participant" THEN self = None ELSE self \in Objects
      \/ op = "find_topic_description" /\ q = LookupBody(op) /\ self \in Objects
      \/ /\ op = "contains" /\ self \in Objects
         /\ q \in {LookupBody("contains"), <<"writer", "return">>, <<"reader", "return">>}
  BY DEF StartsWith
<1>1. /\ g.op = op /\ g.self = self /\ g.for = for
      /\ g.todo = q /\ g.rest = {} /\ g.ref = None /\ g.key = None /\ g.found = {} /\ g.loose = {}
  BY DEF Call
<1>2. op \in Lookups /\ op # "close" /\ self \in Objects \cup {None}
  BY <1>0, SeeksFacts
<1>3. q \in Seq(StageNames) => g \in CallFrames
  BY <1>2 DEF Call, CallFrames
<1>4. ~Plain(g) /\ ~Destructor(g)
  BY <1>1, <1>2 DEF Plain, Destructor
<1>5. CASE op \in DOMAIN Seeks
  <2> DEFINE sort == Seeks[op]
  <2>1. sort \in SoughtSorts
    BY <1>0, <1>5, SeeksFacts DEF SoughtSorts
  <2>2. q \in {<<"lock", sort, "return">>, <<sort, "return">>} /\ (q[1] = "lock" => HasLock(op))
    BY <1>0, <1>5, LookupLiterals, SeeksFacts
  <2>3. HasLock(op) => op # "lookup_participant"
    BY DEF HasLock
  <2>a. op # "contains" /\ op # "find_topic_description"
    BY <1>5, SeeksFacts
  <2>4. q[1] = "lock" => self \in Objects
    BY <1>0, <1>5, <2>2, <2>3, <2>a
  <2> HIDE DEF sort
  <2>5. q \in FindTodos(sort) /\ q[1] \in {"lock", sort} /\ q \notin Leaving2
        /\ sort \notin {"test", "name"}
    BY <2>1, <2>2, FindForms
  <2>6. q \in Seq(StageNames) /\ q # << >>
    BY <2>1, <2>5, FindStages
  <2>7. FindShape(g)
    BY <1>1, <2>4, <2>5 DEF FindShape, sort
  <2>8. FrameShape(g)
    BY <1>1, <1>2, <2>6, <2>7, <2>a DEF FrameShape
  <2> QED
    BY <1>1, <1>2, <1>3, <1>4, <2>5, <2>6, <2>8, <2>a DEF NewCall
<1>6. CASE op = "find_topic_description"
  <2>1. q = <<"first", "return">> /\ self \in Objects
    BY <1>0, <1>6, LookupLiterals, SeeksFacts
  <2>2. q \in TwiceTodos
    BY <2>1 DEF TwiceTodos
  <2>3. q[1] = "first" /\ q # << >>
    BY <2>1
  <2>4. q \in Seq(StageNames)
    BY <2>2, TwiceStages
  <2>5. q \notin Leaving2
    BY <2>3, LeavingStages
  <2>6. TwiceShape(g)
    BY <1>1, <2>1, <2>2 DEF TwiceShape
  <2>7. op \notin DOMAIN Seeks /\ op # "contains"
    BY <1>6, SeeksFacts
  <2>8. FrameShape(g)
    BY <1>1, <1>2, <2>3, <2>6, <2>7 DEF FrameShape
  <2> QED
    BY <1>1, <1>2, <1>3, <1>4, <1>6, <2>1, <2>4, <2>5, <2>7, <2>8 DEF NewCall
<1>7. CASE op = "contains"
  <2>1. q \in {LookupBody("contains"), <<"writer", "return">>, <<"reader", "return">>} /\ self \in Objects
    BY <1>0, <1>7, SeeksFacts
  <2>2. ContainsTodo(q) /\ q # << >> /\ q \in Seq(StageNames) /\ q \notin Leaving2
        /\ q[1] \notin {"test", "release"} /\ (q # LookupBody("contains") => q[1] # "lock")
    BY <2>1, LookupLiterals
  <2>6. ContainsShape(g)
    BY <1>1, <2>1, <2>2 DEF ContainsShape
  <2>7. op \notin DOMAIN Seeks /\ op # "find_topic_description"
    BY <1>7, SeeksFacts
  <2>8. FrameShape(g)
    BY <1>1, <1>2, <2>2, <2>6, <2>7 DEF FrameShape
  <2> QED
    BY <1>1, <1>2, <1>3, <1>4, <2>2, <2>7, <2>8 DEF NewCall
<1>8. op \in DOMAIN Seeks \/ op = "find_topic_description" \/ op = "contains"
  BY <1>0
<1> QED
  BY <1>5, <1>6, <1>7, <1>8

DestroyFrame(o, closed) ==
    [CloseCall(o) EXCEPT !.todo = (IF closed THEN << >> ELSE @) \o <<"forget">>]

LEMMA CloseStarts ==
    ASSUME NEW o \in Objects, NEW closed \in BOOLEAN,
           NEW g, \/ g = CloseCall(o)
                  \/ g = DestroyFrame(o, closed)
    PROVE  /\ g \in CallFrames /\ FrameShape(g) /\ g.op = "close" /\ g.self = o
           /\ g.rest = {} /\ g.ref = None /\ g.key = None /\ g.found = {} /\ g.loose = {}
           /\ Sort[o] # "discovered" => ~FinishesPast(g.todo, "unlist")
           /\ Sort[o] = "topic" => ~FinishesPast(g.todo, "dependents")
           /\ g = CloseCall(o) => Plain(g)
           /\ g # CloseCall(o) => Destructor(g)
<1> DEFINE sort == Sort[o]
           body == CloseBody(sort)
           q == IF g = CloseCall(o) THEN body ELSE (IF closed THEN << >> ELSE body) \o <<"forget">>
<1>1. sort \in Sorts /\ None \in Subjects
  BY LookupAssumption DEF Subjects
<1>2. /\ StartsWell(body, sort) /\ StartsWell(body \o <<"forget">>, sort)
      /\ StartsWell(<< >> \o <<"forget">>, sort)
      /\ EndOf(body) = "finish" /\ EndOf(body \o <<"forget">>) = "forget"
      /\ EndOf(<< >> \o <<"forget">>) = "forget"
  BY <1>1, CloseLiterals
<1> HIDE DEF sort
<1>3. StartsWell(q, sort) /\ (EndOf(q) = "forget" <=> g # CloseCall(o))
  <2>1. CASE g = CloseCall(o)
    <3>1. "finish" # "forget"
      OBVIOUS
    <3> HIDE DEF body
    <3> QED
      BY <1>2, <2>1, <3>1
  <2>2. CASE g # CloseCall(o) /\ closed
    <3> HIDE DEF body
    <3> QED
      BY <1>2, <2>2
  <2>3. CASE g # CloseCall(o) /\ ~closed
    <3> HIDE DEF body
    <3> QED
      BY <1>2, <2>3
  <2> QED
    BY <2>1, <2>2, <2>3
<1>4. /\ g.op = "close" /\ g.self = o /\ g.for = None /\ g.todo = q
      /\ g.rest = {} /\ g.ref = None /\ g.key = None /\ g.found = {} /\ g.loose = {}
      /\ g = [op |-> "close", self |-> o, for |-> None, todo |-> q, rest |-> {}, ref |-> None,
              key |-> None, found |-> {}, loose |-> {}]
  <2>1. CASE g = CloseCall(o)
    BY <2>1 DEF CloseCall, Call, sort
  <2>2. CASE g # CloseCall(o)
    <3> DEFINE p == (IF closed THEN << >> ELSE body) \o <<"forget">>
    <3>1. CloseCall(o) = [op |-> "close", self |-> o, for |-> None, todo |-> body, rest |-> {},
                          ref |-> None, key |-> None, found |-> {}, loose |-> {}]
      BY DEF CloseCall, Call, sort
    <3>2. g = [CloseCall(o) EXCEPT !.todo = (IF closed THEN << >> ELSE @) \o <<"forget">>]
      BY <2>2 DEF DestroyFrame
    <3> HIDE DEF body
    <3>3. g = [CloseCall(o) EXCEPT !.todo = p]
      BY <3>1, <3>2
    <3>4. q = p
      BY <2>2
    <3> HIDE DEF p, q
    <3>5. g = [[op |-> "close", self |-> o, for |-> None, todo |-> body, rest |-> {},
                ref |-> None, key |-> None, found |-> {}, loose |-> {}] EXCEPT !.todo = p]
      BY <3>1, <3>3
    <3>6. g = [op |-> "close", self |-> o, for |-> None, todo |-> p, rest |-> {},
               ref |-> None, key |-> None, found |-> {}, loose |-> {}]
      BY <3>5
    <3> QED
      BY <3>4, <3>6
  <2> QED
    BY <2>1, <2>2
<1> HIDE DEF q
<1>5. CloseTodo(q) /\ q # << >> /\ q \in Seq(StageNames)
  BY <1>3, StageSets DEF StartsWell
<1>6. g \in CallFrames
  BY <1>1, <1>4, <1>5 DEF CallFrames
<1>7. Destructor(g) <=> g # CloseCall(o)
  BY <1>3, <1>4 DEF Destructor, EndOf
<1>8. (\E i \in 1 .. Len(q) : q[i] = "uncount") => About[o] # None
  BY <1>3, LookupAssumption DEF StartsWell, sort
<1>9. CloseShape(g)
  BY <1>4, <1>5, <1>8 DEF CloseShape
<1>10. "close" \notin DOMAIN Seeks
  BY SeeksFacts
<1>11. FrameShape(g)
  BY <1>4, <1>5, <1>9, <1>10 DEF FrameShape
<1>12. /\ sort # "discovered" => ~FinishesPast(q, "unlist")
       /\ sort = "topic" => ~FinishesPast(q, "dependents")
  BY <1>3 DEF StartsWell
<1> QED
  BY <1>4, <1>6, <1>7, <1>11, <1>12 DEF Plain, sort

-----------------------------------------------------------------------------
(* Steps: caller c has stack t next.                                       *)
Moves(c, t) == frames' = [frames EXCEPT ![c] = t]

LEMMA Moved ==
    ASSUME CallTypes, CallStacks, NEW c \in Callers, NEW t, StackShape(t), Moves(c, t)
    PROVE  /\ frames' \in [Callers -> Seq(CallFrames)] /\ CallStacks'
           /\ frames'[c] = t /\ \A d \in Callers : d # c => frames'[d] = frames[d]
<1>1. frames \in [Callers -> Seq(CallFrames)] /\ t \in Seq(CallFrames)
  BY DEF CallTypes, StackShape
<1>2. /\ frames' \in [Callers -> Seq(CallFrames)]
      /\ frames'[c] = t /\ \A d \in Callers : d # c => frames'[d] = frames[d]
  BY <1>1 DEF Moves
<1>3. ASSUME NEW d \in Callers
      PROVE  StackShape(frames'[d])
  BY <1>2 DEF CallStacks
<1> QED
  BY <1>2, <1>3 DEF CallStacks

LEMMA TopFrame ==
    ASSUME CallTypes, CallStacks, NEW c \in Callers, InCall(c),
           NEW s, s = frames[c], NEW f, f = Top(c), NEW q, q = Tail(s)
    PROVE  /\ s # << >> /\ StackShape(s) /\ f = s[1] /\ f \in CallFrames /\ FrameShape(f)
           /\ f \in FramesOf(s) /\ StackShape(q) /\ Fits(f, q)
           /\ FramesOf(s) = {f} \cup FramesOf(q)
           /\ BaseOf(s) = IF q = << >> THEN f ELSE BaseOf(q)
           /\ q = << >> <=> Len(s) = 1
           /\ Len(s) \in Nat \ {0} /\ s \in Seq(CallFrames) /\ q \in Seq(CallFrames)
           /\ Len(q) = Len(s) - 1
<1>1. s # << >> /\ StackShape(s) /\ f = Head(s)
  BY DEF InCall, Top, CallStacks
<1>2. /\ s[1] \in CallFrames /\ FrameShape(s[1]) /\ s[1] \in FramesOf(s) /\ Head(s) = s[1]
      /\ StackShape(q) /\ Fits(s[1], q)
      /\ FramesOf(s) = {s[1]} \cup FramesOf(q)
      /\ BaseOf(s) = IF q = << >> THEN s[1] ELSE BaseOf(q)
      /\ q = << >> <=> Len(s) = 1
      /\ Len(s) \in Nat \ {0}
  BY <1>1, PoppedStack
<1>3. s \in Seq(CallFrames)
  BY <1>1 DEF StackShape
<1>4. q \in Seq(CallFrames) /\ Len(q) = Len(s) - 1
  BY <1>1, <1>3, OffStack
<1> QED
  BY <1>1, <1>2, <1>3, <1>4

(* The function on top goes on.                                            *)
LEMMA Replaced ==
    ASSUME CallTypes, CallStacks, NEW c \in Callers, InCall(c), NEW g, Continues(Top(c), g)
    PROVE  LET t == <<g>> \o Tail(frames[c])
           IN  /\ StackShape(t) /\ t # << >> /\ t[1] = g /\ Tail(t) = Tail(frames[c])
               /\ FramesOf(t) = {g} \cup FramesOf(Tail(frames[c]))
               /\ AskOf(BaseOf(t)) = AskOf(BaseOf(frames[c])) /\ BaseOf(t).op = BaseOf(frames[c]).op
               /\ g \in CallFrames /\ FrameShape(g) /\ Fits(g, Tail(frames[c]))
<1> DEFINE t == <<g>> \o Tail(frames[c])
           s == frames[c]
           f == Top(c)
<1>1. s # << >> /\ StackShape(s) /\ f = s[1]
  BY TopFrame
<1>a. t = <<g>> \o Tail(s) /\ Continues(f, g)
  OBVIOUS
<1> HIDE DEF s, f, t
<1>2. /\ g \in CallFrames /\ FrameShape(g) /\ g.op = f.op /\ g.self = f.self /\ g.for = f.for
      /\ Plain(g) => Plain(f)
      /\ g.op = "contains" => g.todo[1] # "lock"
  BY <1>a DEF Continues
<1>b. /\ g.op = s[1].op /\ g.self = s[1].self /\ g.for = s[1].for
      /\ Plain(g) => Plain(s[1])
  BY <1>1, <1>2
<1>3. /\ StackShape(t) /\ t # << >> /\ t[1] = g /\ Tail(t) = Tail(s)
      /\ FramesOf(t) = {g} \cup FramesOf(Tail(s))
      /\ AskOf(BaseOf(t)) = AskOf(BaseOf(s)) /\ BaseOf(t).op = BaseOf(s).op
  <2> DEFINE u == <<g>> \o Tail(s)
  <2>1. /\ StackShape(u) /\ u # << >> /\ u[1] = g /\ Tail(u) = Tail(s)
        /\ FramesOf(u) = {g} \cup FramesOf(Tail(s))
        /\ AskOf(BaseOf(u)) = AskOf(BaseOf(s)) /\ BaseOf(u).op = BaseOf(s).op
    BY <1>1, <1>2, <1>b, ReplacedTop
  <2>2. t = u
    BY <1>a
  <2> QED
    BY <2>1, <2>2
<1>4. Fits(g, Tail(s))
  BY <1>3, PoppedStack
<1> QED
  BY <1>2, <1>3, <1>4 DEF s, t

(* The next stage, whatever the function is.                               *)
SameFields(f, g) ==
    /\ g.ref = f.ref /\ g.found = f.found /\ g.key = f.key /\ g.loose = f.loose

Stays(q, r) ==
    /\ \A st \in {"unlist", "dependents"} : FinishesPast(r, st) /\ q[1] # st => FinishesPast(q, st)
    /\ q[1] = "uncount" => ClearFrom(r, 1)
    /\ q[1] = "unlist" /\ ClearFrom(q, 1) => ClearFrom(r, 1)

LEMMA Proceeds ==
    ASSUME NEW f \in CallFrames, FrameShape(f), f.loose = {},
           f.todo[1] \in {"lock", "release", "each", "dependents", "unlist", "uncount", "finish"},
           f.todo[1] \in {"release", "finish"} => Len(f.todo) # 1,
           NEW g, \/ f.todo[1] # "each" /\ g = Done(f)
                  \/ f.todo[1] = "each" /\ g = [Done(f) EXCEPT !.rest = {}]
    PROVE  /\ Continues(f, g) /\ g.todo = Tail(f.todo) /\ Len(f.todo) > 1
           /\ SameFields(f, g) /\ g.rest = IF f.todo[1] = "each" THEN {} ELSE f.rest
           /\ f.op # "close" => f.ref = None
           /\ f.op = "close" => Stays(f.todo, g.todo)
           /\ f.todo[1] \in {"dependents", "unlist", "uncount", "finish"} => f.op = "close"
<1> DEFINE q == f.todo
<1>1. Len(q) # 1 => Len(q) > 1
  <2>1. Len(q) \in Nat \ {0}
    BY Ops
  <2>2. \A n \in Nat \ {0} : n # 1 => n > 1
    OBVIOUS
  <2> QED
    BY <2>1, <2>2
<1>2. /\ SameFields(f, g) /\ g.todo = Tail(q) /\ g.rest = IF q[1] = "each" THEN {} ELSE f.rest
  BY DEF CallFrames, Done, SameFields
<1>3. CASE f.op = "close"
  <2> DEFINE R == IF q[1] = "each" THEN {} ELSE f.rest
  <2>1. R \subseteq f.rest /\ g = [Done(f) EXCEPT !.rest = R]
    BY DEF CallFrames, Done
  <2>2. q[1] \notin {"finish", "release", "forget"} \/ Len(q) > 1
    BY <1>1
  <2> HIDE DEF R
  <2>3. Continues(f, g) /\ Len(q) > 1
    BY <1>3, <2>1, <2>2, CloseGoesOn
  <2>4. CloseTodo(q) /\ q # << >>
    BY <1>3, Ops DEF CloseShape
  <2>5. Stays(q, Tail(q))
    BY <2>3, <2>4, CloseTail DEF Stays
  <2> QED
    BY <1>2, <1>3, <2>3, <2>5
<1>4. CASE f.op # "close"
  <2>1. q[1] \in {"lock", "release", "each"}
    <3>1. CASE f.op \in DOMAIN Seeks
      <4> DEFINE sort == Seeks[f.op]
      <4>1. q \in FindTodos(sort) /\ sort \in SoughtSorts
        BY <3>1, Ops DEF FindShape
      <4> HIDE DEF sort, q
      <4>2. q[1] \in {"lock", sort, "each", "test", "name", "release", "return", "unwind"}
        BY <4>1, FindStages
      <4>3. sort \notin {"dependents", "unlist", "uncount", "finish"}
        BY <4>1, FindForms
      <4> QED
        BY <4>2, <4>3 DEF q
    <3>2. CASE f.op = "find_topic_description"
      <4>1. q \in TwiceTodos
        BY <3>2, Ops DEF TwiceShape
      <4>2. q[1] \in {"first", "second", "release", "return", "unwind"}
        BY <4>1, TwiceStages
      <4> QED
        BY <4>2
    <3>3. CASE f.op = "contains"
      <4>1. q[1] \in ContainsStages \cup {"unwind"}
        BY <3>3, NotContains
      <4>2. {"dependents", "unlist", "uncount", "finish"} \cap (ContainsStages \cup {"unwind"}) = {}
        BY DEF ContainsStages, Sorts, Containers
      <4> QED
        BY <4>1, <4>2
    <3> QED
      BY <1>4, <3>1, <3>2, <3>3, Ops
  <2>2. Len(q) > 1
    <3>1. CASE f.op = "contains" /\ q[1] # "release"
      <4>1. ContainsTodo(q) /\ q # << >> /\ q[1] \notin {"return", "unwind"}
        BY <2>1, <3>1, Ops DEF ContainsShape
      <4> HIDE DEF q
      <4> QED
        BY <4>1, ContainsTail
    <3>2. CASE f.op \in DOMAIN Seeks
      <4> DEFINE sort == Seeks[f.op]
      <4>1. q \in FindTodos(sort) /\ sort \in SoughtSorts
        BY <3>2, Ops DEF FindShape
      <4> HIDE DEF sort, q
      <4>2. Len(q) = 1 <=> q[1] \in {"return", "unwind"}
        BY <4>1, FindStages
      <4> QED
        BY <1>1, <2>1, <4>2 DEF q
    <3>3. CASE f.op = "find_topic_description"
      <4>1. q \in TwiceTodos
        BY <3>3, Ops DEF TwiceShape
      <4>2. Len(q) = 1 <=> q[1] \in {"return", "unwind"}
        BY <4>1, TwiceStages
      <4> QED
        BY <1>1, <2>1, <4>2
    <3>4. CASE q[1] = "release"
      BY <1>1, <3>4
    <3> QED
      BY <1>4, <3>1, <3>2, <3>3, <3>4, Ops
  <2>3. \/ q[1] \in {"lock", "release"} /\ Len(q) > 1 /\ g = Done(f)
        \/ q[1] = "each" /\ g = [Done(f) EXCEPT !.rest = {}]
    BY <2>1, <2>2
  <2>4. Continues(f, g) /\ f.ref = None
    BY <1>4, <2>3, LookupGoesOn
  <2> QED
    BY <1>2, <1>4, <2>1, <2>2, <2>4
<1> QED
  BY <1>3, <1>4

(* What a step leaves alone, and a function that goes on in its place.     *)
Aside ==
    /\ refs' = refs /\ fate' = fate /\ setsHeld' = setsHeld /\ listed' = listed
    /\ using' = using /\ answer' = answer

Still == steady' = steady /\ closing' = closing

StepsOn(c, g) ==
    InCall(c) /\ Continues(Top(c), g) /\ Moves(c, <<g>> \o Tail(frames[c]))

LEMMA Advanced ==
    ASSUME CallTypes, CallStacks, NEW c \in Callers, NEW g, StepsOn(c, g)
    PROVE  /\ frames' \in [Callers -> Seq(CallFrames)] /\ CallStacks'
           /\ frames'[c] = <<g>> \o Tail(frames[c])
           /\ \A d \in Callers : d # c => frames'[d] = frames[d]
           /\ frames'[c] # << >> /\ frames[c] # << >>
           /\ FramesOf(frames'[c]) = {g} \cup FramesOf(Tail(frames[c]))
           /\ FramesOf(frames[c]) = {Top(c)} \cup FramesOf(Tail(frames[c]))
           /\ AskOf(BaseOf(frames'[c])) = AskOf(BaseOf(frames[c]))
           /\ BaseOf(frames'[c]).op = BaseOf(frames[c]).op
           /\ Fits(g, Tail(frames[c])) /\ Fits(Top(c), Tail(frames[c]))
<1> DEFINE t == <<g>> \o Tail(frames[c])
<1>1. InCall(c) /\ Continues(Top(c), g) /\ Moves(c, t)
  BY DEF StepsOn
<1>2. /\ StackShape(t) /\ t # << >>
      /\ FramesOf(t) = {g} \cup FramesOf(Tail(frames[c]))
      /\ AskOf(BaseOf(t)) = AskOf(BaseOf(frames[c])) /\ BaseOf(t).op = BaseOf(frames[c]).op
      /\ Fits(g, Tail(frames[c]))
  BY <1>1, Replaced
<1> HIDE DEF t
<1>3. /\ frames' \in [Callers -> Seq(CallFrames)] /\ CallStacks'
      /\ frames'[c] = t /\ \A d \in Callers : d # c => frames'[d] = frames[d]
  BY <1>1, <1>2, Moved
<1>4. /\ FramesOf(frames[c]) = {Top(c)} \cup FramesOf(Tail(frames[c]))
      /\ frames[c] # << >> /\ Fits(Top(c), Tail(frames[c]))
  BY <1>1, TopFrame
<1> QED
  BY <1>2, <1>3, <1>4 DEF t

LEMMA LooseIs ==
    ASSUME NEW c, NEW n, NEW x
    PROVE  x \in Loose(c, n) <=>
              /\ x # None
              /\ \E i \in 1 .. n :
                    x \in frames[c][i].loose \cup {frames[c][i].ref} \cup Held(frames[c][i])
<1> DEFINE W == {frames[c][i].loose \cup {frames[c][i].ref} \cup Held(frames[c][i]) : i \in 1 .. n}
<1>1. Loose(c, n) = (UNION W) \ {None}
  BY DEF Loose
<1>2. ASSUME NEW w \in W
      PROVE  \E i \in 1 .. n : w = frames[c][i].loose \cup {frames[c][i].ref} \cup Held(frames[c][i])
  OBVIOUS
<1>3. ASSUME NEW i \in 1 .. n
      PROVE  frames[c][i].loose \cup {frames[c][i].ref} \cup Held(frames[c][i]) \in W
  OBVIOUS
<1> HIDE DEF W
<1>4. x \in UNION W <=> \E w \in W : x \in w
  OBVIOUS
<1>5. x \in Loose(c, n) <=> x # None /\ \E w \in W : x \in w
  BY <1>1, <1>4
<1> QED
  BY <1>2, <1>3, <1>5

(* An exception: it is caught on top, or it ends a stack of close() calls. *)
LEMMA ThrowEffect ==
    ASSUME CallTypes, CallStacks, NEW c \in Callers, InCall(c), Throw(c),
           Top(c).op # "find_topic_description",
           NEW f, f = Top(c), NEW s, s = frames[c]
    PROVE  /\ Aside /\ Still /\ locked' \in [Objects -> Callers \cup {None}]
           /\ \/ /\ ~Plain(f)
                 /\ \E g : /\ StepsOn(c, g)
                           /\ g.loose = (f.loose \cup {f.ref} \cup Held(f)) \ {None}
                           /\ g.found = {} /\ g.ref = None /\ g.rest = f.rest /\ g.key = f.key
                           /\ f.op # "close" => g.todo = <<"release", "unwind">>
                           /\ f.op = "close" => g.todo = <<"release", "forget">>
              \/ /\ Plain(f)
                 /\ \A h \in FramesOf(s) : Plain(h) /\ (h = f \/ h.todo[1] = "release")
                 /\ \E g : /\ Moves(c, <<g>>) /\ StackShape(<<g>>) /\ Plain(g)
                           /\ FramesOf(<<g>>) = {g} /\ BaseOf(<<g>>) = g
                           /\ g.self = BaseOf(s).self /\ g.todo = <<"release">>
                           /\ BaseOf(s) \in FramesOf(s)
<1> DEFINE all == Len(s)
           n == IF \E i \in 1 .. all : Catcher(c, i) THEN CHOOSE i \in 1 .. all : Catcher(c, i)
                ELSE all
           L == Loose(c, n)
           h == s[n]
           last == [h EXCEPT !.ref = None, !.found = {}, !.loose = L,
                    !.todo = IF @[Len(@)] = "forget" THEN <<"release", "forget">>
                             ELSE IF h.op = "close" THEN <<"release">>
                             ELSE <<"release", "unwind">>]
<1>1. /\ s # << >> /\ StackShape(s) /\ f = s[1] /\ f \in CallFrames /\ FrameShape(f)
      /\ Fits(f, Tail(s)) /\ StackShape(Tail(s))
      /\ FramesOf(s) = {f} \cup FramesOf(Tail(s))
      /\ all \in Nat \ {0} /\ s \in Seq(CallFrames)
  BY TopFrame
<1>2. Aside /\ Still
  BY DEF Throw, Aside, Still, Undisturbed
<1>3. locked' \in [Objects -> Callers \cup {None}]
  BY DEF Throw, CallTypes
<1>4. Moves(c, <<last>> \o SubSeq(s, n + 1, all))
  BY DEF Throw, Moves
<1>5. \A i \in 1 .. all : s[i] \in CallFrames /\ FrameShape(s[i])
  BY <1>1, ElementOfSeq DEF StackShape
<1>6. ASSUME NEW m \in 1 .. all
      PROVE  Loose(c, m) \in SUBSET Objects
  <2>1. \A i \in 1 .. m : i \in 1 .. all
    BY <1>1
  <2>2. ASSUME NEW i \in 1 .. m
        PROVE  (s[i].loose \cup {s[i].ref} \cup Held(s[i])) \ {None} \subseteq Objects
    <3>1. s[i].loose \in SUBSET Objects /\ s[i].ref \in Objects \cup {None} /\ s[i].found \in SUBSET Objects
      BY <1>5, <2>1, Ops
    <3> QED
      BY <3>1 DEF Held
  <2>3. ASSUME NEW x \in Loose(c, m)
        PROVE  x \in Objects
    <3>1. PICK i \in 1 .. m : x \in s[i].loose \cup {s[i].ref} \cup Held(s[i]) /\ x # None
      BY <2>3, LooseIs
    <3> QED
      BY <2>2, <3>1
  <2> QED
    BY <2>3
<1>7. Catches(f) <=> ~Plain(f)
  BY <1>1, Ops DEF Catches, Plain
<1>8. CASE ~Plain(f)
  <2>1. n = 1
    <3>1. 1 \in 1 .. all /\ 1 .. 1 - 1 = {}
      BY <1>1
    <3>2. Catcher(c, 1)
      BY <1>1, <1>7, <1>8, <3>1 DEF Catcher
    <3>3. ASSUME NEW i \in 1 .. all, Catcher(c, i)
          PROVE  i = 1
      <4>1. i # 1 => 1 \in 1 .. i - 1
        OBVIOUS
      <4> QED
        BY <1>1, <1>7, <1>8, <3>3, <4>1 DEF Catcher
    <3> HIDE DEF all
    <3> QED
      BY <3>1, <3>2, <3>3
  <2>2. h = f /\ SubSeq(s, n + 1, all) = Tail(s)
    <3>1. SubSeq(s, 2, Len(s)) = Tail(s)
      BY <1>1, StackForms
    <3> HIDE DEF n
    <3>2. n + 1 = 2
      BY <2>1
    <3> QED
      BY <1>1, <2>1, <3>1, <3>2
  <2>3. L = (f.loose \cup {f.ref} \cup Held(f)) \ {None}
    <3>1. Loose(c, 1) = (s[1].loose \cup {s[1].ref} \cup Held(s[1])) \ {None}
      <4> DEFINE P == (s[1].loose \cup {s[1].ref} \cup Held(s[1])) \ {None}
      <4>1. \A i \in 1 .. 1 : i = 1
        OBVIOUS
      <4>2. 1 \in 1 .. 1
        OBVIOUS
      <4>3. ASSUME NEW x \in Loose(c, 1)
            PROVE  x \in P
        <5>1. PICK i \in 1 .. 1 : x \in s[i].loose \cup {s[i].ref} \cup Held(s[i]) /\ x # None
          BY <4>3, LooseIs
        <5> QED
          BY <4>1, <5>1
      <4>4. ASSUME NEW x \in P
            PROVE  x \in Loose(c, 1)
        BY <4>2, <4>4, LooseIs
      <4> QED
        BY <4>3, <4>4
    <3> HIDE DEF n
    <3> QED
      BY <1>1, <2>1, <3>1
  <2>4. L \in SUBSET Objects
    <3>1. n \in 1 .. all
      BY <1>1, <2>1
    <3> HIDE DEF n
    <3> QED
      BY <1>6, <3>1
  <2>5. Destructor(f) => L = {}
    <3>1. Destructor(f) => f.loose = {} /\ f.ref = None /\ f.found = {} /\ f.op = "close"
      BY <1>1, Ops DEF CloseShape, Destructor
    <3> HIDE DEF L
    <3> QED
      BY <2>3, <3>1 DEF Held
  <2> DEFINE g == last
  <2> HIDE DEF L, n, h
  <2>6. g = ThrownFrame(f, L)
    BY <2>2 DEF ThrownFrame
  <2> HIDE DEF g
  <2>7. /\ Continues(f, g) /\ g.todo[1] = "release"
        /\ g.loose = L /\ g.found = {} /\ g.ref = None /\ g.rest = f.rest /\ g.key = f.key
        /\ f.op # "close" => g.todo = <<"release", "unwind">>
        /\ f.op = "close" => g.todo = IF Destructor(f) THEN <<"release", "forget">> ELSE <<"release">>
    BY <1>1, <2>4, <2>5, <2>6, Thrown
  <2>8. Moves(c, <<g>> \o Tail(s))
    BY <1>4, <2>2 DEF g
  <2>9. StepsOn(c, g)
    BY <2>7, <2>8 DEF StepsOn
  <2>10. f.op = "close" => Destructor(f)
    BY <1>8 DEF Plain
  <2> QED
    BY <1>2, <1>3, <1>8, <2>3, <2>7, <2>9, <2>10
<1>9. CASE Plain(f)
  <2>1. \A i \in 1 .. Len(Tail(s)) : Plain(Tail(s)[i]) /\ Tail(s)[i].todo[1] = "release"
    BY <1>1, <1>9 DEF Fits
  <2>2. \A x \in FramesOf(Tail(s)) : Plain(x) /\ x.todo[1] = "release"
    BY <2>1 DEF FramesOf
  <2>3. \A x \in FramesOf(s) : Plain(x) /\ (x = f \/ x.todo[1] = "release")
    BY <1>1, <1>9, <2>2
  <2>4. \A i \in 1 .. all : Plain(s[i])
    BY <2>3 DEF FramesOf
  <2>5. \A i \in 1 .. all : ~Catcher(c, i)
    BY <2>4 DEF Catcher, Catches, Plain
  <2>6. n = all
    BY <2>5
  <2>7. h = BaseOf(s) /\ SubSeq(s, n + 1, all) = << >> /\ BaseOf(s) \in FramesOf(s)
        /\ h \in CallFrames /\ FrameShape(h) /\ Plain(h)
    <3>1. SubSeq(s, Len(s) + 1, Len(s)) = << >>
      BY <1>1, StackForms
    <3>2. all \in 1 .. all
      BY <1>1
    <3> HIDE DEF n
    <3> QED
      BY <1>5, <2>4, <2>6, <3>1, <3>2 DEF BaseOf, FramesOf
  <2>8. L \in SUBSET Objects
    <3>1. all \in 1 .. all
      BY <1>1
    <3> HIDE DEF n
    <3> QED
      BY <1>6, <2>6, <3>1
  <2> DEFINE g == last
             t == <<g>> \o << >>
  <2> HIDE DEF L, n
  <2>9. ~Destructor(h) /\ h.op = "close"
    BY <2>7 DEF Plain
  <2> HIDE DEF h
  <2>a. g = ThrownFrame(h, L)
    BY DEF ThrownFrame
  <2>b. h.op # "find_topic_description"
    BY <2>9
  <2> HIDE DEF g
  <2>10. /\ Continues(h, g) /\ g.todo = IF Destructor(h) THEN <<"release", "forget">> ELSE <<"release">>
    BY <2>7, <2>8, <2>9, <2>a, <2>b, Thrown
  <2>11. g \in CallFrames /\ FrameShape(g) /\ Plain(g) /\ g.self = h.self /\ g.todo = <<"release">>
         /\ g.op = "close"
    BY <2>7, <2>9, <2>10 DEF Continues
  <2>12. Fits(g, << >>)
    <3>1. Len(<< >>) = 0 /\ 1 .. 0 = {} /\ "close" \notin DOMAIN Seeks
      BY SeeksFacts
    <3> QED
      BY <2>11, <3>1 DEF Fits
  <2>13. /\ StackShape(t) /\ FramesOf(t) = {g} \cup FramesOf(<< >>) /\ BaseOf(t) = g
    BY <2>11, <2>12, NoStack, PushedStack
  <2>14. t = <<g>>
    BY <1>1, <2>11, StackForms
  <2>15. Moves(c, t)
    BY <1>4, <2>7 DEF g
  <2>16. FramesOf(<<g>>) = {g}
    BY <2>13, <2>14, NoStack
  <2> QED
    BY <1>2, <1>3, <1>9, <2>3, <2>7, <2>11, <2>13, <2>14, <2>15, <2>16 DEF h
<1> QED
  BY <1>8, <1>9

-----------------------------------------------------------------------------
(* How a stack changes: N are the frames that are new.                     *)
Lower(s) == IF s = << >> THEN {} ELSE FramesOf(Tail(s))

Goes(s, t, N) ==
    /\ StackShape(t)
    /\ FramesOf(t) \subseteq Lower(s) \cup N
    /\ \A h \in Lower(s) : h \in FramesOf(t) \/ h.op # "close" \/ h.todo[1] = "release"
    /\ t # << >> => \/ BaseOf(t).op = "close"
                    \/ s # << >> /\ AskOf(BaseOf(t)) = AskOf(BaseOf(s))
    /\ OwnKeys(s) => OwnKeys(t)

LEMMA OwnKeysTail ==
    ASSUME NEW s, StackShape(s), s # << >>, OwnKeys(s)
    PROVE  /\ OwnKeys(Tail(s))
           /\ s[1].key # None => \A i \in 1 .. Len(Tail(s)) : Tail(s)[i].key # s[1].key
           /\ s[1].key # None => \A h \in FramesOf(Tail(s)) : h.key # s[1].key
<1> DEFINE q == Tail(s)
<1>1. /\ Len(q) = Len(s) - 1 /\ Len(s) \in Nat \ {0}
      /\ \A i \in 1 .. Len(q) : q[i] = s[i + 1]
  BY OffStack DEF StackShape
<1> HIDE DEF q
<1>2. \A i \in 1 .. Len(q) : i + 1 \in 1 .. Len(s) /\ i + 1 # 1
  BY <1>1
<1>3. ASSUME NEW i \in 1 .. Len(q), NEW j \in 1 .. Len(q), q[i].key # None, q[i].key = q[j].key
      PROVE  i = j
  <2>1. i + 1 = j + 1
    BY <1>1, <1>2, <1>3 DEF OwnKeys
  <2> QED
    BY <2>1
<1>4. OwnKeys(q)
  BY <1>3 DEF OwnKeys
<1>5. s[1].key # None => \A i \in 1 .. Len(q) : q[i].key # s[1].key
  <2>1. 1 \in 1 .. Len(s)
    BY <1>1
  <2> QED
    BY <1>1, <1>2, <2>1 DEF OwnKeys
<1> QED
  BY <1>4, <1>5 DEF q, FramesOf

LEMMA OwnKeysPut ==
    ASSUME NEW s, StackShape(s), OwnKeys(s), NEW g \in CallFrames,
           g.key # None => \A i \in 1 .. Len(s) : s[i].key # g.key
    PROVE  OwnKeys(<<g>> \o s)
<1> DEFINE t == <<g>> \o s
<1>1. /\ t[1] = g /\ Len(t) = Len(s) + 1 /\ Len(s) \in Nat
      /\ \A i \in 2 .. Len(t) : t[i] = s[i - 1]
  BY OntoStack, LenProperties DEF StackShape
<1> HIDE DEF t
<1>2. \A i \in 1 .. Len(t) : i = 1 \/ (i \in 2 .. Len(t) /\ i - 1 \in 1 .. Len(s))
  BY <1>1
<1>3. ASSUME NEW i \in 1 .. Len(t), NEW j \in 1 .. Len(t), t[i].key # None, t[i].key = t[j].key
      PROVE  i = j
  <2>1. CASE i # 1 /\ j # 1
    <3>1. i - 1 = j - 1
      BY <1>1, <1>2, <1>3, <2>1 DEF OwnKeys
    <3> QED
      BY <3>1
  <2>2. CASE i = 1 /\ j # 1
    BY <1>1, <1>2, <1>3, <2>2
  <2>3. CASE i # 1 /\ j = 1
    BY <1>1, <1>2, <1>3, <2>3
  <2> QED
    BY <2>1, <2>2, <2>3
<1> QED
  BY <1>3 DEF OwnKeys, t

LEMMA GoesOn ==
    ASSUME NEW s, StackShape(s), s # << >>, NEW g, Continues(s[1], g), g.key \in {s[1].key, None}
    PROVE  LET t == <<g>> \o Tail(s)
           IN  Goes(s, t, {g}) /\ FramesOf(t) = {g} \cup Lower(s) /\ t # << >>
<1> DEFINE t == <<g>> \o Tail(s)
<1>1. g \in CallFrames /\ FrameShape(g) /\ g.op = s[1].op /\ g.self = s[1].self /\ g.for = s[1].for
      /\ (Plain(g) => Plain(s[1])) /\ (g.op = "contains" => g.todo[1] # "lock")
  BY DEF Continues
<1>2. /\ StackShape(t) /\ t # << >>
      /\ FramesOf(t) = {g} \cup FramesOf(Tail(s))
      /\ AskOf(BaseOf(t)) = AskOf(BaseOf(s))
  BY <1>1, ReplacedTop
<1>3. OwnKeys(s) => OwnKeys(t)
  <2> SUFFICES ASSUME OwnKeys(s) PROVE OwnKeys(t)
    OBVIOUS
  <2>1. /\ OwnKeys(Tail(s)) /\ StackShape(Tail(s))
        /\ s[1].key # None => \A i \in 1 .. Len(Tail(s)) : Tail(s)[i].key # s[1].key
    BY OwnKeysTail, PoppedStack
  <2> QED
    BY <1>1, <2>1, OwnKeysPut
<1> HIDE DEF t
<1>4. Lower(s) = FramesOf(Tail(s))
  BY DEF Lower
<1> QED
  BY <1>2, <1>3, <1>4 DEF Goes, t

LEMMA GoesUp ==
    ASSUME NEW s, NEW q, NEW N, Goes(s, q, N), NEW h \in CallFrames, FrameShape(h), Fits(h, q),
           h.key = None, q = << >> => h.op = "close"
    PROVE  LET t == <<h>> \o q
           IN  Goes(s, t, N \cup {h}) /\ FramesOf(t) = {h} \cup FramesOf(q) /\ t # << >>
<1> DEFINE t == <<h>> \o q
<1>1. StackShape(q)
  BY DEF Goes
<1>2. /\ StackShape(t) /\ t # << >>
      /\ FramesOf(t) = {h} \cup FramesOf(q)
      /\ BaseOf(t) = IF q = << >> THEN h ELSE BaseOf(q)
  BY <1>1, PushedStack
<1>3. OwnKeys(q) => OwnKeys(t)
  BY <1>1, OwnKeysPut
<1> HIDE DEF t
<1>4. t # << >> => \/ BaseOf(t).op = "close"
                   \/ s # << >> /\ AskOf(BaseOf(t)) = AskOf(BaseOf(s))
  BY <1>2 DEF Goes
<1> QED
  BY <1>2, <1>3, <1>4 DEF Goes, t

LEMMA GoesDown ==
    ASSUME NEW s, StackShape(s), s # << >>
    PROVE  Goes(s, Tail(s), {}) /\ FramesOf(Tail(s)) = Lower(s)
<1> DEFINE t == Tail(s)
<1>1. StackShape(t) /\ (t # << >> => BaseOf(t) = BaseOf(s))
  BY PoppedStack
<1>2. OwnKeys(s) => OwnKeys(t)
  BY OwnKeysTail
<1>3. Lower(s) = FramesOf(t)
  BY DEF Lower
<1> QED
  BY <1>1, <1>2, <1>3 DEF Goes

LEMMA GoesBack ==
    ASSUME NEW s, StackShape(s), Len(s) > 1, s[2].op # "close",
           NEW g, Continues(s[2], g), g.key = s[2].key
    PROVE  LET t == <<g>> \o Tail(Tail(s))
           IN  /\ Goes(s, t, {g}) /\ t # << >>
               /\ FramesOf(t) = {g} \cup FramesOf(Tail(Tail(s)))
               /\ Lower(s) = {s[2]} \cup FramesOf(Tail(Tail(s)))
               /\ Fits(s[2], Tail(Tail(s)))
               /\ AskOf(BaseOf(t)) = AskOf(BaseOf(s))
<1> DEFINE q == Tail(s)
           t == <<g>> \o Tail(q)
<1>1. s # << >>
  BY EmptySeq DEF StackShape
<1>2. StackShape(q) /\ (q # << >> => BaseOf(q) = BaseOf(s)) /\ (OwnKeys(s) => OwnKeys(q))
  BY <1>1, PoppedStack, OwnKeysTail
<1>3. q # << >> /\ q[1] = s[2]
  <2>1. PICK x : x \in CallFrames
    BY <1>1, PoppedStack
  <2> QED
    BY <1>1, <2>1, StackForms DEF StackShape
<1> HIDE DEF q
<1>4. Goes(q, t, {g}) /\ FramesOf(t) = {g} \cup Lower(q) /\ t # << >>
  BY <1>2, <1>3, GoesOn
<1>5. Lower(q) = FramesOf(Tail(q)) /\ FramesOf(q) = {q[1]} \cup FramesOf(Tail(q)) /\ Fits(q[1], Tail(q))
  BY <1>2, <1>3, PoppedStack DEF Lower
<1>6. Lower(s) = FramesOf(q)
  BY <1>1 DEF Lower, q
<1>7. AskOf(BaseOf(t)) = AskOf(BaseOf(s))
  <2>1. g \in CallFrames /\ FrameShape(g) /\ g.op = q[1].op /\ g.self = q[1].self /\ g.for = q[1].for
        /\ (Plain(g) => Plain(q[1])) /\ (g.op = "contains" => g.todo[1] # "lock")
    BY <1>3 DEF Continues
  <2> QED
    BY <1>2, <1>3, <2>1, ReplacedTop
<1> HIDE DEF t
<1>8. Goes(s, t, {g})
  BY <1>1, <1>2, <1>3, <1>4, <1>5, <1>6, <1>7 DEF Goes
<1> QED
  BY <1>3, <1>4, <1>5, <1>6, <1>7, <1>8 DEF t, q

LEMMA GoesStill ==
    /\ \A s : StackShape(s) /\ s # << >> => Goes(s, s, {s[1]}) /\ FramesOf(s) = {s[1]} \cup Lower(s)
    /\ Goes(<< >>, << >>, {}) /\ FramesOf(<< >>) = {} /\ Lower(<< >>) = {}
<1>1. ASSUME NEW s, StackShape(s), s # << >>
      PROVE  Goes(s, s, {s[1]}) /\ FramesOf(s) = {s[1]} \cup Lower(s)
  <2>1. FramesOf(s) = {s[1]} \cup Lower(s)
    BY <1>1, PoppedStack DEF Lower
  <2> QED
    BY <1>1, <2>1 DEF Goes
<1>2. Goes(<< >>, << >>, {}) /\ FramesOf(<< >>) = {} /\ Lower(<< >>) = {}
  BY NoStack DEF Goes, Lower
<1> QED
  BY <1>1, <1>2

(* The stack of one caller changes.                                        *)
Changes(c, N) ==
    /\ frames' \in [Callers -> Seq(CallFrames)] /\ CallStacks'
    /\ \A d \in Callers : d # c => frames'[d] = frames[d]
    /\ Goes(frames[c], frames'[c], N)

LEMMA Changed ==
    ASSUME CallTypes, CallStacks, NEW c \in Callers, NEW t, NEW N, Moves(c, t),
           Goes(frames[c], t, N)
    PROVE  Changes(c, N) /\ frames'[c] = t
<1>1. StackShape(t)
  BY DEF Goes
<1>2. /\ frames' \in [Callers -> Seq(CallFrames)] /\ CallStacks'
      /\ frames'[c] = t /\ \A d \in Callers : d # c => frames'[d] = frames[d]
  BY <1>1, Moved
<1> QED
  BY <1>2 DEF Changes

LEMMA StepChanges ==
    ASSUME CallTypes, CallStacks, NEW c \in Callers, NEW g, StepsOn(c, g), g.key \in {Top(c).key, None}
    PROVE  /\ Changes(c, {g}) /\ FramesOf(frames'[c]) = {g} \cup Lower(frames[c])
           /\ frames'[c] # << >> /\ frames[c] # << >>
           /\ FramesOf(frames[c]) = {Top(c)} \cup Lower(frames[c])
<1> DEFINE s == frames[c]
           t == <<g>> \o Tail(s)
<1>1. InCall(c) /\ Continues(Top(c), g) /\ Moves(c, t)
  BY DEF StepsOn
<1>2. /\ s # << >> /\ StackShape(s) /\ Top(c) = s[1]
  BY <1>1, TopFrame
<1> HIDE DEF s
<1>3. Goes(s, t, {g}) /\ FramesOf(t) = {g} \cup Lower(s) /\ t # << >>
  BY <1>1, <1>2, GoesOn
<1>4. FramesOf(s) = {s[1]} \cup Lower(s)
  BY <1>2, GoesStill
<1> HIDE DEF t
<1>5. Changes(c, {g}) /\ frames'[c] = t
  BY <1>1, <1>3, Changed DEF s
<1> QED
  BY <1>2, <1>3, <1>4, <1>5 DEF s

(* A frame that takes the mutex of a set.                                  *)
LEMMA AdvancesAnew ==
    ASSUME CallTypes, CallStacks, NEW c \in Callers, NEW g, StepsOn(c, g),
           \A h \in Lower(frames[c]) : h.key # g.key
    PROVE  /\ Changes(c, {g}) /\ FramesOf(frames'[c]) = {g} \cup Lower(frames[c])
           /\ frames'[c] # << >> /\ frames[c] # << >>
<1> DEFINE s == frames[c]
           t == <<g>> \o Tail(s)
<1>1. InCall(c) /\ Continues(Top(c), g) /\ Moves(c, t)
  BY DEF StepsOn
<1>2. /\ s # << >> /\ StackShape(s) /\ Top(c) = s[1]
  BY <1>1, TopFrame
<1>a. \A h \in Lower(s) : h.key # g.key
  OBVIOUS
<1> HIDE DEF s
<1>3. g \in CallFrames /\ FrameShape(g) /\ g.op = s[1].op /\ g.self = s[1].self /\ g.for = s[1].for
      /\ (Plain(g) => Plain(s[1])) /\ (g.op = "contains" => g.todo[1] # "lock")
  BY <1>1, <1>2 DEF Continues
<1>4. /\ StackShape(t) /\ t # << >>
      /\ FramesOf(t) = {g} \cup FramesOf(Tail(s))
      /\ AskOf(BaseOf(t)) = AskOf(BaseOf(s))
  BY <1>2, <1>3, ReplacedTop
<1>5. Lower(s) = FramesOf(Tail(s))
  BY <1>2 DEF Lower
<1>6. OwnKeys(s) => OwnKeys(t)
  <2> SUFFICES ASSUME OwnKeys(s) PROVE OwnKeys(t)
    OBVIOUS
  <2>1. OwnKeys(Tail(s)) /\ StackShape(Tail(s))
    BY <1>2, OwnKeysTail, PoppedStack
  <2>2. \A i \in 1 .. Len(Tail(s)) : Tail(s)[i].key # g.key
    BY <1>5, <1>a DEF FramesOf
  <2> QED
    BY <1>3, <2>1, <2>2, OwnKeysPut
<1> HIDE DEF t
<1>7. Goes(s, t, {g})
  BY <1>2, <1>4, <1>5, <1>6 DEF Goes
<1>8. Changes(c, {g}) /\ frames'[c] = t
  BY <1>1, <1>7, Changed DEF s
<1> QED
  BY <1>2, <1>4, <1>5, <1>8 DEF s

-----------------------------------------------------------------------------
(* What a change of one stack keeps.                                       *)
LEMMA ChangedFrames ==
    ASSUME NEW c \in Callers, NEW N, Changes(c, N)
    PROVE  /\ \A h \in FramesOf(frames'[c]) : h \in Lower(frames[c]) \/ h \in N
           /\ \A h \in Lower(frames[c]) : h \in FramesOf(frames'[c]) \/ h.op # "close" \/ h.todo[1] = "release"
           /\ frames'[c] # << >> => \/ BaseOf(frames'[c]).op = "close"
                                    \/ frames[c] # << >> /\ AskOf(BaseOf(frames'[c])) = AskOf(BaseOf(frames[c]))
           /\ OwnKeys(frames[c]) => OwnKeys(frames'[c])
           /\ \A d \in Callers : d # c => frames'[d] = frames[d]
BY DEF Changes, Goes

LEMMA LowerFrames ==
    ASSUME CallTypes, CallStacks, NEW c \in Callers
    PROVE  /\ Lower(frames[c]) \subseteq FramesOf(frames[c])
           /\ \A h \in FramesOf(frames[c]) : h \in Lower(frames[c]) \/ (InCall(c) /\ h = Top(c))
           /\ InCall(c) => FramesOf(frames[c]) = {Top(c)} \cup Lower(frames[c])
<1>1. CASE InCall(c)
  <2>1. FramesOf(frames[c]) = {Top(c)} \cup FramesOf(Tail(frames[c])) /\ frames[c] # << >>
    BY <1>1, TopFrame
  <2> QED
    BY <1>1, <2>1 DEF Lower
<1>2. CASE ~InCall(c)
  BY <1>2, GoesStill DEF InCall
<1> QED
  BY <1>1, <1>2

LEMMA MoreTokens ==
    ASSUME NEW c, NEW f, NEW R, NEW Q, TokensOf(c, f, R), \A o \in Tokens(f) : c \in R[o] => c \in Q[o]
    PROVE  TokensOf(c, f, Q)
BY DEF TokensOf

LEMMA FrameTokens ==
    ASSUME CallTypes, CallStacks, NEW c \in Callers, NEW f \in FramesOf(frames[c])
    PROVE  /\ f \in CallFrames /\ FrameShape(f) /\ Tokens(f) \subseteq Objects
<1>1. f \in CallFrames /\ FrameShape(f)
  BY ElementOfSeq DEF CallStacks, StackShape, FramesOf
<1>2. f.found \in SUBSET Objects /\ f.loose \in SUBSET Objects /\ f.ref \in Objects \cup {None}
  BY <1>1, Ops
<1> QED
  BY <1>1, <1>2 DEF Tokens

(* References grow, or stay as they are.                                   *)
LEMMA RefsStay ==
    ASSUME CallTypes, CallStacks, References, NEW c \in Callers, NEW N, Changes(c, N),
           \A o \in Objects : refs[o] \subseteq refs'[o] /\ (refs[o] = {} => refs'[o] = {}),
           \A o \in Objects : fate'[o] = fate[o] \/ (fate'[o] = "closed" /\ fate[o] \notin {"gone", "late"}),
           \A d \in Callers : \A o \in steady'[d] : o \in Objects /\ "app" \in refs[o],
           \A h \in N : (Destructor(h) => fate[h.self] = "gone" /\ h.self \in Objects) /\ TokensOf(c, h, refs')
    PROVE  /\ GoneHasNone' /\ HoldersAreHeld' /\ DestroyedIsGone' /\ SteadyIsHeld'
           /\ TokensHeld'
<1>1. GoneHasNone'
  BY DEF References, GoneHasNone
<1>2. HoldersAreHeld'
  <2> SUFFICES ASSUME NEW o \in Objects, refs'[o] # {}, Holder[o] # None
               PROVE  o \in refs'[Holder[o]]
    BY DEF HoldersAreHeld
  <2>1. Holder[o] \in Objects
    BY LookupAssumption
  <2>2. o \in refs[Holder[o]]
    BY DEF References, HoldersAreHeld
  <2> QED
    BY <2>1, <2>2
<1>3. ASSUME NEW d \in Callers, NEW h \in FramesOf(frames'[d])
      PROVE  (Destructor(h) => fate'[h.self] = "gone") /\ TokensOf(d, h, refs')
  <2>1. CASE d = c /\ h \in N
    BY <2>1
  <2>2. CASE h \in FramesOf(frames[d])
    <3>1. h \in CallFrames /\ FrameShape(h) /\ Tokens(h) \subseteq Objects
      BY <2>2, FrameTokens
    <3>2. TokensOf(d, h, refs')
      <4>1. TokensOf(d, h, refs)
        BY <2>2 DEF References, TokensHeld
      <4> QED
        BY <3>1, <4>1, MoreTokens
    <3>3. Destructor(h) => h.self \in Objects
      BY <3>1, Ops DEF Destructor, CloseShape
    <3> QED
      BY <2>2, <3>2, <3>3 DEF References, DestroyedIsGone
  <2> QED
    BY <1>3, <2>1, <2>2, ChangedFrames, LowerFrames
<1>4. DestroyedIsGone' /\ TokensHeld'
  BY <1>3 DEF DestroyedIsGone, TokensHeld
<1>5. SteadyIsHeld'
  BY DEF SteadyIsHeld
<1> QED
  BY <1>1, <1>2, <1>4, <1>5

LEMMA RefsKept ==
    ASSUME CallTypes, CallStacks, References, NEW c \in Callers, NEW N, Changes(c, N),
           \A o \in Objects : refs[o] \subseteq refs'[o] /\ (refs[o] = {} => refs'[o] = {}),
           \A o \in Objects : fate'[o] = fate[o] \/ (fate'[o] = "closed" /\ fate[o] \notin {"gone", "late"}),
           \A d \in Callers : \A o \in steady'[d] : o \in Objects /\ "app" \in refs[o],
           answer' = answer, answer[c] # None => \A h \in N : Destructor(h),
           \A h \in N : (Destructor(h) => fate[h.self] = "gone" /\ h.self \in Objects) /\ TokensOf(c, h, refs')
    PROVE  References'
<1>5. GoneHasNone' /\ HoldersAreHeld' /\ DestroyedIsGone' /\ SteadyIsHeld' /\ TokensHeld'
  BY RefsStay
<1>6. Answered'
  <2> SUFFICES ASSUME NEW d \in Callers, answer[d] # None
               PROVE  /\ \A h \in FramesOf(frames'[d]) : Destructor(h)
                      /\ answer[d].ask.op # "contains" => \A o \in answer[d].found : d \in refs'[o]
    BY DEF Answered
  <2>1. /\ \A h \in FramesOf(frames[d]) : Destructor(h)
        /\ answer[d].ask.op # "contains" => \A o \in answer[d].found : d \in refs[o]
    BY DEF References, Answered
  <2>2. answer[d].found \subseteq Objects
    BY DEF CallTypes, Answers
  <2>3. \A h \in FramesOf(frames'[d]) : h \in FramesOf(frames[d]) \/ (d = c /\ h \in N)
    BY ChangedFrames, LowerFrames
  <2> QED
    BY <2>1, <2>2, <2>3
<1> QED
  BY <1>5, <1>6 DEF References

(* Somebody lets go of a reference.                                        *)
LetsGo(o, holder) ==
    /\ refs' = [refs EXCEPT ![o] = @ \ {holder}]
    /\ fate' = IF refs[o] = {holder} THEN [fate EXCEPT ![o] = "gone"] ELSE fate

LEMMA RefsLess ==
    ASSUME CallTypes, CallStacks, References, NEW c \in Callers, NEW N, Changes(c, N),
           NEW o \in Objects, NEW holder \in {"app", c} \cup Objects,
           LetsGo(o, holder),
           \A x \in Objects : Holder[x] = o /\ holder = x => refs[x] = {},
           \A d \in Callers : steady'[d] \subseteq steady[d] /\ (holder = "app" => o \notin steady'[d]),
           \A h \in N : (Destructor(h) => fate'[h.self] = "gone") /\ TokensOf(c, h, refs'),
           holder = c => \A h \in Lower(frames[c]) : TokensOf(c, h, refs'),
           Answered'
    PROVE  References'
<1>a. /\ refs \in [Objects -> SUBSET (Objects \cup Callers \cup {"app"})]
      /\ fate \in [Objects -> {"late", "open", "closed", "gone"}]
      /\ "app" \notin Objects \cup Callers /\ Objects \cap Callers = {}
  BY LookupAssumption DEF CallTypes
<1>b. \A x \in Objects : refs'[x] = IF x = o THEN refs[x] \ {holder} ELSE refs[x]
  BY <1>a DEF LetsGo
<1>c. \A x \in Objects : fate'[x] = IF x = o /\ refs[o] = {holder} THEN "gone" ELSE fate[x]
  BY <1>a DEF LetsGo
<1>1. GoneHasNone'
  BY <1>b, <1>c DEF References, GoneHasNone
<1>2. HoldersAreHeld'
  <2> SUFFICES ASSUME NEW x \in Objects, refs'[x] # {}, Holder[x] # None
               PROVE  x \in refs'[Holder[x]]
    BY DEF HoldersAreHeld
  <2>1. Holder[x] \in Objects
    BY LookupAssumption
  <2>2. refs[x] # {}
    BY <1>b
  <2>3. x \in refs[Holder[x]]
    BY <2>2 DEF References, HoldersAreHeld
  <2> QED
    BY <1>b, <2>1, <2>2, <2>3
<1>3. ASSUME NEW d \in Callers, NEW h \in FramesOf(frames'[d])
      PROVE  (Destructor(h) => fate'[h.self] = "gone") /\ TokensOf(d, h, refs')
  <2>1. CASE d = c /\ h \in N
    BY <2>1
  <2>2. CASE h \in FramesOf(frames[d]) /\ (d = c => h \in Lower(frames[c]))
    <3>1. h \in CallFrames /\ FrameShape(h) /\ Tokens(h) \subseteq Objects
      BY <2>2, FrameTokens
    <3>2. TokensOf(d, h, refs')
      <4>1. TokensOf(d, h, refs)
        BY <2>2 DEF References, TokensHeld
      <4>2. CASE d # holder
        <5>1. \A x \in Tokens(h) : d \in refs[x] => d \in refs'[x]
          BY <1>b, <3>1, <4>2
        <5> QED
          BY <4>1, <5>1, MoreTokens
      <4>3. CASE d = holder
        <5>1. "app" \notin Callers /\ Objects \cap Callers = {}
          BY <1>a
        <5>2. d = c
          BY <4>3, <5>1
        <5>3. h \in Lower(frames[c]) /\ holder = c
          BY <2>2, <4>3, <5>2
        <5>4. TokensOf(c, h, refs')
          BY <5>3
        <5> QED
          BY <5>2, <5>4
      <4> QED
        BY <4>2, <4>3
    <3>3. Destructor(h) => h.self \in Objects
      BY <3>1, Ops DEF Destructor, CloseShape
    <3> QED
      BY <1>c, <2>2, <3>2, <3>3 DEF References, DestroyedIsGone
  <2> QED
    BY <1>3, <2>1, <2>2, ChangedFrames, LowerFrames
<1>4. DestroyedIsGone' /\ TokensHeld'
  BY <1>3 DEF DestroyedIsGone, TokensHeld
<1>5. SteadyIsHeld'
  <2> SUFFICES ASSUME NEW d \in Callers, NEW x \in steady'[d]
               PROVE  "app" \in refs'[x]
    BY DEF SteadyIsHeld
  <2>1. x \in steady[d] /\ x \in Objects /\ "app" \in refs[x]
    BY DEF References, SteadyIsHeld, CallTypes
  <2> QED
    BY <1>b, <2>1
<1> QED
  BY <1>1, <1>2, <1>4, <1>5 DEF References

LEMMA AnsweredKept ==
    ASSUME CallTypes, CallStacks, References, NEW c \in Callers, NEW N, Changes(c, N),
           NEW o \in Objects, NEW holder \in {"app", c} \cup Objects,
           LetsGo(o, holder),
           answer' = answer, answer[c] # None => holder # c /\ \A h \in N : Destructor(h)
    PROVE  Answered'
<1> SUFFICES ASSUME NEW d \in Callers, answer[d] # None
             PROVE  /\ \A h \in FramesOf(frames'[d]) : Destructor(h)
                    /\ answer[d].ask.op # "contains" => \A x \in answer[d].found : d \in refs'[x]
  BY DEF Answered
<1>1. /\ \A h \in FramesOf(frames[d]) : Destructor(h)
      /\ answer[d].ask.op # "contains" => \A x \in answer[d].found : d \in refs[x]
  BY DEF References, Answered
<1>2. answer[d].found \subseteq Objects
  BY DEF CallTypes, Answers
<1>3. \A h \in FramesOf(frames'[d]) : h \in FramesOf(frames[d]) \/ (d = c /\ h \in N)
  BY ChangedFrames, LowerFrames
<1>4. \A x \in Objects : d \in refs[x] => d \in refs'[x]
  BY LookupAssumption DEF CallTypes, LetsGo
<1> QED
  BY <1>1, <1>2, <1>3, <1>4

-----------------------------------------------------------------------------
ClosesFor(s, o) == \E f \in FramesOf(s) : f.op = "close" /\ f.self = o

LEMMA ClosingsKept ==
    ASSUME CallTypes, CallStacks, Closings, NEW c \in Callers, NEW N, Changes(c, N),
           listed' \subseteq listed, using' \subseteq using,
           \A o \in Objects :
              \/ fate'[o] = fate[o]
              \/ fate'[o] = "gone" /\ refs'[o] = {}
              \/ /\ fate'[o] = "closed" /\ ClosesFor(frames[c], o)
                 /\ Sort[o] # "discovered" => o \notin listed'
                 /\ Sort[o] = "topic" => Unused(o, using'),
           \A o \in Objects : refs'[o] # {} => refs[o] # {},
           \A h \in N : h.op = "close" => h.self \in Objects /\ ClosesInOrder(h, fate', listed', using'),
           \A o \in Objects :
              (Sort[o] \in {"reader", "writer"} /\ o \in using \ using') \/ (InCall(c) /\ AboutToFinish(Top(c), o)) =>
                 fate'[o] = "closed" \/ refs'[o] = {} \/ \E h \in FramesOf(frames'[c]) : AboutToFinish(h, o),
           \A h \in N : h.op = "close" =>
              ClosesFor(frames[c], h.self) \/ \A d \in Callers : InCall(d) => h.self \in closing'[d],
           \A d \in Callers : closing[d] \subseteq closing'[d]
    PROVE  Closings'
<1>1. \A o \in Objects : fate[o] # "late" => fate'[o] # "late"
  OBVIOUS
<1>2. \A o : Unused(o, using) => Unused(o, using')
  BY DEF Unused
<1>3. FramesInOrder'
  <2> SUFFICES ASSUME NEW d \in Callers, NEW f \in FramesOf(frames'[d])
               PROVE  ClosesInOrder(f, fate', listed', using')
    BY DEF FramesInOrder
  <2>1. CASE d = c /\ f \in N
    BY <2>1 DEF ClosesInOrder
  <2>2. CASE f \in FramesOf(frames[d])
    <3>1. ClosesInOrder(f, fate, listed, using)
      BY <2>2 DEF Closings, FramesInOrder
    <3>2. f.op = "close" => f.self \in Objects
      BY <2>2, FrameTokens, Ops DEF CloseShape
    <3> QED
      BY <1>1, <1>2, <3>1, <3>2 DEF ClosesInOrder
  <2> QED
    BY <2>1, <2>2, ChangedFrames, LowerFrames
<1>4. ClosedIsUnlisted'
  BY DEF Closings, ClosedIsUnlisted
<1>5. ClosedIsUnused'
  BY <1>2 DEF Closings, ClosedIsUnused
<1>6. UncountedIsClosed'
  <2> SUFFICES ASSUME NEW o \in Objects, Sort[o] \in {"reader", "writer"}, refs'[o] # {}, o \notin using',
                      fate'[o] # "closed"
               PROVE  \E d \in Callers : \E f \in FramesOf(frames'[d]) : AboutToFinish(f, o)
    BY DEF UncountedIsClosed
  <2>1. fate'[o] = fate[o] /\ refs[o] # {}
    OBVIOUS
  <2>2. CASE o \in using
    BY <2>2
  <2>3. CASE o \notin using
    <3>1. PICK d \in Callers : \E f \in FramesOf(frames[d]) : AboutToFinish(f, o)
      BY <2>1, <2>3 DEF Closings, UncountedIsClosed
    <3>2. PICK f \in FramesOf(frames[d]) : AboutToFinish(f, o)
      BY <3>1
    <3>3. CASE d # c
      BY <3>2, <3>3, ChangedFrames
    <3>4. CASE d = c /\ f \in Lower(frames[c])
      <4>1. f.op = "close" /\ f.todo[1] # "release"
        <5>1. PICK k \in 1 .. Len(f.todo) : f.todo[k] = "finish" /\ \A j \in 1 .. k - 1 : f.todo[j] = "unlist"
          BY <3>2 DEF AboutToFinish, ClearFrom
        <5>2. Len(f.todo) \in Nat
          BY <3>2, FrameTokens, Ops
        <5>3. k = 1 \/ 1 \in 1 .. k - 1
          BY <5>2
        <5> QED
          BY <3>2, <5>1, <5>3 DEF AboutToFinish
      <4> QED
        BY <3>2, <3>4, <4>1, ChangedFrames
    <3>5. CASE d = c /\ InCall(c) /\ f = Top(c)
      BY <3>2, <3>5
    <3> QED
      BY <3>3, <3>4, <3>5, LowerFrames
  <2> QED
    BY <2>2, <2>3
<1>7. ClosingIsKnown'
  <2> SUFFICES ASSUME NEW d \in Callers, InCall(d)', BaseOf(frames'[d]).op # "close", NEW o \in Objects,
                      \/ fate'[o] = "closed"
                      \/ \E e \in Callers : \E f \in FramesOf(frames'[e]) : f.op = "close" /\ f.self = o
               PROVE  o \in closing'[d]
    BY DEF ClosingIsKnown
  <2>1. InCall(d) /\ BaseOf(frames[d]).op # "close"
    <3>1. CASE d # c
      BY <3>1, ChangedFrames DEF InCall
    <3>2. CASE d = c
      <4>1. frames[c] # << >> /\ AskOf(BaseOf(frames'[c])) = AskOf(BaseOf(frames[c]))
        BY <3>2, ChangedFrames DEF InCall
      <4> QED
        BY <3>2, <4>1 DEF InCall, AskOf
    <3> QED
      BY <3>1, <3>2
  <2>2. ASSUME fate[o] = "closed" \/ \E e \in Callers : ClosesFor(frames[e], o)
        PROVE  o \in closing'[d]
    BY <2>1, <2>2 DEF Closings, ClosingIsKnown, ClosesFor
  <2>3. CASE fate'[o] = "closed"
    <3>1. fate[o] = "closed" \/ ClosesFor(frames[c], o)
      BY <2>3
    <3> QED
      BY <2>2, <3>1
  <2>4. CASE \E e \in Callers : \E f \in FramesOf(frames'[e]) : f.op = "close" /\ f.self = o
    <3>1. PICK e \in Callers : \E f \in FramesOf(frames'[e]) : f.op = "close" /\ f.self = o
      BY <2>4
    <3>2. PICK f \in FramesOf(frames'[e]) : f.op = "close" /\ f.self = o
      BY <3>1
    <3>3. CASE f \in FramesOf(frames[e])
      BY <2>2, <3>2, <3>3 DEF ClosesFor
    <3>4. CASE e = c /\ f \in N
      BY <2>1, <2>2, <3>2, <3>4
    <3> QED
      BY <3>3, <3>4, ChangedFrames, LowerFrames
  <2> QED
    BY <2>3, <2>4
<1> QED
  BY <1>3, <1>4, <1>5, <1>6, <1>7 DEF Closings

-----------------------------------------------------------------------------
(* The mutexes of sets.                                                    *)
LEMMA SetsLockedKept ==
    ASSUME CallTypes, CallStacks, SetsLocked, NEW c \in Callers, NEW N, Changes(c, N),
           \A k \in Sets : \A d \in Callers : <<k, d>> \in setsHeld' =>
              <<k, d>> \in setsHeld \/ (d = c /\ FreeSet(k)),
           \A k \in Sets : \A d \in Callers : d # c /\ <<k, d>> \in setsHeld => <<k, d>> \in setsHeld',
           \A o \in listed : o \in listed' \/ FreeSet(SetOf(o)),
           \A h \in N : KeepsSet(c, h, setsHeld', listed'),
           \A h \in Lower(frames[c]) : h \in FramesOf(frames'[c]) /\ h.op = "contains" /\ h.key # None => <<h.key, c>> \in setsHeld',
           OwnKeys(frames'[c])
    PROVE  SetsLocked'
<1>1. OneOwner'
  <2> SUFFICES ASSUME NEW k \in Sets, NEW d \in Callers, NEW e \in Callers,
                      <<k, d>> \in setsHeld', <<k, e>> \in setsHeld'
               PROVE  d = e
    BY DEF OneOwner
  <2> QED
    BY DEF SetsLocked, OneOwner, FreeSet
<1>2. ASSUME NEW d \in Callers, NEW f \in FramesOf(frames[d]), d = c => f \in Lower(frames[c]) /\ f \in FramesOf(frames'[c])
      PROVE  KeepsSet(d, f, setsHeld', listed')
  <2>1. KeepsSet(d, f, setsHeld, listed)
    BY DEF SetsLocked, SetsKept
  <2> SUFFICES ASSUME f.op = "contains", f.key # None
               PROVE  /\ <<f.key, d>> \in setsHeld' /\ f.key \in {f.self} \X Sorts
                      /\ \A o \in f.rest \cup ({f.ref} \ {None}) : o \in listed' /\ SetOf(o) = f.key
    BY <2>1 DEF KeepsSet
  <2>2. /\ <<f.key, d>> \in setsHeld /\ f.key \in {f.self} \X Sorts
        /\ \A o \in f.rest \cup ({f.ref} \ {None}) : o \in listed /\ SetOf(o) = f.key
    BY <2>1 DEF KeepsSet
  <2>3. f.key \in Sets
    BY <2>2 DEF CallTypes
  <2>4. <<f.key, d>> \in setsHeld'
    BY <1>2, <2>2, <2>3
  <2>5. ~FreeSet(f.key)
    BY <2>2 DEF FreeSet
  <2> QED
    BY <2>2, <2>4, <2>5
<1>3. SetsKept'
  <2>1. ASSUME NEW d \in Callers, NEW f \in FramesOf(frames'[d])
        PROVE  KeepsSet(d, f, setsHeld', listed')
    <3>1. CASE d = c /\ f \in N
      BY <3>1
    <3>2. CASE f \in FramesOf(frames[d]) /\ (d = c => f \in Lower(frames[c]))
      BY <1>2, <2>1, <3>2
    <3> QED
      BY <2>1, <3>1, <3>2, ChangedFrames, LowerFrames
  <2>2. ASSUME NEW d \in Callers
        PROVE  OwnKeys(frames'[d])
    BY ChangedFrames DEF SetsLocked, SetsKept
  <2> QED
    BY <2>1, <2>2 DEF SetsKept
<1> QED
  BY <1>1, <1>3 DEF SetsLocked

LEMMA SetsStay ==
    ASSUME CallTypes, CallStacks, SetsLocked, NEW c \in Callers, NEW N, Changes(c, N),
           setsHeld' = setsHeld, \A o \in listed : o \in listed' \/ FreeSet(SetOf(o)),
           \A h \in N : KeepsSet(c, h, setsHeld, listed')
    PROVE  SetsLocked'
<1>1. OwnKeys(frames'[c])
  BY ChangedFrames DEF SetsLocked, SetsKept
<1>2. \A h \in Lower(frames[c]) : h.op = "contains" /\ h.key # None => <<h.key, c>> \in setsHeld
  BY LowerFrames DEF SetsLocked, SetsKept, KeepsSet
<1> QED
  BY <1>1, <1>2, SetsLockedKept

-----------------------------------------------------------------------------
(* What lookups know.                                                      *)
LEMMA MoreReason ==
    ASSUME NEW a, NEW C, NEW D, C \subseteq D, Reason(a, C)
    PROVE  Reason(a, D)
BY DEF Reason

LEMMA StillSearching ==
    ASSUME NEW s, NEW S, NEW T, T \subseteq S, NEW C, NEW D, C \subseteq D, Searching(s, S, C)
    PROVE  Searching(s, T, D)
BY MoreReason DEF Searching

LEMMA KnowledgeKept ==
    ASSUME CallTypes, CallStacks, Knowledge, NEW c \in Callers, NEW N, Changes(c, N),
           \A h \in N : RightFrame(h),
           \A d \in Callers : d # c => steady'[d] \subseteq steady[d] /\ closing[d] \subseteq closing'[d],
           Searching(frames'[c], steady'[c], closing'[c])
    PROVE  Knowledge'
<1>1. OnlyRight'
  BY ChangedFrames, LowerFrames DEF Knowledge, OnlyRight
<1>2. ASSUME NEW d \in Callers
      PROVE  Searching(frames'[d], steady'[d], closing'[d])
  <2>1. CASE d # c
    BY <2>1, ChangedFrames, StillSearching DEF Knowledge, NothingMissed
  <2> QED
    BY <2>1
<1> QED
  BY <1>1, <1>2 DEF Knowledge, NothingMissed

LEMMA CloseRight ==
    ASSUME NEW h, h.op = "close"
    PROVE  RightFrame(h) /\ (\A c, R : TokensOf(c, h, R)) /\ (\A c, S, L : KeepsSet(c, h, S, L))
           /\ (\A op, o : ~InView(op, h, o))
BY SeeksFacts DEF RightFrame, TokensOf, KeepsSet, InView

LEMMA CloseNotLeaving ==
    ASSUME NEW f \in CallFrames, FrameShape(f), f.op = "close"
    PROVE  f.todo \notin Leaving2
<1>1. f.todo[1] \in CloseStages /\ EndOf(f.todo) \in {"finish", "release", "forget"}
  BY NotClose, Ops DEF CloseShape, CloseTodo
<1>2. \A q \in Leaving2 : EndOf(q) = "unwind"
  BY DEF Leaving2, EndOf
<1> QED
  BY <1>1, <1>2

(* A close() or a destructor on a lookup's stack does not disturb it.      *)
LEMMA SearchingOn ==
    ASSUME CallTypes, CallStacks, NEW c \in Callers, NEW N, Changes(c, N),
           InCall(c) => /\ Top(c).op = "close"
                        /\ Lower(frames[c]) \subseteq FramesOf(frames'[c]) \/ BaseOf(frames'[c]).op = "close",
           \A h \in N : h.op = "close",
           NEW S, NEW T, T \subseteq S, NEW C, NEW D, C \subseteq D, Searching(frames[c], S, C)
    PROVE  Searching(frames'[c], T, D)
<1>a. CASE BaseOf(frames'[c]).op = "close"
  BY <1>a DEF Searching
<1> SUFFICES ASSUME BaseOf(frames'[c]).op # "close" PROVE Searching(frames'[c], T, D)
  BY <1>a
<1> DEFINE s == frames[c]
           t == frames'[c]
<1>1. /\ \A h \in FramesOf(t) : h \in FramesOf(s) \/ h.op = "close"
      /\ \A h \in FramesOf(s) : h \in FramesOf(t) \/ h.op = "close"
  <2>1. \A h \in FramesOf(t) : h \in Lower(s) \/ h \in N
    BY ChangedFrames
  <2>2. CASE InCall(c)
    <3>1. FramesOf(s) = {Top(c)} \cup Lower(s)
      BY <2>2, LowerFrames
    <3> QED
      BY <2>1, <2>2, <3>1
  <2>3. CASE ~InCall(c)
    <3>1. FramesOf(s) = {} /\ Lower(s) = {}
      BY <2>3, GoesStill DEF InCall
    <3> QED
      BY <2>1, <3>1
  <2> QED
    BY <2>2, <2>3
<1>2. \A h \in FramesOf(s) : h \in CallFrames /\ FrameShape(h)
  BY FrameTokens
<1>3. \A h \in FramesOf(t) : h \in CallFrames /\ FrameShape(h)
  BY ElementOfSeq DEF Changes, CallStacks, StackShape, FramesOf
<1>4. t # << >> /\ BaseOf(t).op # "close" => s # << >> /\ AskOf(BaseOf(t)) = AskOf(BaseOf(s))
  BY ChangedFrames
<1> HIDE DEF s, t
<1>5. Unwinds(t) <=> Unwinds(s)
  BY <1>1, <1>2, <1>3, CloseNotLeaving DEF Unwinds
<1>6. \A op, o : (\E f \in FramesOf(s) : InView(op, f, o)) => \E f \in FramesOf(t) : InView(op, f, o)
  BY <1>1 DEF InView
<1>7. AskOf(BaseOf(t)) = AskOf(BaseOf(s)) => BaseOf(t).op = BaseOf(s).op
  BY DEF AskOf
<1>8. Searching(s, S, C)
  BY DEF s
<1>9. Searching(t, T, D)
  BY <1>4, <1>5, <1>6, <1>7, <1>8, MoreReason DEF Searching
<1> QED
  BY <1>9 DEF t

-----------------------------------------------------------------------------
(* The answers stay exact while nobody lets go of what was returned.       *)
LEMMA AnswersKept ==
    ASSUME CallTypes, AnswersAreExact, References', answer' = answer
    PROVE  AnswersAreExact'
<1>1. ASSUME FindsWhatIsThere PROVE FindsWhatIsThere'
  <2> SUFFICES ASSUME NEW c \in Callers, answer[c] # None, ~answer[c].threw
               PROVE  LET a == answer[c].ask
                          there == {o \in answer[c].steady : IsAbout(a, o)}
                      IN /\ \A o \in answer[c].found :
                              /\ IsAbout(a, o)
                              /\ a.op # "contains" => c \in refs'[o] /\ fate'[o] # "gone"
                         /\ there # {} => answer[c].found # {}
                         /\ a.op = "find_datareaders" => there \subseteq answer[c].found
    BY DEF FindsWhatIsThere, IsAbout
  <2> DEFINE a == answer[c].ask
             there == {o \in answer[c].steady : IsAbout(a, o)}
  <2>1. /\ \A o \in answer[c].found : IsAbout(a, o)
        /\ there # {} => answer[c].found # {}
        /\ a.op = "find_datareaders" => there \subseteq answer[c].found
    BY <1>1 DEF FindsWhatIsThere
  <2>2. ASSUME NEW o \in answer[c].found, a.op # "contains"
        PROVE  c \in refs'[o] /\ fate'[o] # "gone"
    <3>1. answer[c].found \subseteq Objects
      BY DEF CallTypes, Answers
    <3>2. c \in refs'[o]
      BY <2>2 DEF References, Answered
    <3> QED
      BY <3>1, <3>2 DEF References, GoneHasNone
  <2> HIDE DEF there, a
  <2>3. \A o \in answer[c].found : /\ IsAbout(a, o)
                                   /\ a.op # "contains" => c \in refs'[o] /\ fate'[o] # "gone"
    BY <2>1, <2>2
  <2> QED
    BY <2>1, <2>3 DEF there, a
<1>2. ASSUME ThrowsForAReason PROVE ThrowsForAReason'
  BY <1>2 DEF ThrowsForAReason
<1>3. NoLateWriters' = NoLateWriters
  BY DEF NoLateWriters
<1> QED
  BY <1>1, <1>2, <1>3 DEF AnswersAreExact

(* The variables that a step of a caller leaves in their types.            *)
OtherTypes ==
    /\ refs' \in [Objects -> SUBSET (Objects \cup Callers \cup {"app"})]
    /\ fate' \in [Objects -> {"late", "open", "closed", "gone"}]
    /\ locked' \in [Objects -> Callers \cup {None}]
    /\ setsHeld' \subseteq Sets \X Callers
    /\ listed' \subseteq Objects
    /\ using' \subseteq Objects
    /\ steady' \in [Callers -> SUBSET Objects]
    /\ closing' \in [Callers -> SUBSET Objects]
    /\ called' \in [Callers -> Nat]
    /\ \A c \in Callers : called'[c] \in 0 .. MaxCalls[c]

LEMMA Together ==
    ASSUME LookupInv, NEW c \in Callers, NEW N, Changes(c, N), OtherTypes, answer' = answer,
           References', Closings', SetsLocked', Knowledge'
    PROVE  LookupInv'
<1>1. CallTypes /\ AnswersAreExact
  BY DEF LookupInv
<1>2. CallTypes' /\ CallStacks'
  BY <1>1 DEF CallTypes, Changes, OtherTypes
<1>3. AnswersAreExact'
  BY <1>1, AnswersKept
<1> QED
  BY <1>2, <1>3 DEF LookupInv

(* A lookup goes on.                                                       *)
LEMMA LookupKeeps ==
    ASSUME LookupInv, NEW c \in Callers, InCall(c), Top(c).op # "close", NEW N, Changes(c, N),
           OtherTypes, fate' = fate, listed' = listed, using' = using, answer' = answer,
           closing' = closing,
           \A o \in Objects : refs[o] \subseteq refs'[o] /\ (refs[o] = {} => refs'[o] = {}),
           \A d \in Callers : d # c => steady'[d] \subseteq steady[d],
           \A o \in steady'[c] : "app" \in refs[o],
           \A h \in N : h.op # "close" /\ TokensOf(c, h, refs') /\ RightFrame(h),
           SetsLocked', Searching(frames'[c], steady'[c], closing[c])
    PROVE  LookupInv'
<1>1. CallTypes /\ CallStacks /\ References /\ Closings /\ SetsLocked /\ Knowledge
  BY DEF LookupInv
<1>2. answer[c] = None
  <2>1. Top(c) \in FramesOf(frames[c]) /\ ~Destructor(Top(c))
    BY <1>1, TopFrame DEF Destructor
  <2> QED
    BY <1>1, <2>1 DEF References, Answered
<1>3. \A d \in Callers : \A o \in steady'[d] : o \in Objects /\ "app" \in refs[o]
  <2>1. \A d \in Callers : steady'[d] \subseteq Objects
    BY DEF OtherTypes
  <2> QED
    BY <1>1, <2>1 DEF References, SteadyIsHeld
<1>4. \A h \in N : ~Destructor(h)
  BY DEF Destructor
<1>5. References'
  BY <1>1, <1>2, <1>3, <1>4, RefsKept
<1>6. Closings'
  <2>1. \A o : ~AboutToFinish(Top(c), o)
    BY DEF AboutToFinish
  <2>2. \A o \in Objects : refs'[o] # {} => refs[o] # {}
    OBVIOUS
  <2> QED
    BY <1>1, <2>1, <2>2, ClosingsKept
<1>7. Knowledge'
  BY <1>1, KnowledgeKept
<1> QED
  BY <1>5, <1>6, <1>7, Together

(* A close() or a destructor goes on.                                      *)
LEMMA CloseKeeps ==
    ASSUME LookupInv, NEW c \in Callers, NEW N, Changes(c, N), OtherTypes, answer' = answer,
           InCall(c) => /\ Top(c).op = "close"
                        /\ Lower(frames[c]) \subseteq FramesOf(frames'[c]) \/ BaseOf(frames'[c]).op = "close",
           \A h \in N : h.op = "close",
           setsHeld' = setsHeld, \A o \in listed : o \in listed' \/ FreeSet(SetOf(o)),
           \A d \in Callers : steady'[d] \subseteq steady[d] /\ closing[d] \subseteq closing'[d],
           References', Closings'
    PROVE  LookupInv'
<1>1. CallTypes /\ CallStacks /\ SetsLocked /\ Knowledge
  BY DEF LookupInv
<1>2. SetsLocked'
  BY <1>1, CloseRight, SetsStay
<1>3. Searching(frames'[c], steady'[c], closing'[c])
  <2>1. Searching(frames[c], steady[c], closing[c])
    BY <1>1 DEF Knowledge, NothingMissed
  <2> QED
    BY <1>1, <2>1, SearchingOn
<1>4. Knowledge'
  BY <1>1, <1>3, CloseRight, KnowledgeKept
<1> QED
  BY <1>2, <1>4, Together

(* Only the stack changes, and the mutexes of objects.                     *)
LEMMA QuietTypes ==
    ASSUME CallTypes, Aside, Still, locked' \in [Objects -> Callers \cup {None}], called' = called
    PROVE  OtherTypes
BY DEF CallTypes, Aside, Still, OtherTypes

LEMMA LookupQuiet ==
    ASSUME LookupInv, NEW c \in Callers, InCall(c), Top(c).op # "close", NEW N, Changes(c, N),
           Aside, Still, locked' \in [Objects -> Callers \cup {None}], called' = called,
           \A h \in N : h.op # "close" /\ TokensOf(c, h, refs) /\ RightFrame(h)
                        /\ KeepsSet(c, h, setsHeld, listed),
           Searching(frames'[c], steady[c], closing[c])
    PROVE  LookupInv'
<1>1. CallTypes /\ CallStacks /\ References /\ SetsLocked
  BY DEF LookupInv
<1>2. OtherTypes
  BY <1>1, QuietTypes
<1>3. SetsLocked'
  <2>1. setsHeld' = setsHeld /\ listed' = listed
    BY DEF Aside
  <2>2. \A h \in N : KeepsSet(c, h, setsHeld, listed')
    BY <2>1
  <2> QED
    BY <1>1, <2>1, <2>2, SetsStay
<1>4. \A o \in steady[c] : "app" \in refs[o]
  BY <1>1 DEF References, SteadyIsHeld
<1>5. /\ refs' = refs /\ fate' = fate /\ listed' = listed /\ using' = using /\ answer' = answer
      /\ closing' = closing /\ steady' = steady
  BY DEF Aside, Still
<1>6. /\ \A o \in Objects : refs[o] \subseteq refs'[o] /\ (refs[o] = {} => refs'[o] = {})
      /\ \A d \in Callers : d # c => steady'[d] \subseteq steady[d]
      /\ \A o \in steady'[c] : "app" \in refs[o]
      /\ \A h \in N : h.op # "close" /\ TokensOf(c, h, refs') /\ RightFrame(h)
      /\ Searching(frames'[c], steady'[c], closing[c])
  BY <1>4, <1>5
<1> QED
  BY <1>2, <1>3, <1>5, <1>6, LookupKeeps

LEMMA CloseQuiet ==
    ASSUME LookupInv, NEW c \in Callers, InCall(c), Top(c).op = "close", NEW N, Changes(c, N),
           Lower(frames[c]) \subseteq FramesOf(frames'[c]) \/ BaseOf(frames'[c]).op = "close",
           Aside, Still, locked' \in [Objects -> Callers \cup {None}], called' = called,
           Top(c).todo[1] \notin {"finish", "unlist"},
           \A h \in N :
              /\ h.op = "close" /\ h.self \in Objects /\ ClosesFor(frames[c], h.self)
              /\ ClosesInOrder(h, fate, listed, using)
              /\ Destructor(h) <=> Destructor(Top(c)) 
              /\ Destructor(h) => h.self = Top(c).self
    PROVE  LookupInv'
<1>1. CallTypes /\ CallStacks /\ References /\ Closings
  BY DEF LookupInv
<1>2. OtherTypes
  BY <1>1, QuietTypes
<1>5. /\ refs' = refs /\ fate' = fate /\ listed' = listed /\ using' = using /\ answer' = answer
      /\ closing' = closing /\ steady' = steady /\ setsHeld' = setsHeld
  BY DEF Aside, Still
<1>3. References'
  <2>1. Top(c) \in FramesOf(frames[c])
    BY <1>1, TopFrame
  <2>2. Destructor(Top(c)) => fate[Top(c).self] = "gone"
    BY <1>1, <2>1 DEF References, DestroyedIsGone
  <2>3. answer[c] # None => Destructor(Top(c))
    BY <1>1, <2>1 DEF References, Answered
  <2>4. \A d \in Callers : \A o \in steady'[d] : o \in Objects /\ "app" \in refs[o]
    BY <1>1, <1>5 DEF References, SteadyIsHeld, CallTypes
  <2>5. \A h \in N : (Destructor(h) => fate[h.self] = "gone" /\ h.self \in Objects) /\ TokensOf(c, h, refs')
    BY <2>2, CloseRight
  <2>6. /\ \A o \in Objects : refs[o] \subseteq refs'[o] /\ (refs[o] = {} => refs'[o] = {})
        /\ \A o \in Objects : fate'[o] = fate[o]
    BY <1>5
  <2> QED
    BY <1>1, <1>5, <2>3, <2>4, <2>5, <2>6, RefsKept
<1>4. Closings'
  <2>1. \A o : ~AboutToFinish(Top(c), o)
    <3>1. Top(c) \in CallFrames /\ FrameShape(Top(c))
      BY <1>1, TopFrame
    <3>2. Len(Top(c).todo) \in Nat
      BY <3>1, Ops
    <3>3. ASSUME ClearFrom(Top(c).todo, 1)
          PROVE  FALSE
      <4>1. PICK k \in 1 .. Len(Top(c).todo) : Top(c).todo[k] = "finish" /\ \A j \in 1 .. k - 1 : Top(c).todo[j] = "unlist"
        BY <3>3 DEF ClearFrom
      <4>2. k = 1 \/ 1 \in 1 .. k - 1
        BY <3>2
      <4> QED
        BY <4>1, <4>2
    <3> QED
      BY <3>3 DEF AboutToFinish
  <2>2. \A h \in N : ClosesInOrder(h, fate', listed', using')
    BY <1>5
  <2> QED
    BY <1>1, <1>5, <2>1, <2>2, ClosingsKept
<1> QED
  BY <1>2, <1>3, <1>4, <1>5, CloseKeeps

-----------------------------------------------------------------------------
(* A lookup, and the lookups that it is within.                            *)
LEMMA BaseFacts ==
    ASSUME CallTypes, CallStacks, NEW c \in Callers, InCall(c), NEW f, f = Top(c), f.op # "close",
           NEW b, b = BaseOf(frames[c])
    PROVE  /\ b.op # "close" /\ b.for = f.for /\ b \in FramesOf(frames[c])
           /\ f.op \in DOMAIN Seeks => b.self = f.self /\ b.op \in {f.op, "find_topic_description"}
           /\ f.op \in DOMAIN Seeks =>
                 \/ Lower(frames[c]) = {} /\ b = f
                 \/ Lower(frames[c]) = {b} /\ WithinTwice(f, b) /\ Tail(frames[c]) = <<b>>
           /\ f.op = "find_topic_description" => b = f /\ Lower(frames[c]) = {} /\ Tail(frames[c]) = << >>
           /\ f.op = "contains" => b.op = "contains"
           /\ f.op = "contains" => \A h \in Lower(frames[c]) :
                 h.op = "contains" /\ h.for = f.for /\ h.todo[1] = "release" /\ h.found = {}
<1> DEFINE s == frames[c]
           q == Tail(s)
<1>1. /\ f \in CallFrames /\ FrameShape(f) /\ StackShape(q) /\ Fits(f, q)
      /\ b = IF q = << >> THEN f ELSE BaseOf(q)
      /\ FramesOf(s) = {f} \cup FramesOf(q)
      /\ Lower(s) = FramesOf(q) /\ q \in Seq(CallFrames)
  <2>0. s = frames[c] /\ q = Tail(s)
    OBVIOUS
  <2> HIDE DEF s, q
  <2>1. /\ f \in CallFrames /\ FrameShape(f) /\ StackShape(q) /\ Fits(f, q)
        /\ BaseOf(s) = IF q = << >> THEN f ELSE BaseOf(q)
        /\ FramesOf(s) = {f} \cup FramesOf(q) /\ s # << >> /\ q \in Seq(CallFrames)
    BY <2>0, TopFrame
  <2>2. Lower(s) = FramesOf(q)
    BY <2>1 DEF Lower, q
  <2> QED
    BY <2>1, <2>2 DEF s
<1>2. f.op \in DOMAIN Seeks \/ f.op \in {"find_topic_description", "contains"}
  BY <1>1, Ops
<1> HIDE DEF s, q
<1>3. q # << >> => BaseOf(q) \in FramesOf(q)
  <2>1. q # << >> => Len(q) \in 1 .. Len(q)
    BY <1>1, OffStack
  <2> QED
    BY <2>1 DEF BaseOf, FramesOf
<1>4. Len(q) = 1 => FramesOf(q) = {q[1]} /\ BaseOf(q) = q[1] /\ q = <<q[1]>>
  <2> SUFFICES ASSUME Len(q) = 1 PROVE FramesOf(q) = {q[1]} /\ BaseOf(q) = q[1] /\ q = <<q[1]>>
    OBVIOUS
  <2>1. \A i \in 1 .. 1 : i = 1
    OBVIOUS
  <2>2. FramesOf(q) = {q[1]} /\ BaseOf(q) = q[1]
    BY <2>1 DEF FramesOf, BaseOf
  <2>3. q # << >>
    BY <1>1, EmptySeq
  <2>4. q = <<q[1]>> \o Tail(q) /\ Tail(q) = << >> /\ q[1] \in CallFrames
    BY <1>1, <2>3, OffStack
  <2>5. <<q[1]>> \o << >> = <<q[1]>>
    BY <1>1, <2>3, <2>4, StackForms
  <2> QED
    BY <2>2, <2>4, <2>5
<1>5. CASE f.op = "contains"
  <2>1. \A h \in FramesOf(q) : h.op = "contains" /\ h.for = f.for /\ h.todo[1] = "release" /\ h.found = {}
    BY <1>1, <1>5 DEF Fits, FramesOf
  <2> QED
    BY <1>1, <1>3, <1>5, <2>1, SeeksFacts DEF s
<1>6. CASE f.op \in DOMAIN Seeks
  <2>1. q = << >> \/ (Len(q) = 1 /\ WithinTwice(f, q[1]))
    BY <1>1, <1>6 DEF Fits
  <2>2. f.op # "contains" /\ f.op # "find_topic_description"
    BY <1>6, SeeksFacts
  <2>3. CASE q = << >>
    <3>1. FramesOf(q) = {}
      BY <2>3, NoStack
    <3> QED
      BY <1>1, <2>2, <2>3, <3>1 DEF s
  <2>4. CASE Len(q) = 1 /\ WithinTwice(f, q[1])
    <3>1. q # << >>
      BY <2>4, NoStack
    <3>2. b = q[1]
      BY <1>1, <1>4, <2>4, <3>1
    <3>3. FramesOf(q) = {b} /\ WithinTwice(f, b) /\ q = <<b>>
      BY <1>4, <2>4, <3>2
    <3> QED
      BY <1>1, <2>2, <3>3 DEF s, q, WithinTwice
  <2> QED
    BY <2>1, <2>3, <2>4
<1>7. CASE f.op = "find_topic_description"
  <2>1. q = << >>
    BY <1>1, <1>7 DEF Fits
  <2>2. FramesOf(q) = {} /\ f.op \notin DOMAIN Seeks
    BY <1>7, <2>1, NoStack, SeeksFacts
  <2> QED
    BY <1>1, <1>7, <2>1, <2>2 DEF s, q
<1> QED
  BY <1>2, <1>5, <1>6, <1>7

LEMMA Heirs ==
    ASSUME NEW f, NEW g, Continues(f, g)
    PROVE  /\ Destructor(g) <=> Destructor(f)
           /\ g.op = f.op /\ g.self = f.self /\ g.for = f.for
           /\ g \in CallFrames /\ FrameShape(g)
BY DEF Continues, Plain, Destructor

(* A lookup goes on, without losing sight of what it should find.          *)
LEMMA SearchAdvances ==
    ASSUME CallTypes, CallStacks, NEW c \in Callers, NEW g, StepsOn(c, g), Top(c).op # "close",
           g.todo \in Leaving2 <=> Top(c).todo \in Leaving2,
           NEW S, NEW C, Searching(frames[c], S, C),
           \A o \in S : /\ IsAbout(AskOf(BaseOf(frames[c])), o)
                        /\ InView(BaseOf(frames[c]).op, Top(c), o)
                        => InView(BaseOf(frames[c]).op, g, o)
    PROVE  Searching(frames'[c], S, C)
<1> DEFINE s == frames[c]
           t == frames'[c]
           b == BaseOf(s)
           f == Top(c)
<1>1. /\ FramesOf(t) = {g} \cup Lower(s) /\ t # << >> /\ s # << >>
      /\ FramesOf(s) = {f} \cup Lower(s)
  <2>1. /\ FramesOf(t) = {g} \cup FramesOf(Tail(s)) /\ t # << >> /\ s # << >>
        /\ FramesOf(s) = {f} \cup FramesOf(Tail(s))
    BY Advanced
  <2>2. Lower(s) = FramesOf(Tail(s))
    BY <2>1 DEF Lower
  <2> QED
    BY <2>1, <2>2
<1>2. AskOf(BaseOf(t)) = AskOf(b) /\ BaseOf(t).op = b.op
  BY Advanced
<1>3. b.op # "close"
  BY BaseFacts DEF StepsOn
<1> HIDE DEF s, t, b, f
<1>4. Unwinds(t) <=> Unwinds(s)
  BY <1>1 DEF Unwinds, f
<1>5. IF Unwinds(s) THEN NoLateWriters => Reason(AskOf(b), C)
      ELSE \A o \in S : IsAbout(AskOf(b), o) => \E h \in FramesOf(s) : InView(b.op, h, o)
  BY <1>1, <1>3 DEF Searching, s, b
<1>6. ASSUME NEW o \in S, IsAbout(AskOf(b), o), \E h \in FramesOf(s) : InView(b.op, h, o)
      PROVE  \E h \in FramesOf(t) : InView(b.op, h, o)
  <2>1. PICK h \in FramesOf(s) : InView(b.op, h, o)
    BY <1>6
  <2>2. CASE h = f
    <3>1. InView(b.op, g, o)
      BY <1>6, <2>1, <2>2 DEF b, s, f
    <3> QED
      BY <1>1, <3>1
  <2>3. CASE h \in Lower(s)
    BY <1>1, <2>1, <2>3
  <2> QED
    BY <1>1, <2>2, <2>3
<1>7. Searching(t, S, C)
  BY <1>2, <1>4, <1>5, <1>6 DEF Searching
<1> QED
  BY <1>7 DEF t

LEMMA LookupAdvances ==
    ASSUME LookupInv, NEW c \in Callers, NEW g, StepsOn(c, g), Top(c).op # "close",
           Aside, Still, locked' \in [Objects -> Callers \cup {None}], called' = called,
           g.key = Top(c).key,
           g.todo \in Leaving2 <=> Top(c).todo \in Leaving2,
           TokensOf(c, g, refs), RightFrame(g), KeepsSet(c, g, setsHeld, listed),
           \A o \in steady[c] : /\ IsAbout(AskOf(BaseOf(frames[c])), o)
                                /\ InView(BaseOf(frames[c]).op, Top(c), o)
                                => InView(BaseOf(frames[c]).op, g, o)
    PROVE  LookupInv'
<1>1. CallTypes /\ CallStacks /\ Searching(frames[c], steady[c], closing[c])
  BY DEF LookupInv, Knowledge, NothingMissed
<1>2. Changes(c, {g}) /\ InCall(c)
  BY <1>1, StepChanges DEF StepsOn
<1>3. Searching(frames'[c], steady[c], closing[c])
  BY <1>1, SearchAdvances
<1>4. g.op # "close"
  BY Heirs DEF StepsOn
<1> QED
  BY <1>2, <1>3, <1>4, LookupQuiet

LEMMA CloseAdvances ==
    ASSUME LookupInv, NEW c \in Callers, NEW g, StepsOn(c, g), Top(c).op = "close",
           Aside, Still, locked' \in [Objects -> Callers \cup {None}], called' = called,
           Top(c).todo[1] \notin {"finish", "unlist"},
           FinishesPast(g.todo, "unlist") => FinishesPast(Top(c).todo, "unlist"),
           FinishesPast(g.todo, "dependents") /\ Sort[Top(c).self] = "topic" =>
              FinishesPast(Top(c).todo, "dependents") \/ Unused(Top(c).self, using)
    PROVE  LookupInv'
<1>1. CallTypes /\ CallStacks /\ Closings
  BY DEF LookupInv
<1> DEFINE f == Top(c)
<1>2. InCall(c) /\ Continues(f, g)
  BY DEF StepsOn
<1>3. f \in FramesOf(frames[c]) /\ f \in CallFrames /\ FrameShape(f)
  BY <1>1, <1>2, TopFrame
<1>4. /\ Destructor(g) <=> Destructor(f)
      /\ g.op = f.op /\ g.self = f.self /\ g \in CallFrames /\ FrameShape(g)
  BY <1>2, Heirs
<1>5. f.key = None /\ g.key = None /\ g.self \in Objects
  BY <1>3, <1>4, Ops DEF CloseShape
<1>6. Changes(c, {g}) /\ Lower(frames[c]) \subseteq FramesOf(frames'[c])
  BY <1>1, <1>5, StepChanges
<1>7. ClosesFor(frames[c], g.self)
  BY <1>3, <1>4 DEF ClosesFor
<1>8. ClosesInOrder(f, fate, listed, using)
  BY <1>1, <1>3 DEF Closings, FramesInOrder
<1>9. ClosesInOrder(g, fate, listed, using)
  BY <1>4, <1>8 DEF ClosesInOrder
<1> HIDE DEF f
<1> QED
  BY <1>2, <1>4, <1>5, <1>6, <1>7, <1>9, CloseQuiet DEF f

-----------------------------------------------------------------------------
(* The next stage of the function on top, whatever it is.                  *)
LEMMA LookupLeaving ==
    ASSUME NEW f \in CallFrames, FrameShape(f), f.op # "close"
    PROVE  f.todo \in Leaving2 <=> EndOf(f.todo) = "unwind"
<1>1. CASE f.op \in DOMAIN Seeks
  <2>1. f.todo \in FindTodos(Seeks[f.op]) /\ Seeks[f.op] \in SoughtSorts
    BY <1>1, Ops DEF FindShape
  <2> QED
    BY <2>1, FindStages
<1>2. CASE f.op = "find_topic_description"
  <2>1. f.todo \in TwiceTodos
    BY <1>2, Ops DEF TwiceShape
  <2> QED
    BY <2>1, TwiceStages
<1>3. CASE f.op = "contains"
  BY <1>3, NotContains
<1> QED
  BY <1>1, <1>2, <1>3, Ops

LEMMA EndOfTail ==
    ASSUME NEW X, NEW q \in Seq(X), Len(q) > 1
    PROVE  EndOf(Tail(q)) = EndOf(q)
<1>1. q # << >>
  BY EmptySeq
<1>2. /\ Len(Tail(q)) = Len(q) - 1 /\ Len(q) \in Nat
      /\ \A i \in 1 .. Len(Tail(q)) : Tail(q)[i] = q[i + 1]
  BY <1>1, OffStack
<1>3. Len(q) - 1 \in 1 .. Len(q) - 1 /\ (Len(q) - 1) + 1 = Len(q)
  BY <1>2
<1> QED
  BY <1>2, <1>3 DEF EndOf

LEMMA SameTokens ==
    ASSUME NEW f, NEW g, SameFields(f, g), g.op = f.op, g.self = f.self, g.rest \subseteq f.rest
    PROVE  /\ Tokens(g) = Tokens(f)
           /\ \A c, R : TokensOf(c, f, R) => TokensOf(c, g, R)
           /\ \A c, S, L : KeepsSet(c, f, S, L) => KeepsSet(c, g, S, L)
           /\ \A op, o : InView(op, f, o) => \/ InView(op, g, o)
                                             \/ o \in f.rest \ g.rest
<1>1. /\ g.ref = f.ref /\ g.found = f.found /\ g.key = f.key /\ g.loose = f.loose
  BY DEF SameFields
<1>2. Tokens(g) = Tokens(f)
  BY <1>1 DEF Tokens
<1>3. ASSUME NEW c, NEW R, TokensOf(c, f, R)
      PROVE  TokensOf(c, g, R)
  BY <1>1, <1>2, <1>3 DEF TokensOf
<1>4. ASSUME NEW c, NEW S, NEW L, KeepsSet(c, f, S, L)
      PROVE  KeepsSet(c, g, S, L)
  BY <1>1, <1>4 DEF KeepsSet
<1>5. ASSUME NEW op, NEW o, InView(op, f, o)
      PROVE  InView(op, g, o) \/ o \in f.rest \ g.rest
  BY <1>1, <1>2, <1>5 DEF InView
<1> QED
  BY <1>2, <1>3, <1>4, <1>5

LEMMA TopKnows ==
    ASSUME LookupInv, NEW c \in Callers, InCall(c), NEW f, f = Top(c)
    PROVE  /\ CallTypes /\ CallStacks /\ References /\ Closings /\ SetsLocked /\ Knowledge
           /\ frames[c] # << >> /\ StackShape(frames[c]) /\ f = frames[c][1]
           /\ f \in CallFrames /\ FrameShape(f) /\ f \in FramesOf(frames[c])
           /\ TokensOf(c, f, refs) /\ RightFrame(f) /\ KeepsSet(c, f, setsHeld, listed)
           /\ ClosesInOrder(f, fate, listed, using)
           /\ Destructor(f) => fate[f.self] = "gone" /\ f.self \in Objects /\ refs[f.self] = {}
           /\ Searching(frames[c], steady[c], closing[c])
           /\ answer[c] # None => Destructor(f)
<1>1. CallTypes /\ CallStacks /\ References /\ Closings /\ SetsLocked /\ Knowledge
  BY DEF LookupInv
<1>2. /\ frames[c] # << >> /\ StackShape(frames[c]) /\ f = frames[c][1]
      /\ f \in CallFrames /\ FrameShape(f) /\ f \in FramesOf(frames[c])
  BY <1>1, TopFrame
<1>3. TokensOf(c, f, refs) /\ (Destructor(f) => fate[f.self] = "gone") /\ (answer[c] # None => Destructor(f))
  BY <1>1, <1>2 DEF References, TokensHeld, DestroyedIsGone, Answered
<1>4. Destructor(f) => f.self \in Objects
  BY <1>2, Ops DEF Destructor, CloseShape
<1>5. \A o \in Objects : fate[o] = "gone" => refs[o] = {}
  BY <1>1 DEF References, GoneHasNone
<1>6. RightFrame(f) /\ Searching(frames[c], steady[c], closing[c])
  BY <1>1, <1>2 DEF Knowledge, OnlyRight, NothingMissed
<1>7. KeepsSet(c, f, setsHeld, listed) /\ ClosesInOrder(f, fate, listed, using)
  BY <1>1, <1>2 DEF SetsLocked, SetsKept, Closings, FramesInOrder
<1> QED
  BY <1>1, <1>2, <1>3, <1>4, <1>5, <1>6, <1>7

LEMMA ProceedsKeeps ==
    ASSUME LookupInv, NEW c \in Callers, InCall(c), NEW f, f = Top(c), f.loose = {},
           f.todo[1] \in {"lock", "release", "each", "dependents"},
           f.todo[1] = "release" => Len(f.todo) # 1,
           f.todo[1] = "each" => Stops(f),
           f.todo[1] = "dependents" => ~\E o \in using : About[o] = f.self,
           NEW g, \/ f.todo[1] # "each" /\ g = Done(f)
                  \/ f.todo[1] = "each" /\ g = [Done(f) EXCEPT !.rest = {}],
           Moves(c, <<g>> \o Tail(frames[c])),
           Aside, Still, locked' \in [Objects -> Callers \cup {None}], called' = called
    PROVE  LookupInv'
<1>1. /\ f \in CallFrames /\ FrameShape(f) /\ RightFrame(f) /\ CallTypes /\ CallStacks
      /\ TokensOf(c, f, refs) /\ KeepsSet(c, f, setsHeld, listed)
  BY TopKnows
<1>2. /\ Continues(f, g) /\ g.todo = Tail(f.todo) /\ Len(f.todo) > 1
      /\ SameFields(f, g) /\ g.rest = IF f.todo[1] = "each" THEN {} ELSE f.rest
      /\ f.op # "close" => f.ref = None
      /\ f.op = "close" => Stays(f.todo, g.todo)
      /\ f.todo[1] \in {"dependents", "unlist", "uncount", "finish"} => f.op = "close"
  BY <1>1, Proceeds
<1>3. StepsOn(c, g)
  BY <1>2 DEF StepsOn
<1>4. g.key = f.key /\ g.loose = {} /\ g.found = f.found /\ g.ref = f.ref
  BY <1>2 DEF SameFields
<1>5. g.op = f.op /\ g.self = f.self /\ g.for = f.for /\ g \in CallFrames /\ FrameShape(g)
  BY <1>2, Heirs
<1>6. CASE f.op = "close"
  <2>1. \A st \in {"unlist", "dependents"} : FinishesPast(g.todo, st) /\ f.todo[1] # st => FinishesPast(f.todo, st)
    BY <1>2, <1>6 DEF Stays
  <2>2. FinishesPast(g.todo, "unlist") => FinishesPast(f.todo, "unlist")
    BY <2>1
  <2>3. FinishesPast(g.todo, "dependents") /\ Sort[f.self] = "topic" =>
              FinishesPast(f.todo, "dependents") \/ Unused(f.self, using)
    <3>1. f.todo[1] = "dependents" => Unused(f.self, using)
      BY DEF Unused
    <3> QED
      BY <2>1, <3>1
  <2> QED
    BY <1>3, <1>6, <2>2, <2>3, CloseAdvances
<1>7. CASE f.op # "close"
  <2>1. g.rest \subseteq f.rest
    BY <1>2
  <2>2. /\ TokensOf(c, g, refs) /\ KeepsSet(c, g, setsHeld, listed)
        /\ \A op, o : InView(op, f, o) => InView(op, g, o) \/ o \in f.rest \ g.rest
    BY <1>1, <1>2, <1>5, <2>1, SameTokens
  <2>3. RightFrame(g)
    <3>1. \A o : IsAbout(AskOf(g), o) <=> IsAbout(AskOf(f), o)
      BY <1>5 DEF AskOf
    <3> QED
      BY <1>1, <1>4, <1>5, <2>1, <3>1 DEF RightFrame
  <2>4. g.todo \in Leaving2 <=> f.todo \in Leaving2
    <3>1. f.todo \in Seq(StageNames)
      BY <1>1, Ops
    <3>2. EndOf(g.todo) = EndOf(f.todo)
      BY <1>2, <3>1, EndOfTail
    <3> QED
      BY <1>1, <1>5, <1>7, <3>2, LookupLeaving
  <2>5. ASSUME NEW o, NEW b, b = BaseOf(frames[c]), InView(b.op, f, o)
        PROVE  InView(b.op, g, o)
    <3>1. CASE InView(b.op, g, o)
      BY <3>1
    <3>2. CASE o \in f.rest \ g.rest
      <4>1. f.todo[1] = "each" /\ f.rest # {}
        BY <1>2, <3>2
      <4>2. f.found # {} /\ f.op \in {"find_datawriter", "contains"}
        BY <4>1 DEF Stops
      <4>3. b.op # "find_datareaders"
        BY <1>1, <1>7, <2>5, <4>2, BaseFacts, SeeksFacts
      <4> QED
        BY <1>4, <1>5, <1>7, <4>2, <4>3 DEF InView
    <3> QED
      BY <2>2, <2>5, <3>1, <3>2
  <2> QED
    BY <1>3, <1>4, <1>7, <2>2, <2>3, <2>4, <2>5, LookupAdvances
<1> QED
  BY <1>6, <1>7

LEMMA VisitDoneKeeps ==
    ASSUME LookupInv, NEW c \in Callers, VisitDone(c), called' = called
    PROVE  LookupInv'
<1> DEFINE f == Top(c)
           g == [Done(f) EXCEPT !.rest = {}]
<1>1. /\ InCall(c) /\ f.todo[1] = "each" /\ Stops(f)
      /\ frames' = [frames EXCEPT ![c] = <<g>> \o Tail(@)]
      /\ Aside /\ Still /\ locked' = locked
  BY DEF VisitDone, On, Go, SetTop, Undisturbed, Aside, Still
<1>2. f \in CallFrames /\ FrameShape(f) /\ CallTypes
  BY <1>1, TopKnows
<1> HIDE DEF f
<1>3. f.loose = {}
  BY <1>1, <1>2, Ops
<1> HIDE DEF g
<1>4. Moves(c, <<g>> \o Tail(frames[c]))
  BY <1>1, <1>2 DEF Moves, CallTypes
<1>5. locked' \in [Objects -> Callers \cup {None}]
  BY <1>1, <1>2 DEF CallTypes
<1> QED
  BY <1>1, <1>3, <1>4, <1>5, ProceedsKeeps DEF f, g

(* An exception.                                                           *)
LEMMA ThrownTokens ==
    ASSUME NEW c, NEW R, NEW f \in CallFrames, FrameShape(f), f.op # "close", TokensOf(c, f, R),
           NEW g, g.op = f.op, g.loose = (f.loose \cup {f.ref} \cup Held(f)) \ {None},
           g.found = {}, g.ref = None, g.rest = f.rest
    PROVE  TokensOf(c, g, R)
<1>1. CASE f.op = "contains"
  BY <1>1 DEF TokensOf
<1>2. CASE f.op # "contains"
  <2>1. /\ \A o \in Tokens(f) : c \in R[o]
        /\ f.rest \cap (f.found \cup f.loose) = {} /\ f.ref \notin f.rest
    BY <1>2 DEF TokensOf
  <2>2. None \notin f.rest
    BY Ops, LookupAssumption
  <2>3. Held(f) = f.found
    BY <1>2 DEF Held
  <2>4. Tokens(g) \subseteq Tokens(f)
    <3>1. f.found \subseteq Objects /\ f.loose \subseteq Objects /\ None \notin Objects
      BY Ops, LookupAssumption
    <3> QED
      BY <2>3, <3>1 DEF Tokens
  <2>5. g.rest \cap (g.found \cup g.loose) = {} /\ g.found \cap g.loose = {}
        /\ g.ref \notin g.found \cup g.loose \cup g.rest
    BY <2>1, <2>2, <2>3
  <2> QED
    BY <2>1, <2>4, <2>5 DEF TokensOf
<1> QED
  BY <1>1, <1>2

LEMMA ThrowKeeps ==
    ASSUME LookupInv, NEW c \in Callers, InCall(c), NEW f, f = Top(c), Throw(c), called' = called,
           f.op # "find_topic_description", f.todo[1] \notin {"finish", "unlist", "release"},
           f.op # "close" /\ NoLateWriters => Reason(AskOf(BaseOf(frames[c])), closing[c])
    PROVE  LookupInv'
<1> DEFINE s == frames[c]
<1>1. /\ f \in CallFrames /\ FrameShape(f) /\ RightFrame(f) /\ CallTypes /\ CallStacks
      /\ TokensOf(c, f, refs) /\ KeepsSet(c, f, setsHeld, listed) /\ StackShape(s) /\ s # << >>
      /\ f = s[1] /\ Searching(s, steady[c], closing[c]) /\ f \in FramesOf(s)
  BY TopKnows
<1>2. /\ Aside /\ Still /\ locked' \in [Objects -> Callers \cup {None}]
      /\ \/ /\ ~Plain(f)
            /\ \E g : /\ StepsOn(c, g)
                      /\ g.loose = (f.loose \cup {f.ref} \cup Held(f)) \ {None}
                      /\ g.found = {} /\ g.ref = None /\ g.rest = f.rest /\ g.key = f.key
                      /\ f.op # "close" => g.todo = <<"release", "unwind">>
                      /\ f.op = "close" => g.todo = <<"release", "forget">>
         \/ /\ Plain(f)
            /\ \A h \in FramesOf(s) : Plain(h) /\ (h = f \/ h.todo[1] = "release")
            /\ \E g : /\ Moves(c, <<g>>) /\ StackShape(<<g>>) /\ Plain(g)
                      /\ FramesOf(<<g>>) = {g} /\ BaseOf(<<g>>) = g
                      /\ g.self = BaseOf(s).self /\ g.todo = <<"release">>
                      /\ BaseOf(s) \in FramesOf(s)
  BY <1>1, ThrowEffect
<1>3. /\ ~FinishesPast(<<"release", "forget">>, "unlist") /\ ~FinishesPast(<<"release", "forget">>, "dependents")
      /\ ~FinishesPast(<<"release">>, "unlist") /\ ~FinishesPast(<<"release">>, "dependents")
  <2>1. \A i \in 1 .. 2 : i = 1 \/ i = 2
    OBVIOUS
  <2>2. /\ Len(<<"release", "forget">>) = 2 /\ <<"release", "forget">>[1] = "release"
        /\ <<"release", "forget">>[2] = "forget"
        /\ Len(<<"release">>) = 1 /\ <<"release">>[1] = "release"
    OBVIOUS
  <2>3. \A i \in 1 .. 1 : i = 1
    OBVIOUS
  <2>4. \A i \in 1 .. 2 : <<"release", "forget">>[i] # "finish"
    BY <2>1, <2>2
  <2>5. \A i \in 1 .. 1 : <<"release">>[i] # "finish"
    BY <2>2, <2>3
  <2> QED
    BY <2>2, <2>4, <2>5 DEF FinishesPast
<1> HIDE DEF s
<1>4. CASE ~Plain(f) /\ f.op = "close"
  <2>1. PICK g : StepsOn(c, g) /\ g.todo = <<"release", "forget">>
    BY <1>2, <1>4
  <2> QED
    BY <1>2, <1>3, <1>4, <2>1, CloseAdvances
<1>5. CASE f.op # "close"
  <2>1. PICK g : /\ StepsOn(c, g)
                 /\ g.loose = (f.loose \cup {f.ref} \cup Held(f)) \ {None}
                 /\ g.found = {} /\ g.ref = None /\ g.rest = f.rest /\ g.key = f.key
                 /\ g.todo = <<"release", "unwind">>
    BY <1>2, <1>5 DEF Plain
  <2>2. g.op = f.op /\ g.self = f.self /\ g.for = f.for
    BY <2>1, Heirs DEF StepsOn
  <2>3. TokensOf(c, g, refs)
    BY <1>1, <1>5, <2>1, <2>2, ThrownTokens
  <2>4. g.todo \in Leaving2
    BY <2>1 DEF Leaving2
  <2>5. RightFrame(g)
    BY <1>1, <1>5, <2>1, <2>2, <2>4 DEF RightFrame
  <2>6. KeepsSet(c, g, setsHeld, listed)
    BY <1>1, <2>1, <2>2 DEF KeepsSet
  <2>7. /\ Changes(c, {g}) /\ FramesOf(frames'[c]) = {g} \cup Lower(frames[c]) /\ frames'[c] # << >>
    BY <1>1, <2>1, StepChanges
  <2>8. AskOf(BaseOf(frames'[c])) = AskOf(BaseOf(frames[c]))
    BY <1>1, <2>1, Advanced
  <2>9. Searching(frames'[c], steady[c], closing[c])
    <3>1. Unwinds(frames'[c])
      BY <2>4, <2>7 DEF Unwinds
    <3> QED
      BY <1>5, <2>8, <3>1 DEF Searching
  <2> QED
    BY <1>2, <1>5, <2>2, <2>3, <2>5, <2>6, <2>7, <2>9, LookupQuiet
<1>6. CASE Plain(f)
  <2>1. PICK g : /\ Moves(c, <<g>>) /\ StackShape(<<g>>) /\ Plain(g)
                 /\ FramesOf(<<g>>) = {g} /\ BaseOf(<<g>>) = g
                 /\ g.self = BaseOf(s).self /\ g.todo = <<"release">>
                 /\ BaseOf(s) \in FramesOf(s)
    BY <1>2, <1>6
  <2>2. \A h \in Lower(s) : h.todo[1] = "release"
    <3>1. Fits(f, Tail(s)) /\ Lower(s) = FramesOf(Tail(s))
      BY <1>1, PoppedStack DEF Lower
    <3> QED
      BY <1>6, <3>1 DEF Fits, FramesOf
  <2>3. OwnKeys(<<g>>)
    <3>1. \A i, j \in 1 .. Len(<<g>>) : i = j
      OBVIOUS
    <3> QED
      BY <3>1 DEF OwnKeys
  <2>4. g.op = "close" /\ ~Destructor(g) /\ f.op = "close" /\ ~Destructor(f)
    BY <1>6, <2>1 DEF Plain
  <2>5. Goes(s, <<g>>, {g})
    BY <2>1, <2>2, <2>3, <2>4 DEF Goes
  <2>6. Changes(c, {g}) /\ frames'[c] = <<g>>
    BY <1>1, <2>1, <2>5, Changed DEF s
  <2>7. BaseOf(s).op = "close" /\ BaseOf(s).self \in Objects
    <3>1. BaseOf(s).op = "close"
      BY <1>2, <1>6, <2>1 DEF Plain
    <3>2. BaseOf(s) \in CallFrames /\ FrameShape(BaseOf(s))
      BY <1>1, <2>1, FrameTokens DEF s
    <3> QED
      BY <3>1, <3>2, Ops DEF CloseShape
  <2>8. ClosesFor(frames[c], g.self) /\ g.self \in Objects
    BY <2>1, <2>7 DEF ClosesFor, s
  <2>9. ClosesInOrder(g, fate, listed, using)
    <3>1. ClosesInOrder(BaseOf(s), fate, listed, using)
      BY <2>1 DEF LookupInv, Closings, FramesInOrder, s
    <3> QED
      BY <1>3, <2>1, <2>7, <3>1 DEF ClosesInOrder
  <2>10. BaseOf(frames'[c]).op = "close"
    BY <2>1, <2>4, <2>6
  <2> QED
    BY <1>2, <2>4, <2>6, <2>8, <2>9, <2>10, CloseQuiet
<1> QED
  BY <1>4, <1>5, <1>6 DEF Plain

LEMMA HandsOn ==
    ASSUME LookupInv, NEW c \in Callers, InCall(c), NEW f, f = Top(c), NEW g,
           frames' = [frames EXCEPT ![c] = <<g>> \o Tail(@)]
    PROVE  Moves(c, <<g>> \o Tail(frames[c])) /\ (Continues(f, g) => StepsOn(c, g))
<1>1. frames \in [Callers -> Seq(CallFrames)]
  BY DEF LookupInv, CallTypes
<1> QED
  BY <1>1 DEF Moves, StepsOn

LEMMA LockSelfKeeps ==
    ASSUME LookupInv, NEW c \in Callers, LockSelf(c), called' = called
    PROVE  LookupInv'
<1> DEFINE f == Top(c)
<1>1. /\ InCall(c) /\ f.todo[1] = "lock"
      /\ IF fate[f.self] = "closed" THEN Throw(c)
         ELSE /\ locked' = [locked EXCEPT ![f.self] = c]
              /\ frames' = [frames EXCEPT ![c] = <<Done(f)>> \o Tail(@)]
              /\ Aside /\ Still
  BY DEF LockSelf, On, SetTop, Undisturbed, Aside, Still
<1>2. f \in CallFrames /\ FrameShape(f) /\ CallTypes /\ CallStacks /\ Closings
  BY <1>1, TopKnows
<1>c. InCall(c) /\ f = Top(c)
  BY <1>1
<1> HIDE DEF f
<1>3. f.loose = {} /\ f.op # "find_topic_description"
  <2>1. f.op = "find_topic_description" => f.todo \in TwiceTodos
    BY <1>2, Ops DEF TwiceShape
  <2>2. f.op = "find_topic_description" => f.todo[1] \in {"first", "second", "release", "return", "unwind"}
    BY <2>1, TwiceStages
  <2> QED
    BY <1>1, <1>2, <2>2, Ops
<1>4. f.self \in Objects
  BY <1>1, <1>2, <1>3, Ops DEF CloseShape, FindShape, ContainsShape
<1>5. CASE fate[f.self] = "closed"
  <2>1. ASSUME f.op # "close"
        PROVE  Reason(AskOf(BaseOf(frames[c])), closing[c])
    <3> DEFINE b == BaseOf(frames[c])
    <3>1. b.op # "close" /\ b.self = f.self
      <4>1. f.op \in DOMAIN Seeks => b.self = f.self /\ b.op # "close"
        BY <1>1, <1>2, <2>1, BaseFacts DEF f
      <4>2. CASE f.op = "contains"
        <5> DEFINE s == frames[c]
                   q == Tail(s)
        <5>0. s = frames[c] /\ q = Tail(s)
          OBVIOUS
        <5> HIDE DEF s, q
        <5>a. StackShape(s) /\ s # << >> /\ f = s[1]
          BY <1>c, <5>0, TopKnows
        <5>1. Fits(s[1], q) /\ BaseOf(s) = IF q = << >> THEN s[1] ELSE BaseOf(q)
          BY <5>0, <5>a, PoppedStack
        <5>2. q = << >>
          BY <1>1, <4>2, <5>1, <5>a DEF Fits
        <5> QED
          BY <4>2, <5>0, <5>1, <5>2, <5>a
      <4> QED
        BY <1>2, <1>3, <2>1, <4>1, <4>2, Ops
    <3> HIDE DEF b
    <3>2. f.self \in closing[c]
      BY <1>1, <1>2, <1>4, <1>5, <3>1 DEF Closings, ClosingIsKnown, b
    <3>3. AskOf(b).on = f.self
      BY <3>1 DEF AskOf
    <3> QED
      BY <3>2, <3>3 DEF Reason, b
  <2> QED
    BY <1>1, <1>3, <1>5, <2>1, ThrowKeeps DEF f
<1>6. CASE fate[f.self] # "closed"
  <2>1. locked' \in [Objects -> Callers \cup {None}]
    BY <1>1, <1>2, <1>4, <1>6 DEF CallTypes
  <2> DEFINE g == Done(f)
  <2>2. frames' = [frames EXCEPT ![c] = <<g>> \o Tail(@)] /\ Aside /\ Still
    BY <1>1, <1>6
  <2> HIDE DEF g
  <2>3. Moves(c, <<g>> \o Tail(frames[c]))
    BY <1>1, <2>2, HandsOn
  <2> QED
    BY <1>1, <1>3, <2>1, <2>2, <2>3, ProceedsKeeps DEF f, g
<1> QED
  BY <1>5, <1>6

LEMMA HasUsersKeeps ==
    ASSUME LookupInv, NEW c \in Callers, HasUsers(c), called' = called
    PROVE  LookupInv'
<1> DEFINE f == Top(c)
           g == Done(f)
<1>1. /\ InCall(c) /\ f.todo[1] = "dependents"
      /\ IF \E o \in using : About[o] = f.self THEN Throw(c)
         ELSE /\ frames' = [frames EXCEPT ![c] = <<g>> \o Tail(@)]
              /\ Aside /\ Still /\ locked' = locked
  BY DEF HasUsers, On, Go, SetTop, Undisturbed, Aside, Still
<1>2. f \in CallFrames /\ FrameShape(f) /\ CallTypes
  BY <1>1, TopKnows
<1> HIDE DEF f
<1>3. f.loose = {} /\ f.op = "close"
  <2>1. f.loose = {}
    BY <1>1, <1>2, Ops
  <2>2. Done(f) = Done(f)
    OBVIOUS
  <2> QED
    BY <1>1, <1>2, <2>1, <2>2, Proceeds
<1>4. locked \in [Objects -> Callers \cup {None}]
  BY <1>2 DEF CallTypes
<1>5. CASE \E o \in using : About[o] = f.self
  BY <1>1, <1>3, <1>5, ThrowKeeps DEF f
<1> HIDE DEF g
<1>6. CASE ~\E o \in using : About[o] = f.self
  <2>1. Moves(c, <<g>> \o Tail(frames[c]))
    BY <1>1, <1>6, HandsOn
  <2> QED
    BY <1>1, <1>3, <1>4, <1>6, <2>1, ProceedsKeeps DEF f, g
<1> QED
  BY <1>5, <1>6

(* The members of a set.                                                   *)
LEMMA MembersFacts ==
    ASSUME CallTypes, NEW self, NEW sort
    PROVE  /\ Members(<<self, sort>>) \in SUBSET Objects /\ Members(<<self, sort>>) \subseteq listed
           /\ \A o \in Members(<<self, sort>>) :
                 Holder[o] = self /\ SetSort(Sort[o]) = sort /\ SetOf(o) = <<self, sort>>
           /\ \A o \in Undisturbable(<<self, sort>>) : o \in Members(<<self, sort>>) /\ "app" \in refs[o]
<1>1. \A o \in Members(<<self, sort>>) : o \in listed /\ SetOf(o) = <<self, sort>>
  BY DEF Members
<1>2. \A o : SetOf(o) = <<self, sort>> => Holder[o] = self /\ SetSort(Sort[o]) = sort
  BY DEF SetOf
<1>3. listed \subseteq Objects
  BY DEF CallTypes
<1> QED
  BY <1>1, <1>2, <1>3 DEF Undisturbable

LEMMA SearchMore ==
    ASSUME NEW t, NEW S, NEW U, NEW C, Searching(t, S, C), NEW g \in FramesOf(t), g.op # "close",
           U \subseteq g.rest
    PROVE  Searching(t, S \cup U, C)
<1>1. \A op : \A o \in U : InView(op, g, o)
  BY DEF InView
<1> QED
  BY <1>1 DEF Searching

LEMMA CopySetKeeps ==
    ASSUME LookupInv, NEW c \in Callers, CopySet(c), called' = called
    PROVE  LookupInv'
<1> DEFINE f == Top(c)
<1>1. PICK sort \in Sorts :
         /\ InCall(c) /\ f.op # "contains" /\ f.todo[1] = sort
         /\ frames' = [frames EXCEPT ![c] =
               <<[f EXCEPT !.todo = <<"each">> \o Tail(@), !.rest = Members(<<f.self, sort>>)]>> \o Tail(@)]
         /\ steady' = [steady EXCEPT ![c] = IF f.op = "close" THEN @ ELSE
                              @ \cup Undisturbable(<<f.self, sort>>)]
         /\ Aside /\ locked' = locked /\ closing' = closing
  BY DEF CopySet, On, SetTop, Aside
<1> DEFINE R == Members(<<f.self, sort>>)
           g == [f EXCEPT !.todo = <<"each">> \o Tail(@), !.rest = R]
           U == Undisturbable(<<f.self, sort>>)
<1>2. /\ f \in CallFrames /\ FrameShape(f) /\ CallTypes /\ CallStacks /\ SetsLocked /\ References
      /\ Searching(frames[c], steady[c], closing[c])
  BY <1>1, TopKnows
<1>3. /\ R \in SUBSET Objects /\ \A o \in R : Holder[o] = f.self /\ SetSort(Sort[o]) = sort
      /\ \A o \in U : o \in R /\ "app" \in refs[o]
  BY <1>2, MembersFacts
<1>4. frames' = [frames EXCEPT ![c] = <<g>> \o Tail(@)]
  BY <1>1
<1>a. /\ f.todo[1] = sort /\ InCall(c) /\ f.op # "contains" /\ Aside /\ locked' = locked /\ closing' = closing
      /\ steady' = [steady EXCEPT ![c] = IF f.op = "close" THEN @ ELSE @ \cup U]
  BY <1>1
<1> HIDE DEF f, R, U
<1>5. g.key = f.key /\ g.found = f.found /\ g.ref = f.ref /\ g.loose = f.loose /\ g.rest = R
      /\ g.todo = <<"each">> \o Tail(f.todo)
  BY <1>2 DEF CallFrames
<1>6. sort \notin {"finish", "unlist", "dependents", "release", "each", "test", "name", "lock", "first", "second"}
  BY DEF Sorts, Containers
<1>7. locked \in [Objects -> Callers \cup {None}] /\ steady \in [Callers -> SUBSET Objects]
      /\ setsHeld \subseteq Sets \X Callers
  BY <1>2 DEF CallTypes
<1>b. f.loose = {}
  BY <1>2, <1>6, <1>a, Ops
<1>8. CASE f.op = "close"
  <2>0. /\ g = [f EXCEPT !.todo = <<"each">> \o Tail(@), !.rest = R]
        /\ f.todo[1] \in Sorts /\ R \in SUBSET Objects /\ \A o \in R : Holder[o] = f.self
    BY <1>3, <1>a
  <2>a. f \in CallFrames /\ FrameShape(f)
    BY <1>2
  <2>1. /\ Continues(f, g) /\ g.todo = <<"each">> \o Tail(f.todo) /\ Len(f.todo) > 1
    <3>1. g = CopiedFrame(f, R)
      BY DEF CopiedFrame
    <3> HIDE DEF g
    <3> QED
      BY <1>8, <2>0, <2>a, <3>1, CloseCopies
  <2> HIDE DEF g
  <2>2. StepsOn(c, g)
    BY <1>4, <1>a, <2>1, HandsOn DEF f
  <2>3. CloseTodo(f.todo) /\ f.todo # << >>
    BY <1>2, <1>8, Ops DEF CloseShape
  <2>4. /\ CloseTodo(Tail(f.todo)) /\ Tail(f.todo) # << >>
        /\ \A st \in {"unlist", "dependents"} :
              FinishesPast(Tail(f.todo), st) /\ f.todo[1] # st => FinishesPast(f.todo, st)
    BY <2>1, <2>3, CloseTail
  <2>5. \A i \in 1 .. Len(Tail(f.todo)) : Tail(f.todo)[i] # "release"
    <3>1. f.todo \in Seq(StageNames)
      BY <1>2, Ops
    <3>2. /\ \A i \in 1 .. Len(Tail(f.todo)) : Tail(f.todo)[i] = f.todo[i + 1]
          /\ Len(Tail(f.todo)) = Len(f.todo) - 1 /\ Len(f.todo) \in Nat
      BY <2>3, <3>1, OffStack
    <3>3. \A i \in 2 .. Len(f.todo) : f.todo[i] # "release"
      BY <2>3 DEF CloseTodo
    <3>4. \A i \in 1 .. Len(Tail(f.todo)) : i + 1 \in 2 .. Len(f.todo)
      BY <3>2
    <3> QED
      BY <3>2, <3>3, <3>4
  <2>6. \A st \in {"unlist", "dependents"} : FinishesPast(g.todo, st) => FinishesPast(Tail(f.todo), st)
    <3> DEFINE q == Tail(f.todo)
    <3>1. CloseTodo(q) /\ q # << >> /\ (\A i \in 1 .. Len(q) : q[i] # "release") /\ "each" \in {"each", "release"}
      BY <2>4, <2>5
    <3>2. g.todo = <<"each">> \o q
      BY <2>1
    <3> HIDE DEF q
    <3>3. \A st \in {"unlist", "dependents"} : FinishesPast(<<"each">> \o q, st) => FinishesPast(q, st)
      BY <3>1, ClosePut
    <3> QED
      BY <3>2, <3>3 DEF q
  <2>7. /\ FinishesPast(g.todo, "unlist") => FinishesPast(f.todo, "unlist")
        /\ FinishesPast(g.todo, "dependents") => FinishesPast(f.todo, "dependents")
        /\ f.todo[1] \notin {"finish", "unlist"}
    BY <1>6, <1>a, <2>4, <2>6
  <2>8. steady' = steady
    BY <1>7, <1>8, <1>a
  <2>9. Still
    BY <1>a, <2>8 DEF Still
  <2> QED
    BY <1>7, <1>8, <1>a, <2>2, <2>7, <2>9, CloseAdvances DEF f
<1>9. CASE f.op # "close"
  <2>1. /\ Continues(f, g) /\ f.op \in DOMAIN Seeks /\ f.todo[1] = Seeks[f.op]
        /\ f.todo = <<Seeks[f.op], "return">>
        /\ f.found = {} /\ f.ref = None /\ f.loose = {} /\ g.todo = <<"each", "return">>
    BY <1>2, <1>3, <1>9, <1>a, LookupCopies
  <2> HIDE DEF g
  <2>2. StepsOn(c, g)
    BY <1>4, <1>a, <2>1, HandsOn DEF f
  <2>3. g.op = f.op /\ g.self = f.self /\ g.for = f.for /\ g \in CallFrames /\ FrameShape(g)
    BY <2>1, Heirs
  <2>4. f.todo \notin Leaving2 /\ g.todo \notin Leaving2
    <3>1. Seeks[f.op] \in SoughtSorts
      BY <1>2, <2>1, Ops
    <3> DEFINE st == Seeks[f.op]
    <3> HIDE DEF st
    <3>2. <<st, "return">> \notin Leaving2 /\ <<"each", "return">> \notin Leaving2
      BY <3>1, FindForms DEF st
    <3> QED
      BY <2>1, <3>2 DEF st
  <2>5. f.rest = {} /\ Tokens(f) = {}
    <3>1. FindShape(f)
      BY <1>2, <2>1, Ops
    <3>2. <<Seeks[f.op], "return">>[2] = "return"
      OBVIOUS
    <3>3. f.rest = {}
      BY <1>6, <1>a, <2>1, <2>4, <3>1, <3>2 DEF FindShape
    <3> QED
      BY <2>1, <3>3 DEF Tokens
  <2>6. Searching(frames'[c], steady[c], closing[c])
    <3>1. \A op, o : ~InView(op, f, o)
      BY <2>1, <2>5 DEF InView
    <3> QED
      BY <1>2, <1>5, <1>9, <2>2, <2>4, <3>1, SearchAdvances DEF f
  <2>7. /\ Changes(c, {g}) /\ FramesOf(frames'[c]) = {g} \cup Lower(frames[c])
    BY <1>2, <1>5, <2>2, StepChanges DEF f
  <2>8. Searching(frames'[c], steady[c] \cup U, closing[c])
    <3>1. g \in FramesOf(frames'[c]) /\ g.op # "close" /\ U \subseteq g.rest
      BY <1>3, <1>5, <1>9, <2>3, <2>7
    <3> QED
      BY <2>6, <3>1, SearchMore
  <2>9. steady'[c] = steady[c] \cup U /\ \A d \in Callers : d # c => steady'[d] = steady[d]
    BY <1>7, <1>9, <1>a
  <2>10. TokensOf(c, g, refs)
    <3>1. Tokens(g) = {} /\ g.found = {} /\ g.loose = {} /\ g.ref = None
      BY <1>5, <2>1 DEF Tokens
    <3>2. None \notin g.rest
      BY <1>3, <1>5, LookupAssumption
    <3> QED
      BY <3>1, <3>2 DEF TokensOf
  <2>11. RightFrame(g)
    BY <1>3, <1>5, <1>a, <2>1, <2>3 DEF RightFrame
  <2>12. KeepsSet(c, g, setsHeld, listed)
    BY <2>1, <2>3, SeeksFacts DEF KeepsSet
  <2>13. SetsLocked' /\ refs' = refs /\ fate' = fate /\ listed' = listed /\ using' = using /\ answer' = answer
         /\ setsHeld' = setsHeld
    <3>1. refs' = refs /\ fate' = fate /\ listed' = listed /\ using' = using /\ answer' = answer
          /\ setsHeld' = setsHeld
      BY <1>a DEF Aside
    <3> QED
      BY <1>2, <2>7, <2>12, <3>1, SetsStay
  <2>14. OtherTypes
    <3>1. steady' \in [Callers -> SUBSET Objects]
      <4>1. U \subseteq Objects
        BY <1>3
      <4> QED
        BY <1>7, <1>9, <1>a, <4>1
    <3> QED
      BY <1>2, <1>a, <2>13, <3>1 DEF CallTypes, OtherTypes
  <2>15. /\ \A o \in steady'[c] : "app" \in refs[o]
         /\ g.op # "close" /\ TokensOf(c, g, refs')
         /\ Searching(frames'[c], steady'[c], closing[c])
    <3>1. \A o \in steady[c] : "app" \in refs[o]
      BY <1>2 DEF References, SteadyIsHeld
    <3> QED
      BY <1>3, <1>9, <2>3, <2>8, <2>9, <2>10, <2>13, <3>1
  <2>16. /\ \A o \in Objects : refs[o] \subseteq refs'[o] /\ (refs[o] = {} => refs'[o] = {})
         /\ \A d \in Callers : d # c => steady'[d] \subseteq steady[d]
    BY <2>9, <2>13
  <2>17. \A h \in {g} : h.op # "close" /\ TokensOf(c, h, refs') /\ RightFrame(h)
    BY <2>11, <2>15
  <2>18. InCall(c) /\ Top(c).op # "close" /\ closing' = closing
    BY <1>9, <1>a DEF f
  <2> QED
    BY <2>7, <2>13, <2>14, <2>15, <2>16, <2>17, <2>18, LookupKeeps
<1> QED
  BY <1>8, <1>9

-----------------------------------------------------------------------------
(* A reference goes.                                                       *)
LEMMA TogetherAgain ==
    ASSUME LookupInv, NEW c \in Callers, NEW N, Changes(c, N), OtherTypes,
           answer' \in [Callers -> Answers \cup {None}], AnswersAreExact',
           References', Closings', SetsLocked', Knowledge'
    PROVE  LookupInv'
<1>1. CallTypes' /\ CallStacks'
  BY DEF CallTypes, Changes, OtherTypes
<1> QED
  BY <1>1 DEF LookupInv

LEMMA CloseMoves ==
    ASSUME LookupInv, NEW c \in Callers, NEW N, Changes(c, N), OtherTypes,
           answer' \in [Callers -> Answers \cup {None}], AnswersAreExact',
           InCall(c) => /\ Top(c).op = "close"
                        /\ Lower(frames[c]) \subseteq FramesOf(frames'[c]) \/ BaseOf(frames'[c]).op = "close",
           \A h \in N : h.op = "close",
           setsHeld' = setsHeld, \A o \in listed : o \in listed' \/ FreeSet(SetOf(o)),
           \A d \in Callers : steady'[d] \subseteq steady[d] /\ closing[d] \subseteq closing'[d],
           References', Closings'
    PROVE  LookupInv'
<1>1. CallTypes /\ CallStacks /\ SetsLocked /\ Knowledge
  BY DEF LookupInv
<1>2. SetsLocked'
  BY <1>1, CloseRight, SetsStay
<1>3. Searching(frames'[c], steady'[c], closing'[c])
  <2>1. Searching(frames[c], steady[c], closing[c])
    BY <1>1 DEF Knowledge, NothingMissed
  <2> QED
    BY <1>1, <2>1, SearchingOn
<1>4. Knowledge'
  BY <1>1, <1>3, CloseRight, KnowledgeKept
<1> QED
  BY <1>2, <1>4, TogetherAgain

(* The destructor that starts when the last reference goes.                *)
Buries(h, o) ==
    /\ h \in CallFrames /\ FrameShape(h) /\ h.op = "close" /\ h.self = o /\ Destructor(h)
    /\ \A F, L, U : F[o] # "late" => ClosesInOrder(h, F, L, U)

LEMMA DestroyStarts ==
    ASSUME NEW o \in Objects, NEW closed \in BOOLEAN
    PROVE  LET h == DestroyFrame(o, closed)
           IN  Buries(h, o) /\ h.key = None /\ (\A q : Fits(h, q))
<1> DEFINE h == DestroyFrame(o, closed)
<1>1. h = DestroyFrame(o, closed)
  OBVIOUS
<1> HIDE DEF h
<1>2. /\ h \in CallFrames /\ FrameShape(h) /\ h.op = "close" /\ h.self = o /\ h.key = None
      /\ Sort[o] # "discovered" => ~FinishesPast(h.todo, "unlist")
      /\ Sort[o] = "topic" => ~FinishesPast(h.todo, "dependents")
      /\ h # CloseCall(o) => Destructor(h)
  BY <1>1, CloseStarts
<1>3. h # CloseCall(o)
  <2>1. EndOf(CloseBody(Sort[o])) = "finish" /\ EndOf(CloseBody(Sort[o]) \o <<"forget">>) = "forget"
        /\ EndOf(<< >> \o <<"forget">>) = "forget"
    BY LookupAssumption, CloseLiterals
  <2> DEFINE q == CloseBody(Sort[o])
  <2>2. CloseCall(o).todo = q
    BY DEF CloseCall, Call
  <2>3. h.todo = (IF closed THEN << >> ELSE q) \o <<"forget">>
    BY <1>1, <2>2 DEF CloseCall, Call, DestroyFrame
  <2> HIDE DEF q
  <2>4. EndOf(h.todo) = "forget"
    BY <2>1, <2>3 DEF q
  <2> QED
    BY <2>1, <2>2, <2>4 DEF q
<1>4. ASSUME NEW F, NEW L, NEW U, F[o] # "late"
      PROVE  ClosesInOrder(h, F, L, U)
  BY <1>2, <1>4 DEF ClosesInOrder
<1>5. Buries(h, o)
  BY <1>2, <1>3, <1>4 DEF Buries
<1>6. ASSUME NEW q
      PROVE  Fits(h, q)
  BY <1>2, <1>3, SeeksFacts DEF Fits, Plain
<1> QED
  BY <1>2, <1>5, <1>6 DEF h

LetDone(o, holder) ==
    /\ LetsGo(o, holder)
    /\ \A x \in Objects : refs'[x] = IF x = o THEN refs[x] \ {holder} ELSE refs[x]
    /\ \A x \in Objects : fate'[x] = IF x = o /\ refs[o] = {holder} THEN "gone" ELSE fate[x]
    /\ refs' \in [Objects -> SUBSET (Objects \cup Callers \cup {"app"})]
    /\ fate' \in [Objects -> {"late", "open", "closed", "gone"}]
    /\ steady' \in [Callers -> SUBSET Objects]
    /\ closing' \in [Callers -> SUBSET Objects]
    /\ \A d \in Callers : /\ steady'[d] \subseteq steady[d] /\ closing[d] \subseteq closing'[d]
                          /\ holder = "app" => o \notin steady'[d]

LetFrames(c, o, holder, q, N, M) ==
    /\ Changes(c, M) /\ FramesOf(q) \subseteq FramesOf(frames'[c])
    /\ \A h \in M : \/ h \in N
                    \/ /\ Buries(h, o) /\ refs[o] = {holder}
                       /\ \A d \in Callers : InCall(d) => o \in closing'[d]
    /\ \/ FramesOf(frames'[c]) = FramesOf(q) /\ frames'[c] = q
       \/ \E h : Buries(h, o) /\ FramesOf(frames'[c]) = {h} \cup FramesOf(q)
    /\ q # << >> => BaseOf(frames'[c]) = BaseOf(q) /\ frames'[c] # << >>

LEMMA LetEffect ==
    ASSUME CallTypes, CallStacks, NEW c \in Callers, NEW o \in Objects, NEW holder, NEW q, NEW N,
           Goes(frames[c], q, N), Let(c, holder, o, q)
    PROVE  LetDone(o, holder) /\ \E M : LetFrames(c, o, holder, q, N, M)
<1>1. /\ refs \in [Objects -> SUBSET (Objects \cup Callers \cup {"app"})]
      /\ fate \in [Objects -> {"late", "open", "closed", "gone"}]
      /\ steady \in [Callers -> SUBSET Objects] /\ closing \in [Callers -> SUBSET Objects]
  BY DEF CallTypes
<1>2. refs' = [refs EXCEPT ![o] = @ \ {holder}]
  BY DEF Let
<1>3. refs' \in [Objects -> SUBSET (Objects \cup Callers \cup {"app"})]
      /\ \A x \in Objects : refs'[x] = IF x = o THEN refs[x] \ {holder} ELSE refs[x]
  BY <1>1, <1>2
<1>4. StackShape(q)
  BY DEF Goes
<1>5. CASE refs[o] = {holder}
  <2> DEFINE h == DestroyFrame(o, fate[o] = "closed")
             t == <<h>> \o q
  <2>1. fate' = [fate EXCEPT ![o] = "gone"] /\ Disturb(o) /\ Moves(c, t)
    BY <1>5 DEF Let, Moves, DestroyFrame
  <2>2. Buries(h, o) /\ h.key = None /\ (\A p : Fits(h, p))
    BY DestroyStarts
  <2> HIDE DEF h
  <2>3. h \in CallFrames /\ FrameShape(h) /\ h.op = "close"
    BY <2>2 DEF Buries
  <2>4. Goes(frames[c], t, N \cup {h}) /\ FramesOf(t) = {h} \cup FramesOf(q) /\ t # << >>
    BY <2>2, <2>3, GoesUp
  <2>5. BaseOf(t) = IF q = << >> THEN h ELSE BaseOf(q)
    BY <1>4, <2>2, <2>3, PushedStack
  <2> HIDE DEF t
  <2>6. Changes(c, N \cup {h}) /\ frames'[c] = t
    BY <2>1, <2>4, Changed
  <2>7. /\ steady' = [d \in Callers |-> steady[d] \ {o}]
        /\ closing' = [d \in Callers |-> IF InCall(d) THEN closing[d] \cup {o} ELSE closing[d]]
    BY <2>1 DEF Disturb
  <2>8. /\ steady' \in [Callers -> SUBSET Objects] /\ closing' \in [Callers -> SUBSET Objects]
        /\ \A d \in Callers : /\ steady'[d] \subseteq steady[d] /\ closing[d] \subseteq closing'[d]
                              /\ o \notin steady'[d] /\ (InCall(d) => o \in closing'[d])
    BY <1>1, <2>7
  <2>9. fate' \in [Objects -> {"late", "open", "closed", "gone"}]
    BY <1>1, <2>1
  <2> DEFINE M == N \cup {h}
  <2>10. /\ Changes(c, M) /\ FramesOf(q) \subseteq FramesOf(frames'[c])
         /\ \A x \in M : \/ x \in N
                         \/ /\ Buries(x, o) /\ refs[o] = {holder}
                            /\ \A d \in Callers : InCall(d) => o \in closing'[d]
         /\ \E x : Buries(x, o) /\ FramesOf(frames'[c]) = {x} \cup FramesOf(q)
         /\ q # << >> => BaseOf(frames'[c]) = BaseOf(q) /\ frames'[c] # << >>
    BY <1>5, <2>2, <2>4, <2>5, <2>6, <2>8
  <2> HIDE DEF M
  <2>11. /\ LetsGo(o, holder)
         /\ \A x \in Objects : fate'[x] = IF x = o /\ refs[o] = {holder} THEN "gone" ELSE fate[x]
    BY <1>1, <1>2, <1>5, <2>1 DEF LetsGo
  <2> QED
    BY <1>3, <2>8, <2>9, <2>10, <2>11 DEF LetDone, LetFrames
<1>6. CASE refs[o] # {holder}
  <2>1. /\ Moves(c, q) /\ fate' = fate /\ closing' = closing
        /\ steady' = [x \in Callers |-> IF holder = "app" THEN steady[x] \ {o} ELSE steady[x]]
    BY <1>6 DEF Let, Moves
  <2>2. Changes(c, N) /\ frames'[c] = q
    BY <2>1, Changed
  <2>3. /\ steady' \in [Callers -> SUBSET Objects] /\ closing' \in [Callers -> SUBSET Objects]
        /\ \A d \in Callers : /\ steady'[d] \subseteq steady[d] /\ closing[d] \subseteq closing'[d]
                              /\ holder = "app" => o \notin steady'[d]
    BY <1>1, <2>1
  <2>4. /\ FramesOf(q) \subseteq FramesOf(frames'[c]) /\ FramesOf(frames'[c]) = FramesOf(q)
        /\ q # << >> => BaseOf(frames'[c]) = BaseOf(q) /\ frames'[c] # << >>
    BY <2>2
  <2>5. /\ LetsGo(o, holder)
        /\ \A x \in Objects : fate'[x] = IF x = o /\ refs[o] = {holder} THEN "gone" ELSE fate[x]
    BY <1>2, <1>6, <2>1 DEF LetsGo
  <2> QED
    BY <1>1, <1>3, <2>1, <2>2, <2>3, <2>4, <2>5 DEF LetDone, LetFrames
<1> QED
  BY <1>5, <1>6

(* A close(), a destructor or the application lets go of a reference.      *)
LEMMA LetAnswers ==
    ASSUME CallTypes, CallStacks, References, NEW c \in Callers, NEW o \in Objects,
           NEW holder \in {"app", c} \cup Objects, NEW q, NEW N, NEW M,
           LetDone(o, holder), LetFrames(c, o, holder, q, N, M), answer' = answer,
           answer[c] # None => holder # c /\ \A h \in N : Destructor(h)
    PROVE  Answered'
<1>1. answer[c] # None => holder # c /\ \A h \in M : Destructor(h)
  BY DEF LetFrames, Buries
<1>2. LetsGo(o, holder) /\ Changes(c, M)
  BY DEF LetDone, LetFrames
<1> QED
  BY <1>1, <1>2, AnsweredKept

LEMMA LetCloses ==
    ASSUME LookupInv, NEW c \in Callers, NEW o \in Objects, NEW holder \in {"app", c} \cup Objects,
           NEW q, NEW N, NEW M, LetDone(o, holder), LetFrames(c, o, holder, q, N, M),
           locked' \in [Objects -> Callers \cup {None}],
           called' \in [Callers -> Nat], \A d \in Callers : called'[d] \in 0 .. MaxCalls[d],
           setsHeld' = setsHeld, listed' = listed, using' \subseteq using,
           InCall(c) => Top(c).op = "close" /\ Lower(frames[c]) \subseteq FramesOf(q),
           holder = c => \A h \in Lower(frames[c]) : h.op = "close",
           \A x \in Objects : Holder[x] = o /\ holder = x => refs[x] = {},
           \A h \in N : /\ h.op = "close" /\ h.self \in Objects
                        /\ ClosesInOrder(h, fate', listed, using')
                        /\ ClosesFor(frames[c], h.self)
                        /\ Destructor(h) => fate'[h.self] = "gone",
           \A x \in Objects :
              (Sort[x] \in {"reader", "writer"} /\ x \in using \ using') \/ (InCall(c) /\ AboutToFinish(Top(c), x)) =>
                 refs'[x] = {} \/ \E h \in FramesOf(q) : AboutToFinish(h, x),
           answer' \in [Callers -> Answers \cup {None}], Answered', References' => AnswersAreExact'
    PROVE  LookupInv'
<1>1. CallTypes /\ CallStacks /\ References /\ Closings
  BY DEF LookupInv
<1>2. /\ LetsGo(o, holder)
      /\ \A x \in Objects : refs'[x] = IF x = o THEN refs[x] \ {holder} ELSE refs[x]
      /\ \A x \in Objects : fate'[x] = IF x = o /\ refs[o] = {holder} THEN "gone" ELSE fate[x]
      /\ refs' \in [Objects -> SUBSET (Objects \cup Callers \cup {"app"})]
      /\ fate' \in [Objects -> {"late", "open", "closed", "gone"}]
      /\ steady' \in [Callers -> SUBSET Objects]
      /\ closing' \in [Callers -> SUBSET Objects]
      /\ \A d \in Callers : /\ steady'[d] \subseteq steady[d] /\ closing[d] \subseteq closing'[d]
                            /\ holder = "app" => o \notin steady'[d]
  BY DEF LetDone
<1>3. /\ Changes(c, M) /\ FramesOf(q) \subseteq FramesOf(frames'[c])
      /\ \A h \in M : \/ h \in N
                      \/ /\ Buries(h, o) /\ refs[o] = {holder}
                         /\ \A d \in Callers : InCall(d) => o \in closing'[d]
  BY DEF LetFrames
<1>4. refs \in [Objects -> SUBSET (Objects \cup Callers \cup {"app"})]
      /\ fate \in [Objects -> {"late", "open", "closed", "gone"}]
  BY <1>1 DEF CallTypes
<1>5. refs[o] = {holder} => fate'[o] = "gone" /\ refs'[o] = {}
  BY <1>2, <1>4
<1>6. \A h \in M : /\ h.op = "close" /\ h.self \in Objects
                   /\ Destructor(h) => fate'[h.self] = "gone"
                   /\ ClosesInOrder(h, fate', listed, using')
                   /\ \/ ClosesFor(frames[c], h.self)
                      \/ \A d \in Callers : InCall(d) => h.self \in closing'[d]
  <2> SUFFICES ASSUME NEW h \in M
               PROVE  /\ h.op = "close" /\ h.self \in Objects
                      /\ Destructor(h) => fate'[h.self] = "gone"
                      /\ ClosesInOrder(h, fate', listed, using')
                      /\ \/ ClosesFor(frames[c], h.self)
                         \/ \A d \in Callers : InCall(d) => h.self \in closing'[d]
    OBVIOUS
  <2>1. CASE h \in N
    BY <2>1
  <2>2. CASE Buries(h, o) /\ refs[o] = {holder} /\ \A d \in Callers : InCall(d) => o \in closing'[d]
    <3>1. h.op = "close" /\ h.self = o /\ \A F, L, U : F[o] # "late" => ClosesInOrder(h, F, L, U)
      BY <2>2 DEF Buries
    <3>2. fate'[o] # "late" /\ fate'[o] = "gone"
      BY <1>5, <2>2
    <3>3. ClosesInOrder(h, fate', listed, using')
      BY <3>1, <3>2
    <3> QED
      BY <2>2, <3>1, <3>2, <3>3
  <2> QED
    BY <1>3, <2>1, <2>2
<1>7. Answered'
  OBVIOUS
<1>8. References'
  <2>1. \A h \in M : (Destructor(h) => fate'[h.self] = "gone") /\ TokensOf(c, h, refs')
    BY <1>6, CloseRight
  <2>2. holder = c => \A h \in Lower(frames[c]) : TokensOf(c, h, refs')
    BY CloseRight
  <2>3. \A d \in Callers : steady'[d] \subseteq steady[d] /\ (holder = "app" => o \notin steady'[d])
    BY <1>2
  <2>4. c \in Callers /\ o \in Objects /\ holder \in {"app", c} \cup Objects
    OBVIOUS
  <2>5. \A x \in Objects : Holder[x] = o /\ holder = x => refs[x] = {}
    OBVIOUS
  <2> QED
    BY ONLY <1>1, <1>2, <1>3, <1>7, <2>1, <2>2, <2>3, <2>4, <2>5, RefsLess
<1>9. Closings'
  <2>1. \A x \in Objects : fate'[x] = fate[x] \/ (fate'[x] = "gone" /\ refs'[x] = {})
    BY <1>2, <1>4
  <2>2. \A x \in Objects : refs'[x] # {} => refs[x] # {}
    BY <1>2, <1>4
  <2>3. \A x \in Objects :
           (Sort[x] \in {"reader", "writer"} /\ x \in using \ using') \/ (InCall(c) /\ AboutToFinish(Top(c), x)) =>
              fate'[x] = "closed" \/ refs'[x] = {} \/ \E h \in FramesOf(frames'[c]) : AboutToFinish(h, x)
    BY <1>3
  <2>4. \A h \in M : h.op = "close" => h.self \in Objects /\ ClosesInOrder(h, fate', listed', using')
    BY <1>6
  <2>5. listed' \subseteq listed
    OBVIOUS
  <2>6. \A h \in M : h.op = "close" =>
           ClosesFor(frames[c], h.self) \/ \A d \in Callers : InCall(d) => h.self \in closing'[d]
    BY <1>6
  <2> QED
    BY <1>1, <1>2, <1>3, <2>1, <2>2, <2>3, <2>4, <2>5, <2>6, ClosingsKept
<1>10. OtherTypes
  BY <1>1, <1>2 DEF CallTypes, OtherTypes
<1>11. InCall(c) => Top(c).op = "close" /\ Lower(frames[c]) \subseteq FramesOf(frames'[c])
  BY <1>3
<1>12. \A h \in M : h.op = "close"
  BY <1>6
<1>13. \A d \in Callers : steady'[d] \subseteq steady[d] /\ closing[d] \subseteq closing'[d]
  BY <1>2
<1> QED
  BY <1>3, <1>8, <1>9, <1>10, <1>11, <1>12, <1>13, CloseMoves

LEMMA NotAbout ==
    ASSUME NEW f \in CallFrames, FrameShape(f), f.todo[1] \notin {"finish", "unlist"}
    PROVE  \A x : ~AboutToFinish(f, x)
<1>1. Len(f.todo) \in Nat
  BY Ops
<1>2. ASSUME ClearFrom(f.todo, 1)
      PROVE  FALSE
  <2>1. PICK k \in 1 .. Len(f.todo) : f.todo[k] = "finish" /\ \A j \in 1 .. k - 1 : f.todo[j] = "unlist"
    BY <1>2 DEF ClearFrom
  <2>2. k = 1 \/ 1 \in 1 .. k - 1
    BY <1>1
  <2> QED
    BY <2>1, <2>2
<1> QED
  BY <1>2 DEF AboutToFinish

(* A close() or a destructor lets go of a reference, and goes on.          *)
HolderMayGo(o, holder) == \A x \in Objects : Holder[x] = o /\ holder = x => refs[x] = {}

FinishesAs(f, g, o, holder) ==
    LetDone(o, holder) =>
        \A x \in Objects :
            (Sort[x] \in {"reader", "writer"} /\ x \in using \ using') \/ AboutToFinish(f, x) =>
                refs'[x] = {} \/ AboutToFinish(g, x)

LEMMA LetAdvances ==
    ASSUME LookupInv, NEW c \in Callers, InCall(c), NEW f, f = Top(c), f.op = "close",
           NEW g, Continues(f, g), g.key \in {f.key, None},
           NEW o \in Objects, NEW holder \in {"app", c} \cup Objects,
           Let(c, holder, o, <<g>> \o Tail(frames[c])),
           locked' \in [Objects -> Callers \cup {None}], setsHeld' = setsHeld, listed' = listed,
           answer' = answer, called' = called, using' \subseteq using,
           holder = c => Plain(f),
           HolderMayGo(o, holder), ClosesInOrder(g, fate, listed, using'),
           FinishesAs(f, g, o, holder)
    PROVE  LookupInv'
<1>0. /\ \A x \in Objects : Holder[x] = o /\ holder = x => refs[x] = {}
      /\ LetDone(o, holder) =>
           \A x \in Objects :
             (Sort[x] \in {"reader", "writer"} /\ x \in using \ using') \/ AboutToFinish(f, x) =>
                refs'[x] = {} \/ AboutToFinish(g, x)
  BY DEF HolderMayGo, FinishesAs
<1> DEFINE s == frames[c]
           q == <<g>> \o Tail(s)
<1>1. /\ CallTypes /\ CallStacks /\ References /\ Closings /\ AnswersAreExact
      /\ s # << >> /\ StackShape(s) /\ f = s[1]
      /\ f \in CallFrames /\ FrameShape(f) /\ f \in FramesOf(s)
      /\ Destructor(f) => fate[f.self] = "gone"
      /\ ClosesInOrder(f, fate, listed, using)
      /\ answer[c] # None => Destructor(f)
  BY TopKnows DEF LookupInv
<1>2. Goes(s, q, {g}) /\ FramesOf(q) = {g} \cup Lower(s) /\ q # << >>
  <2> HIDE DEF s
  <2> QED
    BY <1>1, GoesOn
<1>3. Let(c, holder, o, q)
  OBVIOUS
<1> HIDE DEF q
<1>4. PICK M : LetDone(o, holder) /\ LetFrames(c, o, holder, q, {g}, M)
  BY <1>1, <1>2, <1>3, LetEffect DEF s
<1>5. /\ g.op = "close" /\ g.self = f.self /\ g \in CallFrames /\ FrameShape(g) /\ f.self \in Objects
      /\ Destructor(g) <=> Destructor(f)
  <2>1. f.self \in Objects
    BY <1>1, Ops DEF CloseShape
  <2> QED
    BY <2>1, Heirs
<1>6. /\ refs' \in [Objects -> SUBSET (Objects \cup Callers \cup {"app"})]
      /\ \A x \in Objects : fate'[x] = fate[x] \/ fate'[x] = "gone"
  BY <1>4 DEF LetDone
<1>7. \A h \in {g} : /\ h.op = "close" /\ h.self \in Objects
                     /\ ClosesInOrder(h, fate', listed, using')
                     /\ ClosesFor(s, h.self)
                     /\ Destructor(h) => fate'[h.self] = "gone"
  <2>1. ClosesFor(s, g.self)
    BY <1>1, <1>5 DEF ClosesFor
  <2>2. Destructor(g) => fate'[g.self] = "gone"
    BY <1>1, <1>5, <1>6
  <2>3. ClosesInOrder(g, fate', listed, using')
    BY <1>5, <1>6 DEF ClosesInOrder
  <2> QED
    BY <1>5, <2>1, <2>2, <2>3
<1>8. holder = c => \A h \in Lower(s) : h.op = "close"
  <2> HIDE DEF s
  <2>1. Fits(s[1], Tail(s))
    BY <1>1, PoppedStack
  <2>2. Plain(f) => \A i \in 1 .. Len(Tail(s)) : Plain(Tail(s)[i])
    BY <1>1, <2>1 DEF Fits
  <2> QED
    BY <1>1, <2>2 DEF Lower, FramesOf, Plain
<1>9. Answered'
  <2>1. answer[c] # None => holder # c /\ \A h \in {g} : Destructor(h)
    BY <1>1, <1>5 DEF Plain
  <2> QED
    BY <1>1, <1>4, <2>1, LetAnswers
<1>10. References' => AnswersAreExact'
  BY <1>1, AnswersKept
<1>11. answer' \in [Callers -> Answers \cup {None}] /\ called' \in [Callers -> Nat]
       /\ \A d \in Callers : called'[d] \in 0 .. MaxCalls[d]
  BY <1>1 DEF CallTypes
<1>12. Lower(s) \subseteq FramesOf(q) /\ Top(c).op = "close"
  BY <1>2
<1>13. \A x \in Objects :
         (Sort[x] \in {"reader", "writer"} /\ x \in using \ using') \/ (InCall(c) /\ AboutToFinish(Top(c), x)) =>
            refs'[x] = {} \/ \E h \in FramesOf(q) : AboutToFinish(h, x)
  BY <1>0, <1>2, <1>4
<1> QED
  BY <1>0, <1>4, <1>7, <1>8, <1>9, <1>10, <1>11, <1>12, <1>13, LetCloses DEF s

LEMMA ReleaseByClose ==
    ASSUME LookupInv, NEW c \in Callers, Release(c), called' = called, NEW f, f = Top(c), f.op = "close"
    PROVE  LookupInv'
<1>1. /\ InCall(c) /\ f.todo[1] = "release"
      /\ IF f.loose = {}
         THEN Onward(c) /\ Aside /\ Still /\ locked' = locked
         ELSE /\ \E o \in f.loose : Let(c, c, o, <<[f EXCEPT !.loose = @ \ {o}]>> \o Tail(frames[c]))
              /\ UNCHANGED <<locked, setsHeld, listed, using, answer>>
  BY DEF Release, On, Undisturbed, Aside, Still
<1>2. /\ f \in CallFrames /\ FrameShape(f) /\ CallTypes /\ CallStacks
      /\ ClosesInOrder(f, fate, listed, using) /\ frames[c] # << >> /\ StackShape(frames[c])
  BY <1>1, TopKnows
<1>3. locked \in [Objects -> Callers \cup {None}] /\ frames \in [Callers -> Seq(CallFrames)]
  BY <1>2 DEF CallTypes
<1>4. CASE f.loose = {}
  <2>1. CASE Len(f.todo) = 1
    <3>1. Moves(c, << >> \o Tail(frames[c]))
      BY <1>1, <1>3, <1>4, <2>1 DEF Onward, Moves
    <3>2. << >> \o Tail(frames[c]) = Tail(frames[c])
      BY <1>2, <1>3, StackForms, OffStack
    <3>3. Moves(c, Tail(frames[c]))
      BY <3>1, <3>2
    <3>4. Goes(frames[c], Tail(frames[c]), {}) /\ FramesOf(Tail(frames[c])) = Lower(frames[c])
      <4> DEFINE s == frames[c]
      <4> HIDE DEF s
      <4>1. s # << >> /\ StackShape(s)
        BY <1>2 DEF s
      <4>2. Goes(s, Tail(s), {}) /\ FramesOf(Tail(s)) = Lower(s)
        BY <4>1, GoesDown
      <4> QED
        BY <4>2 DEF s
    <3>5. Changes(c, {}) /\ frames'[c] = Tail(frames[c])
      BY <1>2, <3>3, <3>4, Changed
    <3>6. Lower(frames[c]) \subseteq FramesOf(frames'[c])
      BY <3>4, <3>5
    <3>7. locked' \in [Objects -> Callers \cup {None}] /\ Aside /\ Still
      BY <1>1, <1>3, <1>4
    <3> QED
      BY <1>1, <3>5, <3>6, <3>7, CloseQuiet
  <2>2. CASE Len(f.todo) # 1
    <3> DEFINE g == Done(f)
    <3>1. frames' = [frames EXCEPT ![c] = <<g>> \o Tail(@)]
      BY <1>1, <1>4, <2>2 DEF Onward
    <3> HIDE DEF g
    <3>2. Moves(c, <<g>> \o Tail(frames[c]))
      BY <1>1, <3>1, HandsOn
    <3> QED
      BY <1>1, <1>3, <1>4, <2>2, <3>2, ProceedsKeeps DEF g
  <2> QED
    BY <2>1, <2>2
<1>5. CASE f.loose # {}
  <2>1. PICK o \in f.loose : Let(c, c, o, <<[f EXCEPT !.loose = @ \ {o}]>> \o Tail(frames[c]))
    BY <1>1, <1>5
  <2> DEFINE L == f.loose \ {o}
             g == [f EXCEPT !.loose = L]
  <2>2. Let(c, c, o, <<g>> \o Tail(frames[c]))
    BY <2>1
  <2>3. g = [f EXCEPT !.loose = L] /\ L \subseteq f.loose /\ f.rest \subseteq f.rest
    OBVIOUS
  <2> HIDE DEF L
  <2>4. g.key = f.key
    BY <1>2 DEF CallFrames
  <2> HIDE DEF g
  <2>5. Continues(f, g) /\ g.todo = f.todo
    BY <1>2, <2>3, Lessens
  <2>6. o \in Objects /\ Plain(f)
    BY <1>2, <1>5, Ops DEF CloseShape, Plain
  <2>7. ClosesInOrder(g, fate, listed, using)
    BY <1>2, <2>5 DEF ClosesInOrder, Continues
  <2>8. \A x \in Objects : ~AboutToFinish(f, x)
    BY <1>1, <1>2, NotAbout
  <2>9. \A x \in Objects : c # x
    BY LookupAssumption
  <2>10. /\ locked' \in [Objects -> Callers \cup {None}] /\ setsHeld' = setsHeld /\ listed' = listed
         /\ answer' = answer /\ using' = using
    BY <1>1, <1>3, <1>5
  <2> QED
    <3> DEFINE holder == c
    <3>1. holder \in {"app", c} \cup Objects /\ g.key \in {f.key, None} /\ using' \subseteq using
          /\ Let(c, holder, o, <<g>> \o Tail(frames[c])) /\ (holder = c => Plain(f))
      BY <2>2, <2>4, <2>6, <2>10
    <3>2. HolderMayGo(o, holder)
      BY <2>9 DEF HolderMayGo
    <3>3. ClosesInOrder(g, fate, listed, using')
      BY <2>7, <2>10
    <3>4. FinishesAs(f, g, o, holder)
      BY <2>8, <2>10 DEF FinishesAs
    <3>5. InCall(c) /\ f = Top(c) /\ f.op = "close" /\ called' = called
      BY <1>1
    <3> HIDE DEF holder
    <3> QED
      BY <2>5, <2>6, <2>10, <3>1, <3>2, <3>3, <3>4, <3>5, LetAdvances
<1> QED
  BY <1>4, <1>5

(* A stage of a close() or of a destructor that changes the object.        *)
LEMMA CloseDoes ==
    ASSUME LookupInv, NEW c \in Callers, InCall(c), NEW f, f = Top(c), f.op = "close",
           NEW N, Changes(c, N), Lower(frames[c]) \subseteq FramesOf(frames'[c]),
           refs' = refs, setsHeld' = setsHeld, answer' = answer, Still, called' = called,
           locked' \in [Objects -> Callers \cup {None}],
           fate' \in [Objects -> {"late", "open", "closed", "gone"}],
           listed' \subseteq listed, using' \subseteq using,
           \A o \in listed : o \in listed' \/ FreeSet(SetOf(o)),
           \A o \in Objects :
              \/ fate'[o] = fate[o]
              \/ /\ o = f.self /\ fate'[o] = "closed" /\ fate[o] \notin {"gone", "late"}
                 /\ Sort[o] # "discovered" => o \notin listed'
                 /\ Sort[o] = "topic" => Unused(o, using'),
           \A h \in N : /\ h.op = "close" /\ h.self = f.self /\ (Destructor(h) <=> Destructor(f))
                        /\ ClosesInOrder(h, fate', listed', using'),
           \A x \in Objects :
              (Sort[x] \in {"reader", "writer"} /\ x \in using \ using') \/ AboutToFinish(f, x) =>
                 fate'[x] = "closed" \/ refs[x] = {} \/ \E h \in FramesOf(frames'[c]) : AboutToFinish(h, x)
    PROVE  LookupInv'
<1>1. /\ CallTypes /\ CallStacks /\ References /\ Closings /\ f \in FramesOf(frames[c])
      /\ f \in CallFrames /\ FrameShape(f)
      /\ Destructor(f) => fate[f.self] = "gone"
      /\ answer[c] # None => Destructor(f)
  BY TopKnows
<1>2. f.self \in Objects
  BY <1>1, Ops DEF CloseShape
<1>3. steady' = steady /\ closing' = closing
  BY DEF Still
<1>4. OtherTypes
  <2>1. /\ refs' \in [Objects -> SUBSET (Objects \cup Callers \cup {"app"})]
        /\ setsHeld' \subseteq Sets \X Callers /\ listed' \subseteq Objects /\ using' \subseteq Objects
        /\ steady' \in [Callers -> SUBSET Objects] /\ closing' \in [Callers -> SUBSET Objects]
        /\ called' \in [Callers -> Nat] /\ \A d \in Callers : called'[d] \in 0 .. MaxCalls[d]
    BY <1>1, <1>3 DEF CallTypes
  <2> QED
    BY <2>1 DEF OtherTypes
<1>5. References'
  <2>1. \A o \in Objects : refs[o] \subseteq refs'[o] /\ (refs[o] = {} => refs'[o] = {})
    OBVIOUS
  <2>2. \A o \in Objects : fate'[o] = fate[o] \/ (fate'[o] = "closed" /\ fate[o] \notin {"gone", "late"})
    OBVIOUS
  <2>3. \A d \in Callers : \A o \in steady'[d] : o \in Objects /\ "app" \in refs[o]
    BY <1>1, <1>3 DEF References, SteadyIsHeld, CallTypes
  <2>4. answer[c] # None => \A h \in N : Destructor(h)
    BY <1>1
  <2>5. \A h \in N : (Destructor(h) => fate[h.self] = "gone" /\ h.self \in Objects) /\ TokensOf(c, h, refs')
    BY <1>1, <1>2, CloseRight
  <2> QED
    BY <1>1, <2>1, <2>2, <2>3, <2>4, <2>5, RefsKept
<1>6. Closings'
  <2>1. ClosesFor(frames[c], f.self)
    BY <1>1 DEF ClosesFor
  <2>2. \A o \in Objects :
           \/ fate'[o] = fate[o]
           \/ fate'[o] = "gone" /\ refs'[o] = {}
           \/ /\ fate'[o] = "closed" /\ ClosesFor(frames[c], o)
              /\ Sort[o] # "discovered" => o \notin listed'
              /\ Sort[o] = "topic" => Unused(o, using')
    BY <2>1
  <2>3. \A o \in Objects : refs'[o] # {} => refs[o] # {}
    OBVIOUS
  <2>4. \A h \in N : h.op = "close" => h.self \in Objects /\ ClosesInOrder(h, fate', listed', using')
    BY <1>2
  <2>5. \A o \in Objects :
           (Sort[o] \in {"reader", "writer"} /\ o \in using \ using') \/ (InCall(c) /\ AboutToFinish(Top(c), o)) =>
              fate'[o] = "closed" \/ refs'[o] = {} \/ \E h \in FramesOf(frames'[c]) : AboutToFinish(h, o)
    OBVIOUS
  <2>6. \A h \in N : h.op = "close" =>
           ClosesFor(frames[c], h.self) \/ \A d \in Callers : InCall(d) => h.self \in closing'[d]
    BY <2>1
  <2>7. \A d \in Callers : closing[d] \subseteq closing'[d]
    BY <1>3
  <2> QED
    BY <1>1, <2>2, <2>3, <2>4, <2>5, <2>6, <2>7, ClosingsKept
<1>7. \A d \in Callers : steady'[d] \subseteq steady[d] /\ closing[d] \subseteq closing'[d]
  BY <1>3
<1>8. \A h \in N : h.op = "close"
  OBVIOUS
<1>9. Top(c).op = "close"
  OBVIOUS
<1> QED
  BY <1>4, <1>5, <1>6, <1>7, <1>8, <1>9, CloseKeeps

(* The function on top goes on to its next stage.                          *)
LEMMA NextStage ==
    ASSUME LookupInv, NEW c \in Callers, InCall(c), NEW f, f = Top(c),
           f.todo[1] \in {"dependents", "unlist", "uncount", "finish"}, f.todo[1] = "finish" => Len(f.todo) # 1,
           NEW g, g = Done(f)
    PROVE  /\ f.op = "close" /\ Continues(f, g) /\ g.op = "close" /\ g.self = f.self
           /\ (Destructor(g) <=> Destructor(f)) /\ g.key = f.key
           /\ Stays(f.todo, g.todo) /\ g.todo = Tail(f.todo)
           /\ Moves(c, <<g>> \o Tail(frames[c])) =>
                 Changes(c, {g}) /\ FramesOf(frames'[c]) = {g} \cup Lower(frames[c])
<1>1. f \in CallFrames /\ FrameShape(f) /\ CallTypes /\ CallStacks
  BY TopKnows
<1>2. f.loose = {}
  BY <1>1, Ops
<1>3. /\ Continues(f, g) /\ g.todo = Tail(f.todo) /\ SameFields(f, g) /\ f.op = "close"
      /\ Stays(f.todo, g.todo)
  BY <1>1, <1>2, Proceeds
<1>4. g.key = f.key
  BY <1>3 DEF SameFields
<1>5. g.op = "close" /\ g.self = f.self /\ (Destructor(g) <=> Destructor(f))
  BY <1>3, Heirs
<1>6. ASSUME Moves(c, <<g>> \o Tail(frames[c]))
      PROVE  Changes(c, {g}) /\ FramesOf(frames'[c]) = {g} \cup Lower(frames[c])
  <2>1. StepsOn(c, g)
    BY <1>3, <1>6 DEF StepsOn
  <2> QED
    BY <1>1, <1>4, <2>1, StepChanges
<1> QED
  BY <1>3, <1>4, <1>5, <1>6

LEMMA UnlistKeeps ==
    ASSUME LookupInv, NEW c \in Callers, Unlist(c), called' = called
    PROVE  LookupInv'
<1> DEFINE f == Top(c)
           g == Done(f)
<1>1. /\ InCall(c) /\ f.todo[1] = "unlist" /\ FreeSet(SetOf(f.self)) /\ listed' = listed \ {f.self}
      /\ frames' = [frames EXCEPT ![c] = <<g>> \o Tail(@)]
      /\ Still /\ refs' = refs /\ fate' = fate /\ locked' = locked /\ setsHeld' = setsHeld
      /\ using' = using /\ answer' = answer
  BY DEF Unlist, On, SetTop, Undisturbed, Still
<1>2. g = Done(f)
  OBVIOUS
<1> HIDE DEF g
<1>3. Moves(c, <<g>> \o Tail(frames[c]))
  BY <1>1, HandsOn
<1> HIDE DEF f
<1>f. f = Top(c)
  BY DEF f
<1>4. /\ f \in CallFrames /\ FrameShape(f) /\ CallTypes /\ ClosesInOrder(f, fate, listed, using)
  BY <1>1, <1>f, TopKnows
<1>5. /\ f.op = "close" /\ g.op = "close" /\ g.self = f.self /\ (Destructor(g) <=> Destructor(f))
      /\ Stays(f.todo, g.todo)
      /\ Changes(c, {g}) /\ FramesOf(frames'[c]) = {g} \cup Lower(frames[c])
  BY <1>1, <1>2, <1>3, <1>f, NextStage
<1>6. ClosesInOrder(g, fate', listed', using')
  <2>1. FinishesPast(g.todo, "dependents") => FinishesPast(f.todo, "dependents")
    BY <1>1, <1>5 DEF Stays
  <2> QED
    BY <1>1, <1>4, <1>5, <2>1 DEF ClosesInOrder
<1>7. \A x \in Objects : AboutToFinish(f, x) => AboutToFinish(g, x)
  BY <1>1, <1>5 DEF AboutToFinish, Stays
<1>8. /\ locked' \in [Objects -> Callers \cup {None}]
      /\ fate' \in [Objects -> {"late", "open", "closed", "gone"}]
  BY <1>1, <1>4 DEF CallTypes
<1>9. /\ \A o \in listed : o \in listed' \/ FreeSet(SetOf(o))
      /\ listed' \subseteq listed /\ using' \subseteq using
      /\ \A o \in Objects :
            \/ fate'[o] = fate[o]
            \/ /\ o = f.self /\ fate'[o] = "closed" /\ fate[o] \notin {"gone", "late"}
               /\ Sort[o] # "discovered" => o \notin listed'
               /\ Sort[o] = "topic" => Unused(o, using')
      /\ Lower(frames[c]) \subseteq FramesOf(frames'[c])
  BY <1>1, <1>5
<1>10. \A h \in {g} : /\ h.op = "close" /\ h.self = f.self /\ (Destructor(h) <=> Destructor(f))
                      /\ ClosesInOrder(h, fate', listed', using')
  BY <1>5, <1>6
<1>11. \A x \in Objects :
          (Sort[x] \in {"reader", "writer"} /\ x \in using \ using') \/ AboutToFinish(f, x) =>
             fate'[x] = "closed" \/ refs[x] = {} \/ \E h \in FramesOf(frames'[c]) : AboutToFinish(h, x)
  BY <1>1, <1>5, <1>7
<1> DEFINE N == {g}
<1>12. /\ Changes(c, N)
       /\ \A h \in N : /\ h.op = "close" /\ h.self = f.self /\ (Destructor(h) <=> Destructor(f))
                       /\ ClosesInOrder(h, fate', listed', using')
  BY <1>5, <1>10
<1> HIDE DEF N
<1>13. /\ InCall(c) /\ f.op = "close" /\ Still /\ refs' = refs /\ setsHeld' = setsHeld
       /\ answer' = answer
  BY <1>1, <1>5
<1> QED
  BY <1>f, <1>8, <1>9, <1>11, <1>12, <1>13, CloseDoes

LEMMA EndCloseKeeps ==
    ASSUME LookupInv, NEW c \in Callers, EndClose(c), called' = called
    PROVE  LookupInv'
<1> DEFINE f == Top(c)
           g == Done(f)
           o == f.self
<1>1. /\ InCall(c) /\ f.todo[1] = "finish"
      /\ fate' = [fate EXCEPT ![o] = IF @ = "gone" THEN @ ELSE "closed"]
      /\ locked' = [locked EXCEPT ![o] = IF @ = c THEN None ELSE @]
      /\ Onward(c) /\ Still /\ refs' = refs /\ setsHeld' = setsHeld /\ listed' = listed
      /\ using' = using /\ answer' = answer
  BY DEF EndClose, On, Undisturbed, Still
<1>2. g = Done(f) /\ o = f.self
  OBVIOUS
<1>f. f = Top(c)
  OBVIOUS
<1>3. frames' = [frames EXCEPT ![c] = (IF Len(f.todo) = 1 THEN << >> ELSE <<g>>) \o Tail(@)]
  BY <1>1 DEF Onward
<1> HIDE DEF g, f, o
<1>4. /\ f \in CallFrames /\ FrameShape(f) /\ CallTypes /\ CallStacks /\ References
      /\ ClosesInOrder(f, fate, listed, using) /\ frames[c] # << >> /\ StackShape(frames[c])
  BY <1>1, <1>f, TopKnows
<1>5. f.op = "close"
  <2>1. CASE f.op \in DOMAIN Seeks
    <3>1. f.todo \in FindTodos(Seeks[f.op]) /\ Seeks[f.op] \in SoughtSorts
      BY <1>4, <2>1, Ops DEF FindShape
    <3> DEFINE sort == Seeks[f.op]
    <3> HIDE DEF sort
    <3>2. f.todo[1] \in {"lock", sort, "each", "test", "name", "release", "return", "unwind"}
      BY <3>1, FindStages DEF sort
    <3>3. sort \in SoughtSorts
      BY <3>1 DEF sort
    <3> QED
      BY <1>1, <3>2, <3>3 DEF SoughtSorts
  <2>2. CASE f.op = "find_topic_description"
    <3>1. f.todo \in TwiceTodos
      BY <1>4, <2>2, Ops DEF TwiceShape
    <3> QED
      BY <1>1, <3>1, TwiceStages
  <2>3. CASE f.op = "contains"
    <3>1. f.todo[1] \in ContainsStages \cup {"unwind"}
      BY <1>4, <2>3, NotContains
    <3> QED
      BY <1>1, <3>1 DEF ContainsStages, Sorts, Containers
  <2> QED
    BY <1>4, <2>1, <2>2, <2>3, Ops
<1>6. /\ o \in Objects /\ frames \in [Callers -> Seq(CallFrames)]
      /\ fate \in [Objects -> {"late", "open", "closed", "gone"}]
      /\ locked \in [Objects -> Callers \cup {None}] /\ Len(f.todo) \in Nat \ {0}
  BY <1>2, <1>4, <1>5, Ops DEF CloseShape, CallTypes
<1>7. /\ \A x \in Objects : fate'[x] = IF x = o /\ fate[o] # "gone" THEN "closed" ELSE fate[x]
      /\ fate' \in [Objects -> {"late", "open", "closed", "gone"}]
      /\ locked' \in [Objects -> Callers \cup {None}]
  BY <1>1, <1>6
<1>8. FinishesPast(f.todo, "unlist") /\ FinishesPast(f.todo, "dependents")
  <2>1. 1 \in 1 .. Len(f.todo) /\ 1 .. 1 - 1 = {}
    BY <1>6
  <2> QED
    BY <1>1, <2>1 DEF FinishesPast
<1>9. /\ fate[o] # "late"
      /\ Sort[o] # "discovered" => o \notin listed
      /\ Sort[o] = "topic" => Unused(o, using)
  BY <1>2, <1>4, <1>5, <1>8 DEF ClosesInOrder
<1>10. \A x \in Objects :
          \/ fate'[x] = fate[x]
          \/ /\ x = f.self /\ fate'[x] = "closed" /\ fate[x] \notin {"gone", "late"}
             /\ Sort[x] # "discovered" => x \notin listed'
             /\ Sort[x] = "topic" => Unused(x, using')
  BY <1>1, <1>2, <1>7, <1>9
<1>11. \A x \in Objects : AboutToFinish(f, x) => fate'[x] = "closed" \/ refs[x] = {}
  <2>1. \A x \in Objects : AboutToFinish(f, x) => x = o
    BY <1>2 DEF AboutToFinish
  <2>2. fate[o] = "gone" => refs[o] = {}
    BY <1>4, <1>6 DEF References, GoneHasNone
  <2> QED
    BY <1>7, <2>1, <2>2
<1>12. \A x \in Objects :
          (Sort[x] \in {"reader", "writer"} /\ x \in using \ using') \/ AboutToFinish(f, x) =>
             fate'[x] = "closed" \/ refs[x] = {} \/ \E h \in FramesOf(frames'[c]) : AboutToFinish(h, x)
  BY <1>1, <1>11
<1>13. \A x \in listed : x \in listed' \/ FreeSet(SetOf(x))
  BY <1>1
<1>16. /\ InCall(c) /\ f.op = "close" /\ Still /\ refs' = refs /\ setsHeld' = setsHeld
       /\ answer' = answer
  BY <1>1, <1>5
<1>14. CASE Len(f.todo) = 1
  <2>1. Moves(c, << >> \o Tail(frames[c]))
    BY <1>3, <1>6, <1>14 DEF Moves
  <2>2. << >> \o Tail(frames[c]) = Tail(frames[c])
    BY <1>4, <1>6, StackForms, OffStack
  <2>3. Moves(c, Tail(frames[c]))
    BY <2>1, <2>2
  <2>4. Goes(frames[c], Tail(frames[c]), {}) /\ FramesOf(Tail(frames[c])) = Lower(frames[c])
    <3> DEFINE s == frames[c]
    <3> HIDE DEF s
    <3>1. s # << >> /\ StackShape(s)
      BY <1>4 DEF s
    <3>2. Goes(s, Tail(s), {}) /\ FramesOf(Tail(s)) = Lower(s)
      BY <3>1, GoesDown
    <3> QED
      BY <3>2 DEF s
  <2>5. Changes(c, {}) /\ frames'[c] = Tail(frames[c])
    BY <1>4, <2>3, <2>4, Changed
  <2>6. Lower(frames[c]) \subseteq FramesOf(frames'[c])
    BY <2>4, <2>5
  <2>7. \A h \in {} : /\ h.op = "close" /\ h.self = f.self /\ (Destructor(h) <=> Destructor(f))
                      /\ ClosesInOrder(h, fate', listed', using')
    OBVIOUS
  <2>8. listed' \subseteq listed /\ using' \subseteq using
    BY <1>1
  <2> QED
    BY <1>1, <1>f, <1>5, <1>7, <1>10, <1>12, <1>13, <2>5, <2>6, <2>7, <2>8, CloseDoes
<1>15. CASE Len(f.todo) # 1
  <2>1. frames' = [frames EXCEPT ![c] = <<g>> \o Tail(@)]
    BY <1>3, <1>15
  <2>2. Moves(c, <<g>> \o Tail(frames[c]))
    BY <1>1, <2>1, HandsOn
  <2>3. /\ f.op = "close" /\ g.op = "close" /\ g.self = f.self /\ (Destructor(g) <=> Destructor(f))
        /\ Changes(c, {g}) /\ FramesOf(frames'[c]) = {g} \cup Lower(frames[c])
    BY <1>1, <1>2, <1>15, <2>2, <1>f, NextStage
  <2>4. ClosesInOrder(g, fate', listed', using')
    BY <1>1, <1>2, <1>6, <1>7, <1>9, <2>3 DEF ClosesInOrder
  <2>5. \A h \in {g} : /\ h.op = "close" /\ h.self = f.self /\ (Destructor(h) <=> Destructor(f))
                       /\ ClosesInOrder(h, fate', listed', using')
    BY <2>3, <2>4
  <2>6. Lower(frames[c]) \subseteq FramesOf(frames'[c]) /\ listed' \subseteq listed /\ using' \subseteq using
    BY <1>1, <2>3
  <2> DEFINE N == {g}
  <2>7. /\ Changes(c, N)
        /\ \A h \in N : /\ h.op = "close" /\ h.self = f.self /\ (Destructor(h) <=> Destructor(f))
                        /\ ClosesInOrder(h, fate', listed', using')
    BY <2>3, <2>5
  <2> HIDE DEF N
  <2> QED
    BY <1>f, <1>7, <1>10, <1>12, <1>13, <1>16, <2>6, <2>7, CloseDoes
<1> QED
  BY <1>14, <1>15

LEMMA UncountKeeps ==
    ASSUME LookupInv, NEW c \in Callers, Uncount(c), called' = called
    PROVE  LookupInv'
<1> DEFINE f == Top(c)
           g == Done(f)
           o == f.self
<1>1. /\ InCall(c) /\ f.todo[1] = "uncount" /\ using' = using \ {o}
      /\ locked' = locked /\ setsHeld' = setsHeld /\ listed' = listed /\ answer' = answer
  BY DEF Uncount, On
<1>2. IF Sort[o] = "reader" THEN Let(c, o, About[o], <<g>> \o Tail(frames[c]))
      ELSE Moves(c, <<g>> \o Tail(frames[c])) /\ Still /\ refs' = refs /\ fate' = fate
  BY DEF Uncount, Undisturbed, Still, Moves
<1>f. f = Top(c) /\ o = f.self /\ g = Done(f)
  OBVIOUS
<1> HIDE DEF g, f, o
<1>4. /\ f \in CallFrames /\ FrameShape(f) /\ CallTypes /\ CallStacks /\ References
      /\ ClosesInOrder(f, fate, listed, using)
      /\ Destructor(f) => fate[f.self] = "gone" /\ refs[f.self] = {}
  BY <1>1, <1>f, TopKnows
<1>5. /\ f.op = "close" /\ g.op = "close" /\ g.self = f.self /\ (Destructor(g) <=> Destructor(f))
      /\ Stays(f.todo, g.todo) /\ Continues(f, g) /\ g.key = f.key
      /\ Moves(c, <<g>> \o Tail(frames[c])) =>
            Changes(c, {g}) /\ FramesOf(frames'[c]) = {g} \cup Lower(frames[c])
  BY <1>1, <1>f, NextStage
<1>6. o \in Objects /\ About[o] # None
  <2>1. CloseShape(f) /\ Len(f.todo) \in Nat \ {0}
    BY <1>4, <1>5, Ops
  <2>2. 1 \in 1 .. Len(f.todo)
    BY <2>1
  <2> QED
    BY <1>1, <1>f, <2>1, <2>2 DEF CloseShape
<1>7. /\ locked' \in [Objects -> Callers \cup {None}] /\ using' \subseteq using
      /\ listed' \subseteq listed /\ \A x \in listed : x \in listed' \/ FreeSet(SetOf(x))
  BY <1>1, <1>4 DEF CallTypes
<1>8. \A x \in Objects : ~AboutToFinish(f, x)
  BY <1>1, <1>4, NotAbout
<1>9. ~Destructor(f) => AboutToFinish(g, o)
  BY <1>1, <1>f, <1>5 DEF AboutToFinish, Stays
<1>10. \A x \in Objects : x \in using \ using' => x = o
  BY <1>1
<1>11. ClosesInOrder(g, fate, listed, using')
  <2>1. /\ FinishesPast(g.todo, "dependents") => FinishesPast(f.todo, "dependents")
        /\ FinishesPast(g.todo, "unlist") => FinishesPast(f.todo, "unlist")
    BY <1>1, <1>5 DEF Stays
  <2>2. Unused(f.self, using) => Unused(f.self, using')
    BY <1>7 DEF Unused
  <2> QED
    BY <1>4, <1>5, <2>1, <2>2 DEF ClosesInOrder
<1>12. CASE Sort[o] = "reader"
  <2> DEFINE a == About[o]
  <2>1. Let(c, o, a, <<g>> \o Tail(frames[c])) /\ a \in Objects
    BY <1>2, <1>6, <1>12, LookupAssumption
  <2>2. o \in {"app", c} \cup Objects /\ g.key \in {f.key, None} /\ o # c
    BY <1>5, <1>6, LookupAssumption
  <2>3. HolderMayGo(a, o)
    <3>1. Sort[Holder[o]] = "subscriber" /\ Sort[a] \in {"topic", "cft"}
      BY <1>6, <1>12, LookupAssumption DEF HolderSort
    <3> QED
      BY <3>1 DEF HolderMayGo
  <2> HIDE DEF a
  <2>4. FinishesAs(f, g, a, o)
    <3>1. LetDone(a, o) /\ Destructor(f) => refs'[o] = {}
      BY <1>4, <1>6, <1>f DEF LetDone
    <3> QED
      BY <1>8, <1>9, <1>10, <3>1 DEF FinishesAs
  <2>5. o = c => Plain(f)
    BY <2>2
  <2>6. InCall(c) /\ setsHeld' = setsHeld /\ listed' = listed /\ answer' = answer
    BY <1>1
  <2> QED
    <3>1. f = Top(c) /\ f.op = "close" /\ Continues(f, g) /\ using' \subseteq using
          /\ locked' \in [Objects -> Callers \cup {None}]
      BY <1>f, <1>5, <1>7
    <3> QED
      BY <1>11, <2>1, <2>2, <2>3, <2>4, <2>5, <2>6, <3>1, LetAdvances
<1>13. CASE Sort[o] # "reader"
  <2>1. Moves(c, <<g>> \o Tail(frames[c])) /\ Still /\ refs' = refs /\ fate' = fate
    BY <1>2, <1>13
  <2>2. Changes(c, {g}) /\ FramesOf(frames'[c]) = {g} \cup Lower(frames[c])
    BY <1>5, <2>1
  <2> DEFINE N == {g}
  <2>3. /\ Changes(c, N)
        /\ \A h \in N : /\ h.op = "close" /\ h.self = f.self /\ (Destructor(h) <=> Destructor(f))
                        /\ ClosesInOrder(h, fate', listed', using')
    BY <1>1, <1>5, <1>11, <2>1, <2>2
  <2>4. \A x \in Objects :
           (Sort[x] \in {"reader", "writer"} /\ x \in using \ using') \/ AboutToFinish(f, x) =>
              fate'[x] = "closed" \/ refs[x] = {} \/ \E h \in FramesOf(frames'[c]) : AboutToFinish(h, x)
    <3>1. g \in FramesOf(frames'[c])
      BY <2>2
    <3>2. Destructor(f) => refs[o] = {}
      BY <1>4, <1>f
    <3> QED
      BY <1>8, <1>9, <1>10, <3>1, <3>2
  <2>5. Lower(frames[c]) \subseteq FramesOf(frames'[c])
    BY <2>2
  <2>6. /\ fate' \in [Objects -> {"late", "open", "closed", "gone"}]
        /\ \A x \in Objects :
              \/ fate'[x] = fate[x]
              \/ /\ x = f.self /\ fate'[x] = "closed" /\ fate[x] \notin {"gone", "late"}
                 /\ Sort[x] # "discovered" => x \notin listed'
                 /\ Sort[x] = "topic" => Unused(x, using')
    BY <1>4, <2>1 DEF CallTypes
  <2>7. /\ InCall(c) /\ f.op = "close" /\ Still /\ refs' = refs /\ setsHeld' = setsHeld
        /\ answer' = answer
    BY <1>1, <1>5, <2>1
  <2> HIDE DEF N
  <2> QED
    BY <1>f, <1>7, <2>3, <2>4, <2>5, <2>6, <2>7, CloseDoes
<1> QED
  BY <1>12, <1>13

(* Only a destructor forgets, and that is the last thing it does.          *)
LEMMA Forgets ==
    ASSUME NEW f \in CallFrames, FrameShape(f), f.todo[1] = "forget"
    PROVE  f.op = "close" /\ Destructor(f) /\ Len(f.todo) = 1
<1>1. f.op = "close"
  <2>1. CASE f.op \in DOMAIN Seeks
    <3>1. f.todo \in FindTodos(Seeks[f.op]) /\ Seeks[f.op] \in SoughtSorts
      BY <2>1, Ops DEF FindShape
    <3> DEFINE sort == Seeks[f.op]
    <3> HIDE DEF sort
    <3>2. f.todo[1] \in {"lock", sort, "each", "test", "name", "release", "return", "unwind"}
      BY <3>1, FindStages DEF sort
    <3>3. sort \in SoughtSorts
      BY <3>1 DEF sort
    <3> QED
      BY <3>2, <3>3 DEF SoughtSorts
  <2>2. CASE f.op = "find_topic_description"
    <3>1. f.todo \in TwiceTodos
      BY <2>2, Ops DEF TwiceShape
    <3> QED
      BY <3>1, TwiceStages
  <2>3. CASE f.op = "contains"
    <3>1. f.todo[1] \in ContainsStages \cup {"unwind"}
      BY <2>3, NotContains
    <3> QED
      BY <3>1 DEF ContainsStages, Sorts, Containers
  <2> QED
    BY <2>1, <2>2, <2>3, Ops
<1>2. CloseTodo(f.todo) /\ Len(f.todo) \in Nat \ {0}
  BY <1>1, Ops DEF CloseShape
<1>3. Len(f.todo) = 1
  <2>1. 1 \in 1 .. Len(f.todo)
    BY <1>2
  <2> QED
    BY <1>2, <2>1 DEF CloseTodo
<1> QED
  BY <1>1, <1>3 DEF Destructor

LEMMA ForgetKeeps ==
    ASSUME LookupInv, NEW c \in Callers, Forget(c), called' = called
    PROVE  LookupInv'
<1> DEFINE f == Top(c)
           o == f.self
           kept == {x \in Refers(o) : o \in refs[x]}
<1>1. /\ InCall(c) /\ f.todo[1] = "forget"
      /\ locked' = locked /\ setsHeld' = setsHeld /\ listed' = listed /\ using' = using /\ answer' = answer
      /\ IF kept = {} THEN Moves(c, Tail(frames[c])) /\ Still /\ refs' = refs /\ fate' = fate
         ELSE \E x \in kept : Let(c, o, x, frames[c])
  BY DEF Forget, On, Undisturbed, Still, Moves
<1>f. f = Top(c) /\ o = f.self /\ kept \subseteq Refers(o)
  OBVIOUS
<1> HIDE DEF f, o, kept
<1>2. /\ f \in CallFrames /\ FrameShape(f) /\ CallTypes /\ CallStacks /\ References
      /\ frames[c] # << >> /\ StackShape(frames[c]) /\ f = frames[c][1]
      /\ ClosesInOrder(f, fate, listed, using)
      /\ Destructor(f) => fate[f.self] = "gone" /\ refs[f.self] = {}
  BY <1>1, <1>f, TopKnows
<1>3. f.op = "close" /\ Destructor(f) /\ Len(f.todo) = 1 /\ o \in Objects
  BY <1>1, <1>2, <1>f, Forgets, Ops DEF CloseShape
<1>4. locked' \in [Objects -> Callers \cup {None}]
  BY <1>1, <1>2 DEF CallTypes
<1>5. CASE kept = {}
  <2>1. Moves(c, Tail(frames[c])) /\ Still /\ refs' = refs /\ fate' = fate
    BY <1>1, <1>5
  <2>2. Goes(frames[c], Tail(frames[c]), {}) /\ FramesOf(Tail(frames[c])) = Lower(frames[c])
    <3> DEFINE s == frames[c]
    <3> HIDE DEF s
    <3>1. s # << >> /\ StackShape(s)
      BY <1>2 DEF s
    <3>2. Goes(s, Tail(s), {}) /\ FramesOf(Tail(s)) = Lower(s)
      BY <3>1, GoesDown
    <3> QED
      BY <3>2 DEF s
  <2>3. Changes(c, {}) /\ frames'[c] = Tail(frames[c])
    BY <1>2, <2>1, <2>2, Changed
  <2>4. Lower(frames[c]) \subseteq FramesOf(frames'[c])
    BY <2>2, <2>3
  <2>5. Aside
    BY <1>1, <2>1 DEF Aside
  <2>6. InCall(c) /\ Top(c).op = "close" /\ Top(c).todo[1] \notin {"finish", "unlist"}
    BY <1>1, <1>3, <1>f
  <2> QED
    BY <1>4, <2>1, <2>3, <2>4, <2>5, <2>6, CloseQuiet
<1>6. CASE kept # {}
  <2>1. PICK x \in kept : Let(c, o, x, frames[c])
    BY <1>1, <1>6
  <2>2. x \in Objects
    BY <1>3, <1>f, LookupAssumption DEF Refers
  <2>3. <<f>> \o Tail(frames[c]) = frames[c]
    <3> DEFINE s == frames[c]
    <3> HIDE DEF s
    <3>1. s # << >> /\ StackShape(s) /\ f = s[1]
      BY <1>2 DEF s
    <3>2. s = <<s[1]>> \o Tail(s)
      BY <3>1, PoppedStack
    <3> QED
      BY <3>1, <3>2 DEF s
  <2> DEFINE g == f
  <2>4. Let(c, o, x, <<g>> \o Tail(frames[c]))
    BY <2>1, <2>3
  <2>5. Continues(f, g) /\ g.key \in {f.key, None}
    BY <1>2, <1>3 DEF Continues
  <2>6. o \in {"app", c} \cup Objects /\ o # c
    BY <1>3, LookupAssumption
  <2>7. HolderMayGo(x, o)
    BY <1>2, <1>3, <1>f DEF HolderMayGo
  <2>8. ClosesInOrder(g, fate, listed, using') /\ using' \subseteq using
    BY <1>1, <1>2
  <2>9. FinishesAs(f, g, x, o)
    BY <1>1 DEF FinishesAs
  <2>10. /\ InCall(c) /\ setsHeld' = setsHeld /\ listed' = listed /\ answer' = answer
         /\ o = c => Plain(f)
         /\ f = Top(c) /\ f.op = "close"
    BY <1>1, <1>f, <1>3, <2>6
  <2> HIDE DEF g
  <2> QED
    BY <1>4, <2>2, <2>4, <2>5, <2>6, <2>7, <2>8, <2>9, <2>10, LetAdvances
<1> QED
  BY <1>5, <1>6

LEMMA LookupLong ==
    ASSUME NEW f \in CallFrames, FrameShape(f), f.op # "close", f.todo[1] = "release"
    PROVE  Len(f.todo) # 1
<1> DEFINE q == f.todo
<1>1. CASE f.op \in DOMAIN Seeks
  <2> DEFINE sort == Seeks[f.op]
  <2>1. q \in FindTodos(sort) /\ sort \in SoughtSorts
    BY <1>1, Ops DEF FindShape
  <2> HIDE DEF sort
  <2>2. Len(q) = 1 <=> q[1] \in {"return", "unwind"}
    BY <2>1, FindStages
  <2> QED
    BY <2>2
<1>2. CASE f.op = "find_topic_description"
  <2>1. q \in TwiceTodos
    BY <1>2, Ops DEF TwiceShape
  <2>2. Len(q) = 1 <=> q[1] \in {"return", "unwind"}
    BY <2>1, TwiceStages
  <2> QED
    BY <2>2
<1>3. CASE f.op = "contains"
  <2>1. ContainsTodo(q) /\ q # << >> /\ q[1] \notin {"return", "unwind"} /\ Len(q) \in Nat
    BY <1>3, Ops DEF ContainsShape
  <2> HIDE DEF q
  <2>2. Len(q) > 1
    BY <2>1, ContainsTail
  <2>3. \A n \in Nat : n > 1 => n # 1
    OBVIOUS
  <2>4. Len(q) # 1
    BY <2>1, <2>2, <2>3
  <2> QED
    BY <2>4 DEF q
<1> QED
  BY <1>1, <1>2, <1>3, Ops

(* What a lookup lets go of is not what it looks for, or it has another.   *)
(* g is f without its reference to o; t is s with g for its top, and       *)
(* perhaps the destructor of o above it.                                   *)
Loosened(f, g, o) ==
    /\ g.op = f.op /\ g.todo = f.todo /\ g.rest = f.rest /\ g.ref = f.ref /\ g.found = f.found
    /\ g.loose = f.loose \ {o}

LetsOn(s, t, g, o) ==
    /\ t # << >> /\ AskOf(BaseOf(t)) = AskOf(BaseOf(s)) /\ BaseOf(t).op = BaseOf(s).op
    /\ \/ FramesOf(t) = {g} \cup Lower(s)
       \/ \E h : Buries(h, o) /\ FramesOf(t) = {h} \cup ({g} \cup Lower(s))

LEMMA SearchReleases ==
    ASSUME CallTypes, CallStacks, NEW c \in Callers, InCall(c), NEW f, f = Top(c), f.op # "close",
           NEW s, s = frames[c], NEW o \in f.loose, RightFrame(f),
           NEW g, Loosened(f, g, o), NEW t, LetsOn(s, t, g, o), NEW S, NEW T, T \subseteq S, NEW C, NEW D, C \subseteq D, Searching(s, S, C)
    PROVE  Searching(t, T, D)
<1> DEFINE b == BaseOf(s)
<1>0. /\ g.op = f.op /\ g.todo = f.todo /\ g.rest = f.rest /\ g.ref = f.ref /\ g.found = f.found
      /\ g.loose = f.loose \ {o}
      /\ t # << >> /\ AskOf(BaseOf(t)) = AskOf(BaseOf(s)) /\ BaseOf(t).op = BaseOf(s).op
      /\ \/ FramesOf(t) = {g} \cup Lower(s)
         \/ \E h : Buries(h, o) /\ FramesOf(t) = {h} \cup ({g} \cup Lower(s))
  BY DEF Loosened, LetsOn
<1>1. /\ f \in CallFrames /\ FrameShape(f) /\ s # << >> /\ FramesOf(s) = {f} \cup Lower(s)
  BY TopFrame, LowerFrames
<1>2. /\ b.op # "close" /\ b.for = f.for
      /\ f.op \in DOMAIN Seeks => b.op \in {f.op, "find_topic_description"}
      /\ f.op = "find_topic_description" => b = f
      /\ f.op = "contains" => b.op = "contains"
  BY BaseFacts
<1>3. /\ (f.op = "contains" <=> b.op = "contains")
      /\ f.op # "find_datareaders" => b.op # "find_datareaders"
  <2>1. f.op = "contains" \/ f.op = "find_topic_description" \/ f.op \in DOMAIN Seeks
    BY <1>1, Ops
  <2>2. f.op \in DOMAIN Seeks => f.op # "contains"
    BY <1>1, SeeksFacts
  <2> QED
    BY <1>2, <2>1, <2>2
<1>4. /\ {g} \cup Lower(s) \subseteq FramesOf(t)
      /\ \A x \in FramesOf(t) : x.todo \in Leaving2 => x \in {g} \cup Lower(s)
  <2>1. CASE FramesOf(t) = {g} \cup Lower(s)
    BY <2>1
  <2>2. CASE \E h : Buries(h, o) /\ FramesOf(t) = {h} \cup ({g} \cup Lower(s))
    <3>1. PICK h : Buries(h, o) /\ FramesOf(t) = {h} \cup ({g} \cup Lower(s))
      BY <2>2
    <3>2. h.todo \notin Leaving2
      BY <3>1, CloseNotLeaving DEF Buries
    <3> QED
      BY <3>1, <3>2
  <2> QED
    BY <1>0, <2>1, <2>2
<1>5. Unwinds(t) <=> Unwinds(s)
  BY <1>0, <1>1, <1>4 DEF Unwinds
<1> HIDE DEF b
<1>6. CASE Unwinds(s)
  <2>1. NoLateWriters => Reason(AskOf(b), C)
    BY <1>1, <1>2, <1>6 DEF Searching, b
  <2>2. NoLateWriters => Reason(AskOf(b), D)
    BY <2>1, MoreReason
  <2> QED
    BY <1>0, <1>5, <1>6, <2>2 DEF Searching, b
<1>7. CASE ~Unwinds(s)
  <2>1. f.todo \notin Leaving2
    BY <1>1, <1>7 DEF Unwinds
  <2>2. SeenEnough(f, o)
    BY <2>1 DEF RightFrame
  <2>3. ASSUME NEW x \in T, IsAbout(AskOf(b), x)
        PROVE  \E y \in FramesOf(t) : InView(b.op, y, x)
    <3>1. PICK y \in FramesOf(s) : InView(b.op, y, x)
      BY <1>1, <1>2, <1>7, <2>3 DEF Searching, b
    <3>2. CASE y \in Lower(s)
      BY <1>4, <3>1, <3>2
    <3>3. CASE y = f
      <4>1. Tokens(g) \cup {o} = Tokens(f) \cup {o} /\ o \notin g.loose
        BY <1>0 DEF Tokens
      <4>2. CASE x # o \/ (b.op # "find_datareaders" /\ f.found # {})
        <5>1. InView(b.op, g, x)
          BY <1>0, <3>1, <3>3, <4>1, <4>2 DEF InView
        <5> QED
          BY <1>4, <5>1
      <4>3. CASE x = o /\ ~(b.op # "find_datareaders" /\ f.found # {})
        <5>1. IF f.op = "contains" THEN o # f.for ELSE Label[o] # f.for
          BY <1>3, <2>2, <4>3 DEF SeenEnough
        <5>2. IF f.op = "contains" THEN o = f.for ELSE Label[o] = f.for
          BY <1>2, <1>3, <2>3, <4>3 DEF IsAbout, AskOf
        <5> QED
          BY <5>1, <5>2
      <4> QED
        BY <4>2, <4>3
    <3> QED
      BY <1>1, <3>1, <3>2, <3>3
  <2> QED
    BY <1>0, <1>5, <1>7, <2>3 DEF Searching, b
<1> QED
  BY <1>6, <1>7

(* The references of a lookup that lets go of one.                         *)
LEMMA TokensReleased ==
    ASSUME CallTypes, CallStacks, References, NEW c \in Callers, InCall(c), NEW f, f = Top(c), f.op # "close",
           NEW o \in f.loose, LetDone(o, c),
           NEW g, g.op = f.op, g.rest = f.rest, g.ref = f.ref, g.found = f.found,
           g.loose = f.loose \ {o}
    PROVE  /\ TokensOf(c, g, refs')
           /\ \A h \in Lower(frames[c]) : TokensOf(c, h, refs')
<1>1. /\ f \in CallFrames /\ FrameShape(f) /\ f \in FramesOf(frames[c])
      /\ Tokens(f) \subseteq Objects
  BY TopFrame, FrameTokens
<1>2. TokensOf(c, f, refs)
  BY <1>1 DEF References, TokensHeld
<1>3. \A x \in Objects : refs'[x] = IF x = o THEN refs[x] \ {c} ELSE refs[x]
  BY DEF LetDone
<1>4. ASSUME f.op # "contains"
      PROVE  TokensOf(c, g, refs')
  <2>1. /\ \A x \in Tokens(f) : c \in refs[x]
        /\ f.found \cap f.loose = {} /\ f.rest \cap (f.found \cup f.loose) = {}
        /\ f.ref \notin f.found \cup f.loose \cup f.rest
    BY <1>2, <1>4 DEF TokensOf
  <2>2. o \notin Tokens(g) /\ Tokens(g) \subseteq Tokens(f)
    BY <2>1 DEF Tokens
  <2>3. \A x \in Tokens(g) : c \in refs'[x]
    BY <1>1, <1>3, <2>1, <2>2
  <2> QED
    BY <2>1, <2>3 DEF TokensOf
<1>5. ASSUME f.op = "contains"
      PROVE  TokensOf(c, g, refs')
  BY <1>5 DEF TokensOf
<1>6. ASSUME NEW h \in Lower(frames[c])
      PROVE  TokensOf(c, h, refs')
  <2> DEFINE b == BaseOf(frames[c])
  <2>0. b = BaseOf(frames[c])
    OBVIOUS
  <2> HIDE DEF b
  <2>a. b \in FramesOf(frames[c])
    BY <2>0, BaseFacts
  <2>b. f.op \in DOMAIN Seeks =>
          \/ Lower(frames[c]) = {}
          \/ Lower(frames[c]) = {b} /\ WithinTwice(f, b)
    BY <2>0, BaseFacts
  <2>c. f.op = "find_topic_description" => Lower(frames[c]) = {}
    BY <2>0, BaseFacts
  <2>d. ASSUME f.op = "contains"
        PROVE  h.op = "contains"
    BY <1>6, <2>0, <2>d, BaseFacts
  <2>1. /\ f.op \in DOMAIN Seeks => Lower(frames[c]) = {} \/ (Lower(frames[c]) = {b} /\ WithinTwice(f, b))
        /\ f.op = "find_topic_description" => Lower(frames[c]) = {}
        /\ f.op = "contains" => h.op = "contains"
        /\ b \in FramesOf(frames[c])
    BY <1>6, <2>a, <2>b, <2>c, <2>d
  <2>2. CASE f.op \in DOMAIN Seeks
    <3>1. h = b /\ WithinTwice(f, b)
      BY <1>6, <2>1, <2>2
    <3>2. b \in CallFrames /\ FrameShape(b)
      BY <2>1, FrameTokens
    <3>3. b.op = "find_topic_description" /\ b.found = {}
      BY <3>1 DEF WithinTwice
    <3>4. b.ref = None /\ b.loose = {} /\ b.rest = {}
      BY <3>2, <3>3, Ops DEF TwiceShape
    <3> QED
      BY <3>1, <3>3, <3>4 DEF TokensOf, Tokens
  <2>3. CASE f.op = "contains"
    BY <2>1, <2>3 DEF TokensOf
  <2> QED
    BY <1>1, <1>6, <2>1, <2>2, <2>3, Ops
<1> QED
  BY <1>4, <1>5, <1>6

LessLoose(f, o) == [f EXCEPT !.loose = f.loose \ {o}]

LEMMA LookupReleases ==
    ASSUME LookupInv, NEW c \in Callers, InCall(c), NEW f, f = Top(c), f.op # "close", called' = called,
           f.todo[1] = "release", NEW o \in f.loose,
           NEW g, g = LessLoose(f, o), Let(c, c, o, <<g>> \o Tail(frames[c])),
           locked' = locked, setsHeld' = setsHeld, listed' = listed, using' = using, answer' = answer
    PROVE  LookupInv'
<1> DEFINE s == frames[c]
           q == <<g>> \o Tail(s)
<1>1. /\ CallTypes /\ CallStacks /\ References /\ Closings /\ AnswersAreExact /\ SetsLocked /\ Knowledge
      /\ s # << >> /\ StackShape(s) /\ f = s[1]
      /\ f \in CallFrames /\ FrameShape(f) /\ f \in FramesOf(s)
      /\ TokensOf(c, f, refs) /\ RightFrame(f) /\ KeepsSet(c, f, setsHeld, listed)
      /\ Searching(s, steady[c], closing[c])
      /\ answer[c] # None => Destructor(f)
  BY TopKnows DEF LookupInv
<1>2. /\ g.op = f.op /\ g.self = f.self /\ g.for = f.for /\ g.todo = f.todo /\ g.rest = f.rest /\ g.ref = f.ref
      /\ g.found = f.found /\ g.key = f.key /\ g.loose = f.loose \ {o}
  BY <1>1 DEF CallFrames, LessLoose
<1>3. Continues(f, g)
  <2> DEFINE L == f.loose \ {o}
  <2>1. g = [f EXCEPT !.loose = L] /\ L \subseteq f.loose /\ f.rest \subseteq f.rest
    BY DEF LessLoose
  <2> HIDE DEF L
  <2> QED
    BY <1>1, <2>1, Lessens
<1>4. Goes(s, q, {g}) /\ FramesOf(q) = {g} \cup Lower(s) /\ q # << >>
  <2> HIDE DEF s
  <2> QED
    BY <1>1, <1>2, <1>3, GoesOn
<1>5. AskOf(BaseOf(q)) = AskOf(BaseOf(s)) /\ BaseOf(q).op = BaseOf(s).op
  BY <1>1, <1>3, Replaced
<1>6. Let(c, c, o, q) /\ o \in Objects
  BY <1>1, Ops
<1> HIDE DEF q
<1>7. PICK M : LetDone(o, c) /\ LetFrames(c, o, c, q, {g}, M)
  BY <1>1, <1>4, <1>6, LetEffect DEF s
<1> HIDE DEF s
<1>8. /\ Changes(c, M)
      /\ \A h \in M : \/ h = g
                      \/ /\ Buries(h, o) /\ refs[o] = {c}
                         /\ \A d \in Callers : InCall(d) => o \in closing'[d]
      /\ \/ FramesOf(frames'[c]) = {g} \cup Lower(s)
         \/ \E h : Buries(h, o) /\ FramesOf(frames'[c]) = {h} \cup ({g} \cup Lower(s))
      /\ BaseOf(frames'[c]) = BaseOf(q) /\ frames'[c] # << >>
  BY <1>4, <1>7 DEF LetFrames
<1>9. /\ refs' \in [Objects -> SUBSET (Objects \cup Callers \cup {"app"})]
      /\ fate' \in [Objects -> {"late", "open", "closed", "gone"}]
      /\ steady' \in [Callers -> SUBSET Objects] /\ closing' \in [Callers -> SUBSET Objects]
      /\ \A d \in Callers : steady'[d] \subseteq steady[d] /\ closing[d] \subseteq closing'[d]
      /\ LetsGo(o, c)
      /\ \A x \in Objects : refs'[x] = IF x = o THEN refs[x] \ {c} ELSE refs[x]
      /\ \A x \in Objects : fate'[x] = IF x = o /\ refs[o] = {c} THEN "gone" ELSE fate[x]
  BY <1>7 DEF LetDone
<1>10. TokensOf(c, g, refs') /\ \A h \in Lower(s) : TokensOf(c, h, refs')
  BY <1>1, <1>2, <1>7, TokensReleased DEF s
<1>11. RightFrame(g)
  BY <1>1, <1>2 DEF RightFrame, SeenEnough, AskOf
<1>12. KeepsSet(c, g, setsHeld, listed)
  BY <1>1, <1>2 DEF KeepsSet
<1>13. refs[o] = {c} => fate'[o] = "gone" /\ refs'[o] = {}
  BY <1>6, <1>9
<1>14. \A h \in M : h # g => /\ h.op = "close" /\ h.self = o /\ Destructor(h)
                             /\ \A F, L, U : F[o] # "late" => ClosesInOrder(h, F, L, U)
                             /\ fate'[o] = "gone" /\ \A d \in Callers : InCall(d) => o \in closing'[d]
  BY <1>8, <1>13 DEF Buries
<1>15. answer[c] = None /\ ~Destructor(g)
  BY <1>1, <1>2 DEF Destructor
<1>16. Answered'
  BY <1>1, <1>6, <1>7, <1>15, LetAnswers
<1>17. References'
  <2>1. \A h \in M : (Destructor(h) => fate'[h.self] = "gone") /\ TokensOf(c, h, refs')
    <3> SUFFICES ASSUME NEW h \in M
                 PROVE  (Destructor(h) => fate'[h.self] = "gone") /\ TokensOf(c, h, refs')
      OBVIOUS
    <3>1. CASE h = g
      BY <3>1, <1>10, <1>15
    <3>2. CASE h # g
      <4>1. h.op = "close" /\ h.self = o /\ fate'[o] = "gone"
        BY <3>2, <1>14
      <4> QED
        BY <4>1, CloseRight
    <3> QED
      BY <3>1, <3>2
  <2>2. \A h \in Lower(frames[c]) : TokensOf(c, h, refs')
    BY <1>10 DEF s
  <2> DEFINE k == c
  <2>3. \A x \in Objects : Holder[x] = o /\ k = x => refs[x] = {}
    BY LookupAssumption
  <2>4. \A d \in Callers : steady'[d] \subseteq steady[d] /\ (k = "app" => o \notin steady'[d])
    BY <1>9, LookupAssumption
  <2>5. CallTypes /\ CallStacks /\ References /\ Changes(c, M) /\ o \in Objects /\ LetsGo(o, k)
    BY <1>1, <1>6, <1>8, <1>9
  <2>6. k \in {"app", c} \cup Objects
    OBVIOUS
  <2>7. k = c => \A h \in Lower(frames[c]) : TokensOf(c, h, refs')
    BY <2>2
  <2> HIDE DEF k
  <2> QED
    BY <1>16, <2>1, <2>3, <2>4, <2>5, <2>6, <2>7, RefsLess
<1>18. Closings'
  <2>1. \A x \in Objects : fate'[x] = fate[x] \/ (fate'[x] = "gone" /\ refs'[x] = {})
    BY <1>9, <1>13
  <2>2. \A x \in Objects : refs'[x] # {} => refs[x] # {}
    BY <1>9
  <2>3. \A x : ~AboutToFinish(f, x)
    BY DEF AboutToFinish
  <2>4. \A x \in Objects :
           (Sort[x] \in {"reader", "writer"} /\ x \in using \ using') \/ (InCall(c) /\ AboutToFinish(Top(c), x)) =>
              fate'[x] = "closed" \/ refs'[x] = {} \/ \E h \in FramesOf(frames'[c]) : AboutToFinish(h, x)
    BY <2>3
  <2>5. \A h \in M : h.op = "close" => h.self \in Objects /\ ClosesInOrder(h, fate', listed', using')
    <3> SUFFICES ASSUME NEW h \in M, h.op = "close"
                 PROVE  h.self \in Objects /\ ClosesInOrder(h, fate', listed', using')
      OBVIOUS
    <3>1. h # g
      BY <1>2
    <3>2. h.self = o /\ fate'[o] # "late" /\ (fate'[o] # "late" => ClosesInOrder(h, fate', listed', using'))
      BY <1>14, <3>1
    <3> QED
      BY <1>6, <3>2
  <2>6. \A h \in M : h.op = "close" =>
           ClosesFor(frames[c], h.self) \/ \A d \in Callers : InCall(d) => h.self \in closing'[d]
    <3> SUFFICES ASSUME NEW h \in M, h.op = "close"
                 PROVE  \A d \in Callers : InCall(d) => h.self \in closing'[d]
      OBVIOUS
    <3>1. h # g
      BY <1>2
    <3> QED
      BY <1>14, <3>1
  <2>7. listed' \subseteq listed /\ using' \subseteq using /\ \A d \in Callers : closing[d] \subseteq closing'[d]
    BY <1>9
  <2>8. \A x \in Objects :
           \/ fate'[x] = fate[x]
           \/ fate'[x] = "gone" /\ refs'[x] = {}
           \/ /\ fate'[x] = "closed" /\ ClosesFor(frames[c], x)
              /\ Sort[x] # "discovered" => x \notin listed'
              /\ Sort[x] = "topic" => Unused(x, using')
    BY <2>1
  <2>9. CallTypes /\ CallStacks /\ Closings /\ Changes(c, M)
    BY <1>1, <1>8
  <2> QED
    BY <2>2, <2>4, <2>5, <2>6, <2>7, <2>8, <2>9, ClosingsKept
<1>19. SetsLocked'
  <2>1. \A h \in M : KeepsSet(c, h, setsHeld, listed')
    BY <1>12, <1>14, CloseRight
  <2> QED
    BY <1>1, <1>8, <2>1, SetsStay
<1>20. Searching(frames'[c], steady'[c], closing'[c])
  <2> DEFINE t == frames'[c]
             S == steady[c]
             T == steady'[c]
             C == closing[c]
             D == closing'[c]
  <2>1. LetsOn(s, t, g, o)
    BY <1>5, <1>8 DEF LetsOn
  <2>2. T \subseteq S /\ C \subseteq D /\ Searching(s, S, C)
    BY <1>1, <1>9
  <2>4. s = frames[c]
    BY DEF s
  <2> HIDE DEF t, S, T, C, D
  <2>6. CallTypes /\ CallStacks /\ RightFrame(f) /\ o \in f.loose
    BY <1>1
  <2>7. Loosened(f, g, o)
    BY <1>2 DEF Loosened
  <2>5. Searching(t, T, D)
    BY <2>1, <2>2, <2>4, <2>6, <2>7, SearchReleases
  <2> QED
    BY <2>5 DEF t, T, D
<1>21. Knowledge'
  <2>1. \A h \in M : RightFrame(h)
    BY <1>11, <1>14, CloseRight
  <2>2. \A d \in Callers : d # c => steady'[d] \subseteq steady[d] /\ closing[d] \subseteq closing'[d]
    BY <1>9
  <2> QED
    BY <1>1, <1>8, <1>20, <2>1, <2>2, KnowledgeKept
<1>22. OtherTypes
  BY <1>1, <1>9 DEF CallTypes, OtherTypes
<1> QED
  BY <1>8, <1>17, <1>18, <1>19, <1>21, <1>22, Together

LEMMA ReleaseKeeps ==
    ASSUME LookupInv, NEW c \in Callers, Release(c), called' = called
    PROVE  LookupInv'
<1> DEFINE f == Top(c)
<1>1. /\ InCall(c) /\ f.todo[1] = "release"
      /\ IF f.loose = {}
         THEN Onward(c) /\ Aside /\ Still /\ locked' = locked
         ELSE /\ \E o \in f.loose : Let(c, c, o, <<[f EXCEPT !.loose = f.loose \ {o}]>> \o Tail(frames[c]))
              /\ UNCHANGED <<locked, setsHeld, listed, using, answer>>
  BY DEF Release, On, Undisturbed, Aside, Still
<1>f. f = Top(c)
  OBVIOUS
<1>2. Onward(c) /\ Len(f.todo) # 1 => frames' = [frames EXCEPT ![c] = <<Done(f)>> \o Tail(@)]
  BY DEF Onward
<1> HIDE DEF f
<1>3. f \in CallFrames /\ FrameShape(f) /\ CallTypes
  BY <1>1, <1>f, TopKnows
<1>4. CASE f.op = "close"
  BY <1>4, <1>f, ReleaseByClose
<1>5. CASE f.op # "close" /\ f.loose = {}
  <2> DEFINE g == Done(f)
  <2>1. Len(f.todo) # 1
    BY <1>1, <1>3, <1>5, LookupLong
  <2>2. frames' = [frames EXCEPT ![c] = <<g>> \o Tail(@)] /\ Aside /\ Still
    BY <1>1, <1>2, <1>5, <2>1
  <2> HIDE DEF g
  <2>3. Moves(c, <<g>> \o Tail(frames[c]))
    BY <1>1, <1>f, <2>2, HandsOn
  <2>4. locked' \in [Objects -> Callers \cup {None}]
    BY <1>1, <1>3, <1>5 DEF CallTypes
  <2> QED
    BY <1>1, <1>f, <1>5, <2>1, <2>2, <2>3, <2>4, ProceedsKeeps DEF g
<1>6. CASE f.op # "close" /\ f.loose # {}
  <2>1. PICK o \in f.loose : Let(c, c, o, <<[f EXCEPT !.loose = f.loose \ {o}]>> \o Tail(frames[c]))
    BY <1>1, <1>6
  <2> DEFINE g == [f EXCEPT !.loose = f.loose \ {o}]
  <2>2. Let(c, c, o, <<g>> \o Tail(frames[c])) /\ g = LessLoose(f, o)
    BY <2>1 DEF LessLoose
  <2>3. locked' = locked /\ setsHeld' = setsHeld /\ listed' = listed /\ using' = using /\ answer' = answer
    BY <1>1, <1>6
  <2> HIDE DEF g
  <2> QED
    BY <1>1, <1>f, <1>6, <2>2, <2>3, LookupReleases
<1> QED
  BY <1>4, <1>5, <1>6

LEMMA TwoOnStack ==
    ASSUME NEW X, NEW s \in Seq(X), s # << >>, NEW f \in X, NEW g \in X
    PROVE  <<f, g>> \o Tail(s) = <<f>> \o (<<g>> \o Tail(s))
<1> DEFINE q == Tail(s)
<1>1. q \in Seq(X) /\ <<f>> \in Seq(X) /\ <<g>> \in Seq(X) /\ << >> \in Seq(X)
  BY OffStack
<1> HIDE DEF q
<1>3. <<f, g>> = <<f>> \o <<g>>
  <2> DEFINE u == <<f, g>>
             v == <<f>> \o <<g>>
  <2>1. u \in Seq(X) /\ Len(u) = 2 /\ u[1] = f /\ u[2] = g
    OBVIOUS
  <2>2. v \in Seq(X) /\ Len(v) = 2 /\ v[1] = f /\ v[2] = <<g>>[1]
    BY <1>1, OntoStack
  <2> HIDE DEF u, v
  <2>3. \A i \in 1 .. 2 : i = 1 \/ i = 2
    OBVIOUS
  <2>4. \A i \in 1 .. Len(u) : u[i] = v[i]
    BY <2>1, <2>2, <2>3
  <2>5. u = v
    BY <2>1, <2>2, <2>4, SeqEqual
  <2> QED
    BY <2>5 DEF u, v
<1>4. (<<f>> \o <<g>>) \o q = <<f>> \o (<<g>> \o q)
  BY <1>1, ConcatAssociative
<1> QED
  BY <1>3, <1>4, Zenon DEF q

(* A lookup calls another: h above g, which f has become. Nothing is       *)
(* missed.                                                                 *)
LEMMA InnerStarts ==
    ASSUME LookupInv, NEW c \in Callers, InCall(c), NEW f, f = Top(c), f.op # "close",
           NEW g, Continues(f, g), g.key \in {f.key, None},
           TokensOf(c, g, refs), RightFrame(g), KeepsSet(c, g, setsHeld, listed),
           f.todo \notin Leaving2, g.todo \notin Leaving2,
           \A op, o : InView(op, f, o) => InView(op, g, o),
           NEW h \in CallFrames, FrameShape(h), h.op # "close", h.todo \notin Leaving2,
           h.rest = {}, h.ref = None, h.key = None, h.found = {}, h.loose = {},
           Fits(h, <<g>> \o Tail(frames[c])), Moves(c, <<h>> \o (<<g>> \o Tail(frames[c]))),
           Aside, Still, locked' = locked, called' = called
    PROVE  LookupInv'
<1> DEFINE s == frames[c]
           q == <<g>> \o Tail(s)
           t == <<h>> \o q
<1>1. /\ CallTypes /\ CallStacks /\ s # << >> /\ StackShape(s) /\ f = s[1]
      /\ Searching(s, steady[c], closing[c])
  BY TopKnows
<1>2. FramesOf(s) = {f} \cup Lower(s)
  BY <1>1, LowerFrames
<1>3. AskOf(BaseOf(q)) = AskOf(BaseOf(s)) /\ BaseOf(q).op = BaseOf(s).op /\ StackShape(q) /\ q # << >>
  BY <1>1, Replaced
<1> HIDE DEF s
<1>4. Goes(s, q, {g}) /\ FramesOf(q) = {g} \cup Lower(s)
  BY <1>1, GoesOn
<1>5. Fits(h, q) /\ Moves(c, t)
  BY DEF s
<1> HIDE DEF q
<1>6. Goes(s, t, {g} \cup {h}) /\ FramesOf(t) = {h} \cup FramesOf(q) /\ t # << >>
  BY <1>3, <1>4, <1>5, GoesUp
<1>7. BaseOf(t) = BaseOf(q)
  BY <1>3, <1>5, PushedStack
<1> HIDE DEF t
<1>8. Changes(c, {g} \cup {h}) /\ frames'[c] = t
  BY <1>1, <1>5, <1>6, Changed DEF s
<1>9. TokensOf(c, h, refs) /\ RightFrame(h) /\ KeepsSet(c, h, setsHeld, listed)
  <2>1. Tokens(h) = {}
    BY DEF Tokens
  <2> QED
    BY <2>1 DEF TokensOf, RightFrame, KeepsSet
<1>10. FramesOf(t) = {h} \cup ({g} \cup Lower(s))
  BY <1>4, <1>6
<1>11. Searching(t, steady[c], closing[c])
  <2>1. Unwinds(t) <=> Unwinds(s)
    BY <1>2, <1>10 DEF Unwinds
  <2>2. \A op, o : (\E y \in FramesOf(s) : InView(op, y, o)) => \E y \in FramesOf(t) : InView(op, y, o)
    BY <1>2, <1>10
  <2> QED
    BY <1>1, <1>3, <1>6, <1>7, <2>1, <2>2 DEF Searching
<1>12. locked \in [Objects -> Callers \cup {None}]
  BY <1>1 DEF CallTypes
<1>13. \A x \in {g} \cup {h} : x.op # "close" /\ TokensOf(c, x, refs) /\ RightFrame(x)
                               /\ KeepsSet(c, x, setsHeld, listed)
  BY <1>9 DEF Continues
<1>14. InCall(c) /\ Top(c).op # "close" /\ locked' \in [Objects -> Callers \cup {None}]
       /\ Searching(frames'[c], steady[c], closing[c])
  BY <1>8, <1>11, <1>12
<1> QED
  BY <1>8, <1>13, <1>14, LookupQuiet

(* find_topic_description calls find_topic, and goes on to find_cfTopic.   *)
LEMMA FindTopicKeeps ==
    ASSUME LookupInv, NEW c \in Callers, FindTopic(c), called' = called
    PROVE  LookupInv'
<1> DEFINE f == Top(c)
           g == [f EXCEPT !.todo = <<"second", "return">>]
           h == Call("find_topic", f.self, f.for, LookupBody("find_topic"))
<1>1. /\ InCall(c) /\ f.todo[1] = "first"
      /\ frames' = [frames EXCEPT ![c] = <<h, g>> \o Tail(@)]
      /\ Aside /\ Still /\ locked' = locked
  BY DEF FindTopic, On, Undisturbed, Aside, Still
<1>2. /\ f \in CallFrames /\ FrameShape(f) /\ CallTypes /\ CallStacks
      /\ TokensOf(c, f, refs) /\ RightFrame(f) /\ KeepsSet(c, f, setsHeld, listed)
      /\ frames[c] \in Seq(CallFrames) /\ frames[c] # << >>
  BY <1>1, TopKnows DEF StackShape
<1>f. f = Top(c)
  OBVIOUS
<1>a. g = [f EXCEPT !.todo = <<"second", "return">>] /\ h = Call("find_topic", f.self, f.for, LookupBody("find_topic"))
  OBVIOUS
<1> HIDE DEF f, g, h
<1>3. /\ Continues(f, g) /\ f.op = "find_topic_description" /\ f.self \in Objects
      /\ f.todo \notin Leaving2 /\ g.todo \notin Leaving2
      /\ f.found = {} /\ g.todo = <<"second", "return">>
      /\ f.rest = {} /\ f.ref = None /\ f.loose = {} /\ f.key = None
      /\ g.found = f.found /\ g.rest = {} /\ g.ref = None /\ g.loose = {} /\ g.key = None
  BY <1>1, <1>2, <1>a, TwiceGoesOn
<1>4. /\ h \in CallFrames /\ FrameShape(h) /\ h.op = "find_topic" /\ h.self = f.self /\ h.for = f.for
      /\ h.rest = {} /\ h.ref = None /\ h.key = None /\ h.found = {} /\ h.loose = {}
      /\ h.todo \notin Leaving2 /\ h.op # "close" /\ ~Plain(h)
  <2>1. f.for \in Subjects
    BY <1>2, Ops
  <2>2. StartsWith("find_topic", f.self, LookupBody("find_topic"))
    BY <1>3, SeeksFacts DEF StartsWith
  <2>3. NewCall(h, "find_topic", f.self, f.for, LookupBody("find_topic"))
    BY <1>a, <2>1, <2>2, Starts
  <2> QED
    BY <2>3 DEF NewCall
<1>5. Tail(frames[c]) = << >>
  BY <1>1, <1>2, <1>3, <1>f, BaseFacts
<1>6. g.op = f.op /\ g.self = f.self /\ g.for = f.for /\ g \in CallFrames
  BY <1>3 DEF Continues
<1>7. Fits(h, <<g>> \o Tail(frames[c]))
  <2>1. <<g>> \o Tail(frames[c]) = <<g>>
    BY <1>2, <1>5, <1>6, StackForms
  <2>2. Len(<<g>>) = 1 /\ <<g>>[1] = g
    OBVIOUS
  <2>3. WithinTwice(h, g)
    BY <1>3, <1>4, <1>6 DEF WithinTwice
  <2>4. h.op # "find_topic_description" /\ h.op # "contains"
    BY <1>4
  <2> QED
    BY <1>4, <2>1, <2>2, <2>3, <2>4 DEF Fits
<1>8. Moves(c, <<h>> \o (<<g>> \o Tail(frames[c])))
  <2>1. <<h, g>> \o Tail(frames[c]) = <<h>> \o (<<g>> \o Tail(frames[c]))
    BY <1>2, <1>4, <1>6, TwoOnStack
  <2> QED
    BY <1>1, <2>1 DEF Moves
<1>9. TokensOf(c, g, refs) /\ RightFrame(g) /\ KeepsSet(c, g, setsHeld, listed)
  <2>1. Tokens(g) = {}
    BY <1>3 DEF Tokens
  <2> QED
    BY <1>3, <2>1 DEF TokensOf, RightFrame, KeepsSet
<1>10. \A op, o : InView(op, f, o) => InView(op, g, o)
  <2>1. Tokens(f) = {}
    BY <1>3 DEF Tokens
  <2> QED
    BY <1>3, <2>1 DEF InView
<1>11. f.op # "close" /\ Aside /\ Still /\ locked' = locked /\ g.key \in {f.key, None} /\ InCall(c)
  BY <1>1, <1>3
<1> QED
  BY <1>3, <1>4, <1>7, <1>8, <1>9, <1>10, <1>11, <1>f, InnerStarts

LEMMA FindCfTopicKeeps ==
    ASSUME LookupInv, NEW c \in Callers, FindCfTopic(c), called' = called
    PROVE  LookupInv'
<1> DEFINE f == Top(c)
           g == Done(f)
           h == Call("find_cfTopic", f.self, f.for, LookupBody("find_cfTopic"))
<1>1. /\ InCall(c) /\ f.todo[1] = "second"
      /\ f.found # {} => frames' = [frames EXCEPT ![c] = << >> \o <<g>> \o Tail(@)]
      /\ f.found = {} => frames' = [frames EXCEPT ![c] = <<h>> \o <<g>> \o Tail(@)]
      /\ Aside /\ Still /\ locked' = locked
  BY DEF FindCfTopic, On, Undisturbed, Aside, Still
<1>2. /\ f \in CallFrames /\ FrameShape(f) /\ CallTypes /\ CallStacks
      /\ TokensOf(c, f, refs) /\ RightFrame(f) /\ KeepsSet(c, f, setsHeld, listed)
      /\ frames[c] \in Seq(CallFrames) /\ frames[c] # << >>
  BY <1>1, TopKnows DEF StackShape
<1>f. f = Top(c)
  OBVIOUS
<1>a. g = Done(f) /\ h = Call("find_cfTopic", f.self, f.for, LookupBody("find_cfTopic"))
  OBVIOUS
<1> HIDE DEF f, g, h
<1>3. /\ Continues(f, g) /\ f.op = "find_topic_description" /\ f.self \in Objects
      /\ f.todo \notin Leaving2 /\ g.todo \notin Leaving2
      /\ g.todo = <<"return">>
      /\ f.rest = {} /\ f.ref = None /\ f.loose = {} /\ f.key = None
      /\ g.found = f.found /\ g.rest = {} /\ g.ref = None /\ g.loose = {} /\ g.key = None
  BY <1>1, <1>2, <1>a, TwiceGoesOn
<1>4. /\ h \in CallFrames /\ FrameShape(h) /\ h.op = "find_cfTopic" /\ h.self = f.self /\ h.for = f.for
      /\ h.rest = {} /\ h.ref = None /\ h.key = None /\ h.found = {} /\ h.loose = {}
      /\ h.todo \notin Leaving2 /\ h.op # "close" /\ ~Plain(h)
  <2>1. f.for \in Subjects
    BY <1>2, Ops
  <2>2. StartsWith("find_cfTopic", f.self, LookupBody("find_cfTopic"))
    BY <1>3, SeeksFacts DEF StartsWith
  <2>3. NewCall(h, "find_cfTopic", f.self, f.for, LookupBody("find_cfTopic"))
    BY <1>a, <2>1, <2>2, Starts
  <2> QED
    BY <2>3 DEF NewCall
<1>5. Tail(frames[c]) = << >>
  BY <1>1, <1>2, <1>3, <1>f, BaseFacts
<1>6. g.op = f.op /\ g.self = f.self /\ g.for = f.for /\ g \in CallFrames
  BY <1>3 DEF Continues
<1>t. Tokens(g) = Tokens(f)
  BY <1>3 DEF Tokens
<1>9. TokensOf(c, g, refs) /\ RightFrame(g) /\ KeepsSet(c, g, setsHeld, listed)
  <2>1. AskOf(g) = AskOf(f)
    BY <1>6 DEF AskOf
  <2>2. g.op \notin DOMAIN Seeks
    BY <1>3, <1>6, SeeksFacts
  <2> QED
    BY <1>2, <1>3, <1>6, <1>t, <2>1, <2>2 DEF TokensOf, RightFrame, KeepsSet
<1>10. \A op, o : InView(op, f, o) => InView(op, g, o)
  BY <1>3, <1>6, <1>t DEF InView
<1>11. f.op # "close" /\ Aside /\ Still /\ locked' = locked /\ g.key = f.key /\ InCall(c)
       /\ locked \in [Objects -> Callers \cup {None}]
  BY <1>1, <1>2, <1>3 DEF CallTypes
<1>12. CASE f.found = {}
  <2>7. Fits(h, <<g>> \o Tail(frames[c]))
    <3>1. <<g>> \o Tail(frames[c]) = <<g>>
      BY <1>2, <1>5, <1>6, StackForms
    <3>2. Len(<<g>>) = 1 /\ <<g>>[1] = g
      OBVIOUS
    <3>3. WithinTwice(h, g)
      BY <1>3, <1>4, <1>6, <1>12 DEF WithinTwice
    <3>4. h.op # "find_topic_description" /\ h.op # "contains"
      BY <1>4
    <3> QED
      BY <1>4, <3>1, <3>2, <3>3, <3>4 DEF Fits
  <2>8. Moves(c, <<h>> \o (<<g>> \o Tail(frames[c])))
    <3>1. <<h>> \o <<g>> \o Tail(frames[c]) = <<h>> \o (<<g>> \o Tail(frames[c]))
      BY <1>2, <1>4, <1>6, StackForms
    <3> QED
      BY <1>1, <1>12, <3>1 DEF Moves
  <2> QED
    BY <1>3, <1>4, <2>7, <2>8, <1>9, <1>10, <1>11, <1>f, InnerStarts
<1>13. CASE f.found # {}
  <2>1. frames' = [frames EXCEPT ![c] = <<g>> \o Tail(@)]
    <3>1. << >> \o <<g>> \o Tail(frames[c]) = <<g>> \o Tail(frames[c])
      BY <1>2, <1>6, StackForms
    <3> QED
      BY <1>1, <1>13, <3>1
  <2>2. StepsOn(c, g)
    BY <1>3, <1>11, <1>f, <2>1, HandsOn
  <2>3. Top(c).op # "close" /\ g.key = Top(c).key /\ (g.todo \in Leaving2 <=> Top(c).todo \in Leaving2)
        /\ \A op, o : InView(op, Top(c), o) => InView(op, g, o)
    BY <1>3, <1>10, <1>11, <1>f
  <2> QED
    BY <1>9, <1>11, <2>2, <2>3, LookupAdvances
<1> QED
  BY <1>12, <1>13

(* The object has gone: it is left out.                                    *)
PassedFrame(f, o) == [f EXCEPT !.rest = @ \ {o}]

LEMMA VisitsNobody ==
    ASSUME LookupInv, NEW c \in Callers, InCall(c), NEW f, f = Top(c), f.todo[1] = "each",
           NEW o \in f.rest, refs[o] = {}, NEW g, g = PassedFrame(f, o),
           frames' = [frames EXCEPT ![c] = <<g>> \o Tail(@)],
           Aside, Still, locked' = locked, called' = called
    PROVE  LookupInv'
<1>1. /\ CallTypes /\ References /\ f \in CallFrames /\ FrameShape(f)
      /\ TokensOf(c, f, refs) /\ RightFrame(f) /\ KeepsSet(c, f, setsHeld, listed)
  BY TopKnows
<1> DEFINE R == f.rest \ {o}
<1>2. g = [f EXCEPT !.rest = R] /\ R \subseteq f.rest /\ f.loose \subseteq f.loose
  BY DEF PassedFrame
<1>3. /\ g.op = f.op /\ g.self = f.self /\ g.for = f.for /\ g.todo = f.todo /\ g.ref = f.ref
      /\ g.found = f.found /\ g.key = f.key /\ g.loose = f.loose /\ g.rest = R
  BY <1>1 DEF CallFrames, PassedFrame
<1>a. f.op # "close" => f.todo[1] \in {"each", "release"}
  OBVIOUS
<1> HIDE DEF R
<1>4. Continues(f, g)
  BY <1>1, <1>2, <1>a, Lessens
<1>5. StepsOn(c, g)
  BY <1>4, HandsOn
<1>6. locked' \in [Objects -> Callers \cup {None}] /\ steady \in [Callers -> SUBSET Objects]
      /\ f.todo[1] \notin {"finish", "unlist"}
  BY <1>1 DEF CallTypes
<1>7. CASE f.op = "close"
  <2>1. Top(c).op = "close" /\ Top(c).todo[1] \notin {"finish", "unlist"} /\ g.todo = Top(c).todo
    BY <1>3, <1>6, <1>7
  <2> QED
    BY <1>5, <1>6, <2>1, CloseAdvances
<1>8. CASE f.op # "close"
  <2>1. SameFields(f, g) /\ g.rest \subseteq f.rest
    BY <1>2, <1>3 DEF SameFields
  <2>2. /\ TokensOf(c, g, refs) /\ KeepsSet(c, g, setsHeld, listed)
        /\ \A op, x : InView(op, f, x) => InView(op, g, x) \/ x \in f.rest \ g.rest
    BY <1>1, <1>3, <2>1, SameTokens
  <2>3. RightFrame(g)
    <3>1. AskOf(g) = AskOf(f) /\ \A x \in f.loose : SeenEnough(g, x) <=> SeenEnough(f, x)
      BY <1>3 DEF AskOf, SeenEnough
    <3> QED
      BY <1>1, <1>2, <1>3, <3>1 DEF RightFrame
  <2>4. \A x \in steady[c] : x # o
    BY <1>1 DEF References, SteadyIsHeld
  <2>5. \A x \in steady[c] : InView(BaseOf(frames[c]).op, Top(c), x) => InView(BaseOf(frames[c]).op, g, x)
    BY <1>3, <2>2, <2>4 DEF R
  <2>6. Top(c).op # "close" /\ g.key = Top(c).key /\ (g.todo \in Leaving2 <=> Top(c).todo \in Leaving2)
    BY <1>3, <1>8
  <2> QED
    BY <1>5, <1>6, <2>2, <2>3, <2>5, <2>6, LookupAdvances
<1> QED
  BY <1>7, <1>8

(* A close() that closes what it contains: the frame that waits for it.    *)
WaitingFrame(f, o) == [[f EXCEPT !.rest = @ \ {o}] EXCEPT !.todo = <<"release">> \o @, !.loose = {o}]

VisitFrames(c, f, o, g, h, t) ==
    g = WaitingFrame(f, o) /\ h = CloseCall(o) /\ t = <<h>> \o (<<g>> \o Tail(frames[c]))

Visited(c, f, o, g, h, t) ==
    /\ Goes(frames[c], t, {g} \cup {h}) /\ FramesOf(t) = {h} \cup ({g} \cup Lower(frames[c]))
    /\ ~Destructor(f) /\ ~Destructor(g) /\ ~Destructor(h)
    /\ g.op = "close" /\ g.self = f.self /\ h.op = "close" /\ h.self = o
    /\ o \in Objects /\ g \in CallFrames /\ h \in CallFrames
    /\ \A F, L, U : ClosesInOrder(f, F, L, U) => ClosesInOrder(g, F, L, U)
    /\ ClosesInOrder(h, fate, listed, using)

LEMMA VisitsMember ==
    ASSUME LookupInv, NEW c \in Callers, InCall(c), NEW f, f = Top(c), f.todo[1] = "each",
           f.op = "close", NEW o \in f.rest, refs[o] # {},
           NEW g, NEW h, NEW t, VisitFrames(c, f, o, g, h, t)
    PROVE  Visited(c, f, o, g, h, t)
<1>v. g = WaitingFrame(f, o) /\ h = CloseCall(o) /\ t = <<h>> \o (<<g>> \o Tail(frames[c]))
  BY DEF VisitFrames
<1> DEFINE s == frames[c]
           q == <<g>> \o Tail(s)
<1>1. /\ CallTypes /\ CallStacks /\ References /\ s # << >> /\ StackShape(s) /\ f = s[1]
      /\ f \in CallFrames /\ FrameShape(f)
      /\ Destructor(f) => fate[f.self] = "gone" /\ f.self \in Objects /\ refs[f.self] = {}
  BY TopKnows
<1>2. /\ o \in Objects /\ Holder[o] = f.self /\ f.self \in Objects /\ CloseTodo(f.todo) /\ f.todo # << >>
      /\ f.key = None /\ Len(f.todo) \in Nat \ {0}
  BY <1>1, Ops DEF CloseShape
<1>3. ~Destructor(f)
  <2>1. Holder[o] # None
    BY <1>2, LookupAssumption
  <2>2. o \in refs[f.self]
    BY <1>1, <1>2, <2>1 DEF References, HoldersAreHeld
  <2> QED
    BY <1>1, <2>2
<1>4. /\ Continues(f, g) /\ g.todo = <<"release">> \o f.todo /\ g.loose = {o}
      /\ g.todo[1] = "release" /\ Plain(f)
  <2>1. g = [[f EXCEPT !.rest = @ \ {o}] EXCEPT !.todo = <<"release">> \o @, !.loose = {o}]
    BY <1>v DEF WaitingFrame
  <2> QED
    BY <1>1, <1>3, <2>1, CloseVisits
<1>5. g.key = f.key
  BY <1>1, <1>v DEF CallFrames, WaitingFrame
<1>6. /\ h \in CallFrames /\ FrameShape(h) /\ h.op = "close" /\ h.self = o /\ h.key = None
      /\ Sort[o] # "discovered" => ~FinishesPast(h.todo, "unlist")
      /\ Sort[o] = "topic" => ~FinishesPast(h.todo, "dependents")
      /\ Plain(h)
  <2> DEFINE b == TRUE
  <2>1. b \in BOOLEAN /\ h = CloseCall(o) /\ (h = CloseCall(o) \/ h = DestroyFrame(o, b))
    BY <1>v
  <2> HIDE DEF b
  <2> QED
    BY <1>2, <2>1, CloseStarts
<1>7. /\ g.op = f.op /\ g.self = f.self /\ g \in CallFrames /\ Plain(g) /\ FrameShape(g)
  BY <1>4 DEF Continues
<1>t. t = <<h>> \o q
  BY <1>v
<1>8. Goes(s, q, {g}) /\ FramesOf(q) = {g} \cup Lower(s) /\ StackShape(q) /\ q # << >>
  <2>1. Goes(s, q, {g}) /\ FramesOf(q) = {g} \cup Lower(s) /\ q # << >>
    <3> HIDE DEF s
    <3> QED
      BY <1>1, <1>2, <1>4, <1>5, GoesOn
  <2> QED
    BY <2>1 DEF Goes
<1>9. \A x \in FramesOf(q) : Plain(x) /\ x.todo[1] = "release"
  <2>1. Fits(f, Tail(s))
    BY <1>1, PoppedStack
  <2>2. \A x \in FramesOf(Tail(s)) : Plain(x) /\ x.todo[1] = "release"
    BY <1>4, <2>1 DEF Fits, FramesOf
  <2>3. Lower(s) = FramesOf(Tail(s))
    BY <1>1 DEF Lower
  <2> QED
    BY <1>4, <1>7, <1>8, <2>2, <2>3
<1>10. Fits(h, q)
  <2>1. \A j \in 1 .. Len(q) : q[j] \in FramesOf(q)
    BY DEF FramesOf
  <2>2. h.op \notin DOMAIN Seeks /\ h.op # "contains" /\ h.op # "find_topic_description"
    BY <1>6, SeeksFacts
  <2> HIDE DEF q
  <2> QED
    BY <1>9, <2>1, <2>2 DEF Fits
<1>11. Goes(s, t, {g} \cup {h}) /\ FramesOf(t) = {h} \cup FramesOf(q)
  <2> HIDE DEF s, q
  <2> QED
    BY <1>6, <1>8, <1>10, <1>t, GoesUp
<1>12. \A F, L, U : ClosesInOrder(f, F, L, U) => ClosesInOrder(g, F, L, U)
  <2>1. \A i \in 1 .. Len(f.todo) : f.todo[i] # "release"
    <3>1. \A i \in 2 .. Len(f.todo) : f.todo[i] # "release"
      BY <1>2 DEF CloseTodo
    <3>2. \A i \in 1 .. Len(f.todo) : i = 1 \/ i \in 2 .. Len(f.todo)
      BY <1>2
    <3> QED
      BY <3>1, <3>2
  <2>2. \A st \in {"unlist", "dependents"} : FinishesPast(g.todo, st) => FinishesPast(f.todo, st)
    <3> DEFINE w == f.todo
    <3>1. CloseTodo(w) /\ w # << >> /\ (\A i \in 1 .. Len(w) : w[i] # "release") /\ "release" \in {"each", "release"}
      BY <1>2, <2>1
    <3>2. g.todo = <<"release">> \o w
      BY <1>4
    <3> HIDE DEF w
    <3>3. \A st \in {"unlist", "dependents"} : FinishesPast(<<"release">> \o w, st) => FinishesPast(w, st)
      BY <3>1, ClosePut
    <3> QED
      BY <3>2, <3>3 DEF w
  <2> QED
    BY <1>7, <2>2 DEF ClosesInOrder
<1>13. ClosesInOrder(h, fate, listed, using)
  <2>1. fate[o] # "late"
    BY <1>1, <1>2 DEF References, GoneHasNone
  <2>2. h.self = o /\ (Sort[o] # "discovered" => ~FinishesPast(h.todo, "unlist"))
        /\ (Sort[o] = "topic" => ~FinishesPast(h.todo, "dependents"))
    BY <1>6
  <2> QED
    BY <2>1, <2>2 DEF ClosesInOrder
<1>14. ~Destructor(g) /\ ~Destructor(h)
  BY <1>6, <1>7 DEF Plain
<1>15. FramesOf(t) = {h} \cup ({g} \cup Lower(s))
  BY <1>8, <1>11
<1>16. g.op = "close" /\ g.self = f.self /\ h.op = "close" /\ h.self = o /\ g \in CallFrames /\ h \in CallFrames
  BY <1>6, <1>7
<1> QED
  BY <1>2, <1>3, <1>11, <1>12, <1>13, <1>14, <1>15, <1>16 DEF s, Visited

(* A strong reference.                                                     *)
Takes(c, o) == refs' = [refs EXCEPT ![o] = @ \cup {c}]

LEMMA CloseVisitsKeeps ==
    ASSUME LookupInv, NEW c \in Callers, InCall(c), NEW f, f = Top(c), f.todo[1] = "each",
           f.op = "close", NEW o \in f.rest, refs[o] # {},
           Moves(c, <<CloseCall(o)>> \o (<<WaitingFrame(f, o)>> \o Tail(frames[c]))),
           Takes(c, o), Disturb(o), called' = called,
           fate' = fate, locked' = locked, setsHeld' = setsHeld, listed' = listed, using' = using,
           answer' = answer
    PROVE  LookupInv'
<1> DEFINE g == WaitingFrame(f, o)
           h == CloseCall(o)
           q == <<g>> \o Tail(frames[c])
           t == <<h>> \o q
           N == {g} \cup {h}
<1>1. /\ Goes(frames[c], t, N) /\ FramesOf(t) = {h} \cup ({g} \cup Lower(frames[c]))
      /\ ~Destructor(f) /\ ~Destructor(g) /\ ~Destructor(h)
      /\ g.op = "close" /\ g.self = f.self /\ h.op = "close" /\ h.self = o
      /\ o \in Objects
      /\ \A F, L, U : ClosesInOrder(f, F, L, U) => ClosesInOrder(g, F, L, U)
      /\ ClosesInOrder(h, fate, listed, using)
  <2>1. VisitFrames(c, f, o, g, h, t)
    BY DEF VisitFrames
  <2> HIDE DEF g, h, t
  <2>2. Visited(c, f, o, g, h, t)
    BY <2>1, VisitsMember
  <2> QED
    BY <2>2 DEF Visited
<1>2. /\ CallTypes /\ CallStacks /\ References /\ Closings /\ f \in CallFrames /\ FrameShape(f)
      /\ f \in FramesOf(frames[c]) /\ ClosesInOrder(f, fate, listed, using)
      /\ answer[c] # None => Destructor(f)
  BY TopKnows
<1>3. Moves(c, t)
  OBVIOUS
<1> HIDE DEF g, h, q, t
<1>m. Changes(c, N) /\ frames'[c] = t
  BY <1>1, <1>2, <1>3, Changed
<1>4. \A x \in N : /\ x.op = "close" /\ x.self \in {f.self, o} /\ ~Destructor(x)
                   /\ ClosesInOrder(x, fate, listed, using)
  BY <1>1, <1>2
<1> HIDE DEF N
<1>5. f.self \in Objects /\ \A x : ~AboutToFinish(f, x)
  <2>1. f.todo[1] \notin {"finish", "unlist"}
    OBVIOUS
  <2> QED
    BY <1>2, <2>1, Ops, NotAbout DEF CloseShape
<1>6. /\ steady' \in [Callers -> SUBSET Objects] /\ closing' \in [Callers -> SUBSET Objects]
      /\ \A d \in Callers : steady'[d] \subseteq steady[d] /\ closing[d] \subseteq closing'[d]
      /\ \A d \in Callers : InCall(d) => o \in closing'[d]
      /\ refs' \in [Objects -> SUBSET (Objects \cup Callers \cup {"app"})]
      /\ \A x \in Objects : refs[x] \subseteq refs'[x] /\ (refs[x] = {} => refs'[x] = {})
  BY <1>1, <1>2 DEF CallTypes, Disturb, Takes
<1>7. References'
  <2>1. \A x \in Objects : fate'[x] = fate[x] \/ (fate'[x] = "closed" /\ fate[x] \notin {"gone", "late"})
    OBVIOUS
  <2>2. \A d \in Callers : \A x \in steady'[d] : x \in Objects /\ "app" \in refs[x]
    BY <1>2, <1>6 DEF References, SteadyIsHeld
  <2>3. answer[c] # None => \A x \in N : Destructor(x)
    BY <1>1, <1>2
  <2>4. \A x \in N : (Destructor(x) => fate[x.self] = "gone" /\ x.self \in Objects) /\ TokensOf(c, x, refs')
    BY <1>4, CloseRight
  <2> QED
    BY <1>2, <1>m, <1>6, <2>1, <2>2, <2>3, <2>4, RefsKept
<1>8. Closings'
  <2>1. \A x \in N : x.op = "close" => x.self \in Objects /\ ClosesInOrder(x, fate', listed', using')
    BY <1>1, <1>4, <1>5
  <2>2. \A x \in N : x.op = "close" =>
           ClosesFor(frames[c], x.self) \/ \A d \in Callers : InCall(d) => x.self \in closing'[d]
    BY <1>2, <1>4, <1>6 DEF ClosesFor
  <2>3. \A x \in Objects :
           (Sort[x] \in {"reader", "writer"} /\ x \in using \ using') \/ (InCall(c) /\ AboutToFinish(Top(c), x)) =>
              fate'[x] = "closed" \/ refs'[x] = {} \/ \E y \in FramesOf(frames'[c]) : AboutToFinish(y, x)
    BY <1>5
  <2>4. \A x \in Objects :
           \/ fate'[x] = fate[x]
           \/ fate'[x] = "gone" /\ refs'[x] = {}
           \/ /\ fate'[x] = "closed" /\ ClosesFor(frames[c], x)
              /\ Sort[x] # "discovered" => x \notin listed'
              /\ Sort[x] = "topic" => Unused(x, using')
    OBVIOUS
  <2>5. listed' \subseteq listed /\ using' \subseteq using /\ (\A x \in Objects : refs'[x] # {} => refs[x] # {})
        /\ \A d \in Callers : closing[d] \subseteq closing'[d]
    BY <1>6
  <2> QED
    BY <1>2, <1>m, <2>1, <2>2, <2>3, <2>4, <2>5, ClosingsKept
<1>9. OtherTypes
  <2>1. /\ fate \in [Objects -> {"late", "open", "closed", "gone"}]
        /\ locked \in [Objects -> Callers \cup {None}] /\ setsHeld \subseteq Sets \X Callers
        /\ listed \subseteq Objects /\ using \subseteq Objects
        /\ called \in [Callers -> Nat] /\ \A d \in Callers : called[d] \in 0 .. MaxCalls[d]
    BY <1>2 DEF CallTypes
  <2> QED
    BY <1>6, <2>1 DEF OtherTypes
<1>10. InCall(c) => /\ Top(c).op = "close"
                    /\ Lower(frames[c]) \subseteq FramesOf(frames'[c]) \/ BaseOf(frames'[c]).op = "close"
  BY <1>1, <1>m
<1>11. \A x \in N : x.op = "close"
  BY <1>4
<1>12. \A x \in listed : x \in listed' \/ FreeSet(SetOf(x))
  OBVIOUS
<1> QED
  BY <1>m, <1>6, <1>7, <1>8, <1>9, <1>10, <1>11, <1>12, CloseKeeps

(* A lookup has the next entity.                                           *)
LookingFrame(f, o) == [[f EXCEPT !.rest = @ \ {o}] EXCEPT !.todo = <<"test">> \o @, !.ref = o]

LEMMA LookupVisitsKeeps ==
    ASSUME LookupInv, NEW c \in Callers, InCall(c), NEW f, f = Top(c), f.todo[1] = "each",
           f.op # "close", ~Stops(f), NEW o \in f.rest, refs[o] # {},
           NEW g, g = LookingFrame(f, o),
           frames' = [frames EXCEPT ![c] = <<g>> \o Tail(@)],
           Takes(c, o), Still, called' = called,
           fate' = fate, locked' = locked, setsHeld' = setsHeld, listed' = listed, using' = using,
           answer' = answer
    PROVE  LookupInv'
<1>1. /\ CallTypes /\ CallStacks /\ References /\ SetsLocked /\ f \in CallFrames /\ FrameShape(f)
      /\ TokensOf(c, f, refs) /\ RightFrame(f) /\ KeepsSet(c, f, setsHeld, listed)
      /\ Searching(frames[c], steady[c], closing[c])
  BY TopKnows
<1>2. g.rest = f.rest \ {o} /\ g.ref = o /\ g.found = f.found /\ g.loose = f.loose /\ g.key = f.key
  BY <1>1 DEF CallFrames, LookingFrame
<1>3. f.op = "contains" => f.found = {}
  BY DEF Stops
<1>4. /\ Continues(f, g) /\ f.ref = None /\ f.loose = {} /\ o \in Objects /\ o # None
      /\ g.todo \notin Leaving2 /\ f.op # "find_topic_description"
  <2>1. g = [[f EXCEPT !.rest = @ \ {o}] EXCEPT !.todo = <<"test">> \o @, !.ref = o]
    BY DEF LookingFrame
  <2> QED
    BY <1>1, <1>3, <2>1, LookupVisits
<1>5. StepsOn(c, g)
  BY <1>4, HandsOn
<1>6. g.op = f.op /\ g.self = f.self /\ g.for = f.for
  BY <1>4 DEF Continues
<1>7. Changes(c, {g}) /\ FramesOf(frames'[c]) = {g} \cup Lower(frames[c])
  BY <1>1, <1>2, <1>5, StepChanges
<1>8. f.todo \notin Leaving2
  <2>1. f.todo \in Leaving2 => f.todo[1] \in {"release", "unwind"}
    BY LeavingStages
  <2> QED
    BY <2>1
<1>9. /\ refs' \in [Objects -> SUBSET (Objects \cup Callers \cup {"app"})]
      /\ \A x \in Objects : refs[x] \subseteq refs'[x] /\ (refs[x] = {} => refs'[x] = {})
      /\ c \in refs'[o]
  BY <1>1, <1>4 DEF CallTypes, Takes
<1>10. TokensOf(c, g, refs')
  <2>1. Tokens(f) = f.found /\ Tokens(g) = f.found \cup {o}
    BY <1>2, <1>4 DEF Tokens
  <2>2. f.found \subseteq Objects
    BY <1>1, Ops
  <2> QED
    BY <1>1, <1>2, <1>4, <1>6, <1>9, <2>1, <2>2 DEF TokensOf
<1>11. RightFrame(g)
  <2>1. AskOf(g) = AskOf(f)
    BY <1>6 DEF AskOf
  <2> QED
    BY <1>1, <1>2, <1>4, <1>6, <2>1 DEF RightFrame
<1>12. KeepsSet(c, g, setsHeld, listed)
  BY <1>1, <1>2, <1>4, <1>6 DEF KeepsSet
<1>13. \A op, x : InView(op, f, x) => InView(op, g, x)
  BY <1>2, <1>4, <1>6 DEF InView, Tokens
<1>14. Searching(frames'[c], steady[c], closing[c])
  <2>1. Top(c).op # "close" /\ g.key \in {Top(c).key, None} /\ (g.todo \in Leaving2 <=> Top(c).todo \in Leaving2)
        /\ \A op, x : InView(op, Top(c), x) => InView(op, g, x)
    BY <1>2, <1>4, <1>8, <1>13
  <2> QED
    BY <1>1, <1>5, <2>1, SearchAdvances
<1>15. SetsLocked'
  <2> DEFINE N == {g}
  <2>1. Changes(c, N) /\ setsHeld' = setsHeld /\ (\A x \in listed : x \in listed' \/ FreeSet(SetOf(x)))
        /\ \A x \in N : KeepsSet(c, x, setsHeld, listed')
    BY <1>7, <1>12
  <2> HIDE DEF N
  <2> QED
    BY <1>1, <2>1, SetsStay
<1>16. OtherTypes
  <2>1. /\ fate \in [Objects -> {"late", "open", "closed", "gone"}]
        /\ locked \in [Objects -> Callers \cup {None}] /\ setsHeld \subseteq Sets \X Callers
        /\ listed \subseteq Objects /\ using \subseteq Objects
        /\ steady \in [Callers -> SUBSET Objects] /\ closing \in [Callers -> SUBSET Objects]
        /\ called \in [Callers -> Nat] /\ \A d \in Callers : called[d] \in 0 .. MaxCalls[d]
    BY <1>1 DEF CallTypes
  <2> QED
    BY <1>9, <2>1 DEF OtherTypes, Still
<1>17. Changes(c, {g}) /\ Top(c).op # "close"
  BY <1>7
<1>18. /\ closing' = closing /\ \A d \in Callers : d # c => steady'[d] \subseteq steady[d]
       /\ \A x \in steady'[c] : "app" \in refs[x]
       /\ Searching(frames'[c], steady'[c], closing[c])
  BY <1>1, <1>14 DEF Still, References, SteadyIsHeld
<1> DEFINE N == {g}
<1>19. Changes(c, N) /\ \A x \in N : x.op # "close" /\ TokensOf(c, x, refs') /\ RightFrame(x)
  BY <1>6, <1>10, <1>11, <1>17
<1> HIDE DEF N
<1> QED
  BY <1>9, <1>15, <1>16, <1>17, <1>18, <1>19, LookupKeeps

LEMMA VisitKeeps ==
    ASSUME LookupInv, NEW c \in Callers, Visit(c), called' = called
    PROVE  LookupInv'
<1> DEFINE f == Top(c)
<1>1. PICK o \in f.rest :
         /\ InCall(c) /\ f.todo[1] = "each" /\ ~Stops(f)
         /\ LET e == [f EXCEPT !.rest = @ \ {o}]
            IN IF refs[o] = {}
               THEN Go(c, e)
               ELSE /\ refs' = [refs EXCEPT ![o] = @ \cup {c}]
                    /\ IF e.op = "close"
                       THEN /\ frames' = [frames EXCEPT ![c] =
                                  <<CloseCall(o)>> \o
                                  <<[e EXCEPT !.todo = <<"release">> \o @, !.loose = {o}]>>
                                  \o Tail(@)]
                            /\ Disturb(o)
                       ELSE /\ SetTop(c, [e EXCEPT !.todo = <<"test">> \o @, !.ref = o])
                            /\ Undisturbed
                    /\ UNCHANGED <<fate, locked, setsHeld, listed, using, answer>>
  BY DEF Visit, On
<1>2. f \in CallFrames /\ FrameShape(f) /\ frames[c] \in Seq(CallFrames) /\ frames[c] # << >>
  BY <1>1, TopKnows DEF StackShape
<1>3. [f EXCEPT !.rest = @ \ {o}].op = f.op
  BY <1>2 DEF CallFrames
<1>f. f = Top(c)
  OBVIOUS
<1> HIDE DEF f
<1>a. InCall(c) /\ f.todo[1] = "each" /\ ~Stops(f)
  BY <1>1
<1>4. CASE refs[o] = {}
  <2> DEFINE g == PassedFrame(f, o)
  <2>1. frames' = [frames EXCEPT ![c] = <<g>> \o Tail(@)] /\ Aside /\ Still /\ locked' = locked
    BY <1>1, <1>4 DEF Go, SetTop, Undisturbed, Aside, Still, PassedFrame
  <2>2. g = PassedFrame(f, o)
    OBVIOUS
  <2> HIDE DEF g
  <2> QED
    BY <1>a, <1>f, <1>4, <2>1, <2>2, VisitsNobody
<1>5. CASE refs[o] # {} /\ f.op = "close"
  <2>1. /\ Takes(c, o) /\ Disturb(o)
        /\ fate' = fate /\ locked' = locked /\ setsHeld' = setsHeld /\ listed' = listed /\ using' = using
        /\ answer' = answer
    BY <1>1, <1>3, <1>5 DEF Takes
  <2>2. frames' = [frames EXCEPT ![c] = <<CloseCall(o)>> \o <<WaitingFrame(f, o)>> \o Tail(@)]
    BY <1>1, <1>3, <1>5 DEF WaitingFrame
  <2>3. CloseCall(o) \in CallFrames /\ WaitingFrame(f, o) \in CallFrames
    <3> DEFINE g == WaitingFrame(f, o)
               h == CloseCall(o)
               t == <<h>> \o (<<g>> \o Tail(frames[c]))
    <3>1. VisitFrames(c, f, o, g, h, t)
      BY DEF VisitFrames
    <3> HIDE DEF g, h, t
    <3>2. Visited(c, f, o, g, h, t)
      BY <1>a, <1>f, <1>5, <3>1, VisitsMember
    <3> QED
      BY <3>2 DEF g, h, Visited
  <2> DEFINE h == CloseCall(o)
             g == WaitingFrame(f, o)
  <2>4. <<h>> \o <<g>> \o Tail(frames[c]) = <<h>> \o (<<g>> \o Tail(frames[c]))
    <3>1. h \in CallFrames /\ g \in CallFrames
      BY <2>3
    <3> HIDE DEF g, h
    <3> QED
      BY <1>2, <3>1, StackForms
  <2>5. Moves(c, <<h>> \o (<<g>> \o Tail(frames[c])))
    BY <2>2, <2>4 DEF Moves
  <2>6. Moves(c, <<CloseCall(o)>> \o (<<WaitingFrame(f, o)>> \o Tail(frames[c])))
    BY <2>5
  <2> HIDE DEF g, h
  <2> QED
    BY <1>a, <1>f, <1>5, <2>1, <2>6, CloseVisitsKeeps
<1>6. CASE refs[o] # {} /\ f.op # "close"
  <2> DEFINE g == LookingFrame(f, o)
  <2>1. /\ Takes(c, o) /\ Still
        /\ fate' = fate /\ locked' = locked /\ setsHeld' = setsHeld /\ listed' = listed /\ using' = using
        /\ answer' = answer
    BY <1>1, <1>3, <1>6 DEF Undisturbed, Still, Takes
  <2>2. frames' = [frames EXCEPT ![c] = <<g>> \o Tail(@)]
    BY <1>1, <1>3, <1>6 DEF LookingFrame, SetTop
  <2>3. g = LookingFrame(f, o)
    OBVIOUS
  <2> HIDE DEF g
  <2> QED
    BY <1>a, <1>f, <1>6, <2>1, <2>2, <2>3, LookupVisitsKeeps
<1> QED
  BY <1>4, <1>5, <1>6
=============================================================================
