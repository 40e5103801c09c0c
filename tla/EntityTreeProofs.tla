-------------------------- MODULE EntityTreeProofs --------------------------
(***************************************************************************)
(* Proofs about EntityTree, for any tree of entities and any number of     *)
(* threads: types, NoDeadlock and UsedOutlives.                            *)
(*                                                                         *)
(* The argument: a thread has the mutex of an entity only while it is in   *)
(* close() of it, past the stage "lock" (Owned). The functions on a stack  *)
(* are those of an entity, its parent, the parent of that and so on        *)
(* (StackOK), so that a thread that has the mutex of an entity and waits   *)
(* for another one waits for that of an entity further down the tree. A    *)
(* constructor has no mutex at all.                                        *)
(*                                                                         *)
(* For UsedOutlives, UsedInv says of every function on a stack what it has *)
(* done and has still to do (FunctionOK), what every entity of a container *)
(* being closed is waiting for (KidsOK), and bounds each nrDependents, as  *)
(* stored and as a thread has read it, by what holds the topic and what    *)
(* may (CountersOK, CountOK). An unlocked counter can lose decrements but, *)
(* while constructors run alone, never an increment.                       *)
(***************************************************************************)
EXTENDS EntityTree, SequenceTheorems, FiniteSetTheorems, TLAPS

Last3 == {"delete", "closeObject", "enable"}

(* The stages of close() with the mutex, and those of a constructor.       *)
InsideStages == {"publishers", "subscribers", "cfts", "topics", "endpoints", "queries", "each",
                 "dependents", "listener", "unregister", "readDecr", "decr", "delete",
                 "closeObject"}
MakingStages == {"handleParent", "handleTopic", "create", "readIncr", "incr", "register",
                 "autoEnable", "enable"}

(* What is left of a function are stages of one kind, the last of which    *)
(* ends it.                                                                *)
Ends(todo, stages) ==
    /\ todo \in Seq(stages)
    /\ todo # << >>
    /\ \A j \in 1 .. Len(todo) : todo[j] \in Last3 <=> j = Len(todo)

Inside(todo) == Ends(todo, InsideStages)
Making(todo) == Ends(todo, MakingStages)

(* close() before it has the mutex.                                        *)
Before(f) ==
    \/ f.todo \in {Body(Kind[f.e]), DestructorBody(Kind[f.e])}
    \/ Kind[f.e] = "query" /\ f.todo = <<"lock", "unregister", "delete">>

Frames == [e : Entities, todo : Seq(Stages), rest : SUBSET Entities]

FrameOK(f) ==
    /\ f \in Frames
    /\ \A x \in f.rest : Parent[x] = f.e
    /\ Before(f) \/ Inside(f.todo) \/ (Making(f.todo) /\ f.e \in Endpoints)
    /\ (\E j \in 1 .. Len(f.todo) : f.todo[j] \in {"readDecr", "decr"}) => f.e \in Dependents

(* How far an entity is from its participant.                              *)
Rank(e) ==
    CASE Kind[e] = "participant" -> 0
      [] Kind[e] \in {"publisher", "subscriber", "topic", "cft"} -> 1
      [] Kind[e] \in {"reader", "writer"} -> 2
      [] Kind[e] = "query" -> 3

StackOK(s) ==
    /\ s \in Seq(Frames)
    /\ \A i \in 1 .. Len(s) : FrameOK(s[i])
    /\ \A i \in 2 .. Len(s) : Inside(s[i].todo) /\ s[i].todo[1] = "each"
    /\ \A i, j \in 1 .. Len(s) : i < j => Rank(s[j].e) < Rank(s[i].e)
    /\ s # << >> /\ Making(s[1].todo) => Len(s) = 1

Owned(s, e) == \E i \in 1 .. Len(s) : s[i].e = e /\ Inside(s[i].todo)

Typed ==
    /\ seen \in [Threads -> 0 .. MaxDependents]
    /\ owner \in [Entities -> Threads \cup {Nobody}]
    /\ status \in [Entities -> {"unborn", "open", "expired", "closed"}]
    /\ born \subseteq Entities
    /\ enabled \subseteq Entities
    /\ members \in [Entities -> SUBSET Entities]
    /\ nrDependents \in [Entities -> 0 .. MaxDependents]
    /\ holds \subseteq Dependents
    /\ alive \subseteq Entities

Stacks ==
    /\ stack \in [Threads -> Seq(Frames)]
    /\ \A t \in Threads : StackOK(stack[t])

Owners == \A e \in Entities : owner[e] # Nobody => Owned(stack[owner[e]], e)

Contains == \A e \in Entities : \A x \in members[e] : Parent[x] = e

TreeInv == Typed /\ Stacks /\ Owners /\ Contains

-----------------------------------------------------------------------------
(* The kinds of entities make a tree of four levels.                       *)
LEMMA Ranks ==
    /\ \A e \in Entities : Rank(e) \in 0 .. 3
    /\ \A e \in Entities : Parent[e] # Nobody =>
          Parent[e] \in Entities /\ Rank(Parent[e]) < Rank(e)
    /\ \A e \in Endpoints : Parent[e] \in Entities /\ TopicOf[e] \in Entities
    /\ Endpoints \subseteq Dependents /\ Dependents \subseteq Entities
    /\ \A e \in Dependents : TopicOf[e] \in Entities
<1>1. \A e \in Entities : Kind[e] \in Kinds /\ Rank(e) \in 0 .. 3
  BY TreeAssumption DEF Kinds, Rank
<1>2. ASSUME NEW e \in Entities, Parent[e] # Nobody
      PROVE  Parent[e] \in Entities /\ Rank(Parent[e]) < Rank(e)
  <2>1. Parent[e] \in Entities /\ Kind[e] # "participant"
    BY <1>2, TreeAssumption
  <2>2. Kind[Parent[e]] = Container[Kind[e]]
    BY <2>1, TreeAssumption
  <2> QED
    BY <1>1, <2>1, <2>2 DEF Container, Kinds, Rank
<1>3. \A e \in Endpoints : Parent[e] \in Entities /\ TopicOf[e] \in Entities
  BY TreeAssumption DEF Endpoints, Dependents
<1> QED
  BY <1>1, <1>2, <1>3, TreeAssumption DEF Endpoints, Dependents

(* A stage that is not the last leaves the rest of the function.           *)
LEMMA EndsTail ==
    ASSUME NEW stages, NEW todo, Ends(todo, stages), todo[1] \notin Last3
    PROVE  Ends(Tail(todo), stages)
<1> DEFINE q == Tail(todo)
<1>1. /\ q \in Seq(stages) /\ Len(q) = Len(todo) - 1
      /\ \A i \in 1 .. Len(q) : q[i] = todo[i + 1]
  BY HeadTailProperties DEF Ends
<1>2. Len(todo) \in Nat /\ Len(todo) > 1
  BY LenProperties, EmptySeq DEF Ends
<1> HIDE DEF q
<1>3. q # << >>
  BY <1>1, <1>2
<1>4. ASSUME NEW j \in 1 .. Len(q)
      PROVE  q[j] \in Last3 <=> j = Len(q)
  <2>1. j + 1 \in 1 .. Len(todo) /\ q[j] = todo[j + 1]
    BY <1>1, <1>2
  <2>2. todo[j + 1] \in Last3 <=> j + 1 = Len(todo)
    BY <2>1 DEF Ends
  <2> QED
    BY <1>1, <1>2, <2>1, <2>2
<1> QED
  BY <1>1, <1>3, <1>4 DEF Ends, q

(* A loop takes the place of the stage that starts it.                     *)
LEMMA EndsEach ==
    ASSUME NEW todo, Inside(todo), todo[1] \notin Last3
    PROVE  Inside(<<"each">> \o Tail(todo)) /\ (<<"each">> \o Tail(todo))[1] = "each"
<1> DEFINE q == Tail(todo)
           r == <<"each">> \o q
<1>1. Ends(q, InsideStages)
  BY EndsTail DEF Inside
<1>2. <<"each">> \in Seq(InsideStages) /\ Len(<<"each">>) = 1 /\ <<"each">>[1] = "each"
  BY DEF InsideStages
<1>3. q \in Seq(InsideStages) /\ Len(q) \in Nat \ {0}
  BY <1>1, EmptySeq DEF Ends
<1>4. /\ r \in Seq(InsideStages) /\ Len(r) = 1 + Len(q)
      /\ \A i \in 1 .. 1 + Len(q) : r[i] = IF i <= 1 THEN <<"each">>[i] ELSE q[i - 1]
  BY <1>2, <1>3, ConcatProperties
<1>5. r[1] = "each" /\ \A i \in 2 .. Len(r) : r[i] = q[i - 1]
  BY <1>2, <1>3, <1>4
<1>6. \A i \in 1 .. Len(r) : r[i] \in Last3 <=> i = Len(r)
  BY <1>1, <1>3, <1>4, <1>5 DEF Ends, Last3
<1> HIDE DEF q
<1>7. r # << >>
  BY <1>3, <1>4, EmptySeq
<1> QED
  BY <1>4, <1>5, <1>6, <1>7 DEF Inside, Ends, q

-----------------------------------------------------------------------------
(* The lists of stages.                                                    *)
Unlocked == <<"lock", "unregister", "delete">>
Decrements == {"readDecr", "decr"}
Counts(todo) == \E j \in 1 .. Len(todo) : todo[j] \in Decrements

(* What close() and the destructor start with, and what has the mutex.     *)
LEMMA Literals ==
    /\ \A k \in Kinds \ {"query"} :
          /\ Body(k) \in Seq(Stages) /\ Body(k) # << >> /\ Body(k)[1] = "lock"
          /\ Inside(Tail(Body(k)))
    /\ \A k \in Kinds \ {"cft", "reader", "writer"} : ~Counts(Body(k))
    /\ Body("query") \in Seq(Stages) /\ Body("query")[1] = "check"
    /\ Tail(Body("query")) = Unlocked
    /\ DestructorBody("query") \in Seq(Stages) /\ DestructorBody("query")[1] = "unregister"
    /\ Tail(DestructorBody("query")) = Unlocked
    /\ ~Counts(DestructorBody("query")) /\ ~Counts(Unlocked)
    /\ Unlocked \in Seq(Stages) /\ Unlocked[1] = "lock" /\ Inside(Tail(Unlocked))
<1> USE DEF Body, Inside, Ends, InsideStages, Last3, Stages, Unlocked, DestructorBody, Counts,
            Decrements
<1>1. ASSUME NEW k \in Kinds \ {"query"}
      PROVE  /\ Body(k) \in Seq(Stages) /\ Body(k) # << >> /\ Body(k)[1] = "lock"
             /\ Inside(Tail(Body(k)))
  <2>1. CASE k = "participant"
    BY <2>1
  <2>2. CASE k = "publisher"
    BY <2>2 DEF GroupBody
  <2>7. CASE k = "subscriber"
    BY <2>7 DEF GroupBody
  <2>3. CASE k = "topic"
    BY <2>3 DEF TopicBody
  <2>4. CASE k = "cft"
    BY <2>4
  <2>5. CASE k = "reader"
    BY <2>5 DEF ReaderBody
  <2>6. CASE k = "writer"
    BY <2>6 DEF WriterBody
  <2> QED
    BY <2>1, <2>2, <2>3, <2>4, <2>5, <2>6, <2>7 DEF Kinds
<1>2. ASSUME NEW k \in Kinds \ {"cft", "reader", "writer"}
      PROVE  ~Counts(Body(k))
  BY DEF Kinds, GroupBody, TopicBody
<1>3. /\ Body("query") \in Seq(Stages) /\ Body("query")[1] = "check"
      /\ Tail(Body("query")) = Unlocked
  OBVIOUS
<1>4. /\ DestructorBody("query") \in Seq(Stages) /\ DestructorBody("query")[1] = "unregister"
      /\ Tail(DestructorBody("query")) = Unlocked
      /\ ~Counts(DestructorBody("query")) /\ ~Counts(Unlocked)
  OBVIOUS
<1>5. Unlocked \in Seq(Stages) /\ Unlocked[1] = "lock" /\ Inside(Tail(Unlocked))
  OBVIOUS
<1> QED
  BY <1>1, <1>2, <1>3, <1>4, <1>5

(* A constructor has stages of its own, and counts nothing down.           *)
LEMMA Constructors ==
    \A k \in {"reader", "writer"} :
        /\ Making(ConstructorBody(k)) /\ ConstructorBody(k) \in Seq(Stages)
        /\ ~Counts(ConstructorBody(k))
<1> USE DEF ConstructorBody, Making, Ends, MakingStages, Last3, Stages, Counts, Decrements
<1>1. ASSUME NEW k, k = "reader"
      PROVE  Making(ConstructorBody(k)) /\ ConstructorBody(k) \in Seq(Stages)
  BY <1>1
<1>2. ASSUME NEW k, k = "writer"
      PROVE  Making(ConstructorBody(k)) /\ ConstructorBody(k) \in Seq(Stages)
  BY <1>2
<1>3. ASSUME NEW k \in {"reader", "writer"}
      PROVE  ~Counts(ConstructorBody(k))
  OBVIOUS
<1> QED
  BY <1>1, <1>2, <1>3

(* What the first stage says of a function.                                *)
LEMMA FirstStages ==
    ASSUME NEW f, FrameOK(f)
    PROVE  /\ f.todo \in Seq(Stages) /\ f.todo # << >> /\ f.todo[1] \in Stages
           /\ f.todo[1] \in MakingStages => Making(f.todo) /\ f.e \in Endpoints
           /\ f.todo[1] \in {"check", "lock"} => Before(f)
           /\ f.todo[1] \in InsideStages \ {"unregister"} => Inside(f.todo)
           /\ ~(Inside(f.todo) /\ Making(f.todo))
           /\ Before(f) => ~Inside(f.todo) /\ ~Making(f.todo)
           /\ f.todo[1] \in Decrements => f.e \in Dependents
<1> DEFINE q == f.todo
<1>0. f.e \in Entities /\ Kind[f.e] \in Kinds /\ q \in Seq(Stages)
  BY TreeAssumption DEF FrameOK, Frames
<1>1. ASSUME Before(f)
      PROVE  q # << >> /\ q[1] \in {"check", "lock", "unregister"} /\ 1 \in 1 .. Len(q)
             /\ ~Inside(q) /\ ~Making(q)
  <2>1. CASE Kind[f.e] # "query"
    <3>1. q = Body(Kind[f.e])
      BY <1>1, <2>1 DEF Before, DestructorBody
    <3>2. q # << >> /\ q[1] = "lock"
      BY <1>0, <2>1, <3>1, Literals
    <3>3. 1 \in 1 .. Len(q)
      BY <1>0, <3>2, EmptySeq
    <3> QED
      BY <3>2, <3>3, ElementOfSeq DEF Inside, Making, Ends, InsideStages, MakingStages
  <2>2. CASE Kind[f.e] = "query"
    <3>1. q \in {<<"check", "lock", "unregister", "delete">>,
                 <<"unregister", "lock", "unregister", "delete">>,
                 <<"lock", "unregister", "delete">>}
      BY <1>1, <2>2 DEF Before, DestructorBody, Body
    <3> HIDE DEF q
    <3>2. /\ q # << >> /\ q[1] \in {"check", "lock", "unregister"} /\ 1 \in 1 .. Len(q)
          /\ \E j \in 1 .. Len(q) : q[j] = "lock"
      BY <3>1
    <3>3. ~Inside(q) /\ ~Making(q)
      BY <3>2, ElementOfSeq DEF Inside, Making, Ends, InsideStages, MakingStages
    <3> QED
      BY <3>2, <3>3
  <2> QED
    BY <2>1, <2>2
<1>2. ASSUME NEW stages, Ends(q, stages)
      PROVE  q # << >> /\ q[1] \in stages /\ 1 \in 1 .. Len(q)
  <2>1. q # << >> /\ 1 \in 1 .. Len(q)
    BY <1>2, EmptySeq DEF Ends
  <2> QED
    BY <1>2, <2>1, ElementOfSeq DEF Ends
<1>3. Inside(q) => q # << >> /\ q[1] \in InsideStages /\ 1 \in 1 .. Len(q)
  BY <1>2 DEF Inside
<1>4. Making(q) => q # << >> /\ q[1] \in MakingStages /\ 1 \in 1 .. Len(q)
  BY <1>2 DEF Making
<1>5. q # << >> /\ 1 \in 1 .. Len(q)
  BY <1>1, <1>3, <1>4 DEF FrameOK
<1>6. q[1] \in Stages
  BY <1>0, <1>5, ElementOfSeq
<1>7. q[1] \in Decrements => f.e \in Dependents
  BY <1>5 DEF FrameOK, Decrements
<1> HIDE DEF q
<1>8. /\ q[1] \in MakingStages => Making(q) /\ f.e \in Endpoints
      /\ q[1] \in {"check", "lock"} => Before(f)
      /\ q[1] \in InsideStages \ {"unregister"} => Inside(q)
      /\ ~(Inside(q) /\ Making(q))
      /\ Before(f) => ~Inside(q) /\ ~Making(q)
  BY <1>1, <1>3, <1>4 DEF FrameOK, InsideStages, MakingStages, q
<1> QED
  BY <1>0, <1>5, <1>6, <1>7, <1>8 DEF q

(* A function goes on to its next stage.                                   *)
LEMMA FrameAdvances ==
    ASSUME NEW f, FrameOK(f), f.todo[1] \notin Last3
    PROVE  LET g == [f EXCEPT !.todo = Tail(f.todo)]
           IN  /\ FrameOK(g) /\ g.e = f.e /\ g.rest = f.rest
               /\ Inside(f.todo) => Inside(g.todo)
               /\ f.todo[1] = "lock" => Inside(g.todo)
               /\ Making(g.todo) => Making(f.todo)
<1> DEFINE q == f.todo
           r == Tail(f.todo)
           g == [f EXCEPT !.todo = r]
<1>0. /\ f \in Frames /\ f.e \in Entities /\ Kind[f.e] \in Kinds /\ q \in Seq(Stages) /\ q # << >>
      /\ r \in Seq(Stages) /\ Len(r) = Len(q) - 1 /\ \A i \in 1 .. Len(r) : r[i] = q[i + 1]
  <2>1. f \in Frames /\ q \in Seq(Stages) /\ q # << >>
    BY FirstStages DEF FrameOK
  <2>2. f.e \in Entities /\ Kind[f.e] \in Kinds
    BY <2>1, TreeAssumption DEF Frames
  <2> QED
    BY <2>1, <2>2, HeadTailProperties
<1>1. g.todo = r /\ g.e = f.e /\ g.rest = f.rest /\ g \in Frames
  BY <1>0 DEF Frames
<1>2. Counts(r) => Counts(q)
  <2>1. Len(q) \in Nat
    BY <1>0, LenProperties
  <2> HIDE DEF q, r
  <2> QED
    BY <1>0, <2>1 DEF Counts
<1>3. Counts(r) => g.e \in Dependents
  BY <1>1, <1>2 DEF FrameOK, Counts, Decrements
<1>4. CASE Inside(q)
  <2>1. Inside(r)
    BY <1>4, EndsTail DEF Inside
  <2>2. ~Making(r)
    <3>1. r # << >> /\ r \in Seq(InsideStages) /\ 1 \in 1 .. Len(r)
      BY <2>1, EmptySeq DEF Inside, Ends
    <3>2. r[1] \in InsideStages
      BY <3>1, ElementOfSeq
    <3>3. Making(r) => r[1] \in MakingStages
      BY <3>1, ElementOfSeq DEF Making, Ends
    <3> QED
      BY <3>2, <3>3 DEF InsideStages, MakingStages
  <2> HIDE DEF q, r, g
  <2>3. FrameOK(g)
    BY <1>1, <1>3, <2>1 DEF FrameOK, Counts, Decrements
  <2> QED
    BY <1>1, <2>1, <2>2, <2>3 DEF q, r, g
<1>5. CASE Making(q) /\ f.e \in Endpoints
  <2>1. Making(r)
    BY <1>5, EndsTail DEF Making
  <2>2. FrameOK(g)
    BY <1>1, <1>3, <1>5, <2>1 DEF FrameOK, Counts, Decrements
  <2> QED
    BY <1>1, <1>5, <2>1, <2>2, FirstStages DEF MakingStages
<1>6. CASE Before(f)
  <2>1. ~Inside(q) /\ ~Making(q)
    BY <1>6, FirstStages
  <2>2. CASE Kind[f.e] # "query" \/ q = Unlocked
    <3>1. q = Body(Kind[f.e]) \/ q = Unlocked
      BY <1>6, <2>2 DEF Before, DestructorBody
    <3>2. Inside(r)
      BY <1>0, <2>2, <3>1, Literals
    <3>3. FrameOK(g)
      BY <1>1, <1>3, <3>2 DEF FrameOK, Counts, Decrements
    <3>4. ~Making(r)
      BY <1>1, <3>2, <3>3, FirstStages
    <3> QED
      BY <1>1, <3>2, <3>3, <3>4
  <2>3. CASE Kind[f.e] = "query" /\ q # Unlocked
    <3>1. q \in {Body("query"), DestructorBody("query")}
      BY <1>6, <2>3 DEF Before, Unlocked
    <3>2. r = Unlocked /\ q[1] \in {"check", "unregister"}
      BY <3>1, Literals
    <3>3. Before(g)
      BY <1>1, <2>3, <3>2 DEF Before, Unlocked
    <3>4. FrameOK(g)
      BY <1>1, <1>3, <3>3 DEF FrameOK, Counts, Decrements
    <3>5. ~Making(r)
      BY <1>1, <3>3, <3>4, FirstStages
    <3> QED
      BY <1>1, <2>1, <3>2, <3>4, <3>5
  <2> QED
    BY <2>2, <2>3
<1> QED
  BY <1>4, <1>5, <1>6 DEF FrameOK

-----------------------------------------------------------------------------
(* What becomes of a stack: its first function goes on, calls another one, *)
(* or returns.                                                             *)
LEMMA StackFirst ==
    ASSUME NEW s, StackOK(s), s # << >>
    PROVE  /\ Head(s) = s[1] /\ FrameOK(s[1]) /\ s[1] \in Frames /\ s[1].e \in Entities
           /\ Len(s) \in Nat \ {0} /\ Tail(s) \in Seq(Frames) /\ Len(Tail(s)) = Len(s) - 1
           /\ \A i \in 1 .. Len(Tail(s)) : Tail(s)[i] = s[i + 1]
<1>1. s \in Seq(Frames) /\ Len(s) \in Nat \ {0}
  BY EmptySeq DEF StackOK
<1>2. FrameOK(s[1]) /\ s[1] \in Frames /\ s[1].e \in Entities
  <2>1. FrameOK(s[1])
    BY <1>1 DEF StackOK
  <2>2. s[1] \in Frames
    BY <2>1 DEF FrameOK
  <2> QED
    BY <2>1, <2>2 DEF Frames
<1>3. Head(s) = s[1]
  BY <1>1
<1> QED
  BY <1>1, <1>2, <1>3, HeadTailProperties

(* The stack with another first function.                                  *)
LEMMA TopReplaced ==
    ASSUME NEW s, StackOK(s), s # << >>, NEW g \in Frames
    PROVE  LET r == <<g>> \o Tail(s)
           IN  /\ r \in Seq(Frames) /\ Len(r) = Len(s) /\ r[1] = g
               /\ \A i \in 2 .. Len(s) : r[i] = s[i]
<1> DEFINE q == Tail(s)
           r == <<g>> \o q
<1>1. /\ Len(s) \in Nat \ {0} /\ q \in Seq(Frames) /\ Len(q) = Len(s) - 1
      /\ \A i \in 1 .. Len(q) : q[i] = s[i + 1]
  BY StackFirst
<1>2. <<g>> \in Seq(Frames) /\ Len(<<g>>) = 1 /\ <<g>>[1] = g
  OBVIOUS
<1>3. /\ r \in Seq(Frames) /\ Len(r) = 1 + Len(q)
      /\ \A i \in 1 .. 1 + Len(q) : r[i] = IF i <= 1 THEN <<g>>[i] ELSE q[i - 1]
  BY <1>1, <1>2, ConcatProperties
<1> HIDE DEF q, r
<1>4. r[1] = g /\ Len(r) = Len(s)
  BY <1>1, <1>2, <1>3
<1>5. ASSUME NEW i \in 2 .. Len(s)
      PROVE  r[i] = s[i]
  <2>1. i - 1 \in 1 .. Len(q) /\ i \in 1 .. 1 + Len(q) /\ ~(i <= 1) /\ (i - 1) + 1 = i
    BY <1>1
  <2> QED
    BY <1>1, <1>3, <2>1
<1> QED
  BY <1>3, <1>4, <1>5 DEF q, r

(* The first function is replaced by one of the same entity that has the   *)
(* mutex if the first one had it.                                          *)
LEMMA StackGoesOn ==
    ASSUME NEW s, StackOK(s), s # << >>, NEW g,
           FrameOK(g), g.e = s[1].e, Inside(s[1].todo) => Inside(g.todo),
           Making(g.todo) => Making(s[1].todo)
    PROVE  LET r == <<g>> \o Tail(s)
           IN  /\ StackOK(r)
               /\ \A e : Owned(s, e) => Owned(r, e)
               /\ Inside(g.todo) => Owned(r, g.e)
<1> DEFINE r == <<g>> \o Tail(s)
<1>1. g \in Frames
  BY DEF FrameOK
<1>2. /\ r \in Seq(Frames) /\ Len(r) = Len(s) /\ r[1] = g
      /\ \A i \in 2 .. Len(s) : r[i] = s[i]
  BY <1>1, TopReplaced
<1>3. Len(s) \in Nat \ {0}
  BY StackFirst
<1> HIDE DEF r
<1>4. \A i \in 1 .. Len(s) : r[i].e = s[i].e /\ (i = 1 \/ r[i] = s[i])
  BY <1>2, <1>3
<1>5. StackOK(r)
  <2>1. \A i \in 1 .. Len(r) : FrameOK(r[i])
    BY <1>2, <1>3 DEF StackOK
  <2>2. \A i \in 2 .. Len(r) : Inside(r[i].todo) /\ r[i].todo[1] = "each"
    BY <1>2, <1>3 DEF StackOK
  <2>3. \A i, j \in 1 .. Len(r) : i < j => Rank(r[j].e) < Rank(r[i].e)
    BY <1>2, <1>3, <1>4 DEF StackOK, Rank
  <2>4. Making(r[1].todo) => Len(r) = 1
    BY <1>2 DEF StackOK
  <2> QED
    BY <1>2, <2>1, <2>2, <2>3, <2>4 DEF StackOK
<1>6. ASSUME NEW e, Owned(s, e)
      PROVE  Owned(r, e)
  BY <1>2, <1>3, <1>4, <1>6 DEF Owned
<1>7. Inside(g.todo) => Owned(r, g.e)
  BY <1>2, <1>3 DEF Owned
<1> QED
  BY <1>5, <1>6, <1>7 DEF r

(* A loop over a set calls close() of an entity in it.                     *)
LEMMA StackCalls ==
    ASSUME NEW s, StackOK(s), s # << >>, Inside(s[1].todo), s[1].todo[1] = "each",
           NEW h, FrameOK(h), Before(h), Parent[h.e] = s[1].e
    PROVE  LET r == <<h>> \o s
           IN  StackOK(r) /\ \A e : Owned(s, e) => Owned(r, e)
<1> DEFINE r == <<h>> \o s
<1>1. h \in Frames /\ h.e \in Entities
  BY DEF FrameOK, Frames
<1>2. s \in Seq(Frames) /\ Len(s) \in Nat \ {0} /\ s[1].e \in Entities
  BY StackFirst DEF StackOK
<1>3. <<h>> \in Seq(Frames) /\ Len(<<h>>) = 1 /\ <<h>>[1] = h
  BY <1>1
<1>4. /\ r \in Seq(Frames) /\ Len(r) = 1 + Len(s)
      /\ \A i \in 1 .. 1 + Len(s) : r[i] = IF i <= 1 THEN <<h>>[i] ELSE s[i - 1]
  BY <1>2, <1>3, ConcatProperties
<1> HIDE DEF r
<1>5. r[1] = h /\ \A i \in 1 .. Len(s) : r[i + 1] = s[i]
  BY <1>2, <1>3, <1>4
<1>6. \A i \in 2 .. Len(r) : i - 1 \in 1 .. Len(s) /\ r[i] = s[i - 1]
  BY <1>2, <1>4
<1>7. Rank(s[1].e) < Rank(h.e) /\ \A e \in Entities : Rank(e) \in Int
  BY <1>1, <1>2, Ranks, TreeAssumption
<1>8. \A i \in 1 .. Len(s) : s[i].e \in Entities /\ Rank(s[i].e) <= Rank(s[1].e)
  <2>1. \A i \in 1 .. Len(s) : s[i].e \in Entities
    BY <1>2 DEF StackOK, FrameOK, Frames
  <2>2. \A i \in 2 .. Len(s) : Rank(s[i].e) < Rank(s[1].e)
    BY <1>2 DEF StackOK
  <2> QED
    BY <1>2, <1>7, <2>1, <2>2
<1>9. StackOK(r)
  <2>1. \A i \in 1 .. Len(r) : FrameOK(r[i])
    BY <1>5, <1>6 DEF StackOK
  <2>2. \A i \in 2 .. Len(r) : Inside(r[i].todo) /\ r[i].todo[1] = "each"
    <3>1. \A i \in 1 .. Len(s) : Inside(s[i].todo) /\ s[i].todo[1] = "each"
      BY <1>2 DEF StackOK
    <3> QED
      BY <1>6, <3>1
  <2>3. ASSUME NEW i \in 1 .. Len(r), NEW j \in 1 .. Len(r), i < j
        PROVE  Rank(r[j].e) < Rank(r[i].e)
    <3>1. j \in 2 .. Len(r)
      BY <2>3
    <3>2. CASE i = 1
      <4>1. r[i] = h /\ j - 1 \in 1 .. Len(s) /\ r[j] = s[j - 1]
        BY <1>5, <1>6, <3>1, <3>2
      <4> DEFINE k == j - 1
      <4>2. k \in 1 .. Len(s) /\ s[k].e \in Entities /\ Rank(s[k].e) <= Rank(s[1].e)
        BY <1>8, <4>1
      <4> HIDE DEF k
      <4>3. /\ Rank(s[k].e) \in Int /\ Rank(s[1].e) \in Int /\ Rank(h.e) \in Int
            /\ Rank(s[1].e) < Rank(h.e)
        BY <1>1, <1>2, <1>7, <4>2
      <4> DEFINE a == Rank(s[k].e)
                 b == Rank(s[1].e)
                 d == Rank(h.e)
      <4>4. a \in Int /\ b \in Int /\ d \in Int /\ a <= b /\ b < d
        BY <4>2, <4>3
      <4> HIDE DEF a, b, d
      <4>5. a < d
        BY <4>4
      <4> QED
        BY <4>1, <4>5 DEF a, d, k
    <3>3. CASE i # 1
      <4>1. i - 1 \in 1 .. Len(s) /\ j - 1 \in 1 .. Len(s) /\ i - 1 < j - 1
        BY <1>6, <2>3, <3>1, <3>3
      <4>2. Rank(s[j - 1].e) < Rank(s[i - 1].e)
        BY <4>1 DEF StackOK
      <4> QED
        BY <1>6, <2>3, <3>1, <3>3, <4>2
    <3> QED
      BY <3>2, <3>3
  <2>4. ~Making(r[1].todo)
    BY <1>5, FirstStages
  <2> QED
    BY <1>4, <2>1, <2>2, <2>3, <2>4 DEF StackOK
<1>10. ASSUME NEW e, Owned(s, e)
       PROVE  Owned(r, e)
  <2>1. PICK i \in 1 .. Len(s) : s[i].e = e /\ Inside(s[i].todo)
    BY <1>10 DEF Owned
  <2>2. i + 1 \in 1 .. Len(r) /\ r[i + 1] = s[i]
    BY <1>2, <1>4, <1>5
  <2> QED
    BY <2>1, <2>2 DEF Owned
<1> QED
  BY <1>9, <1>10 DEF r

(* close() returns to the loop that called it.                             *)
LEMMA StackReturns ==
    ASSUME NEW s, StackOK(s), s # << >>
    PROVE  StackOK(Tail(s)) /\ \A e : Owned(s, e) /\ e # s[1].e => Owned(Tail(s), e)
<1> DEFINE r == Tail(s)
<1>1. /\ Len(s) \in Nat \ {0} /\ r \in Seq(Frames) /\ Len(r) = Len(s) - 1
      /\ \A i \in 1 .. Len(r) : r[i] = s[i + 1]
  BY StackFirst
<1> HIDE DEF r
<1>2. \A i \in 1 .. Len(r) : i + 1 \in 2 .. Len(s) /\ r[i] = s[i + 1]
  BY <1>1
<1>3. StackOK(r)
  <2>1. \A i \in 1 .. Len(r) : FrameOK(r[i])
    BY <1>2 DEF StackOK
  <2>2. \A i \in 1 .. Len(r) : Inside(r[i].todo) /\ r[i].todo[1] = "each"
    BY <1>2 DEF StackOK
  <2>3. ASSUME NEW i \in 1 .. Len(r), NEW j \in 1 .. Len(r), i < j
        PROVE  Rank(r[j].e) < Rank(r[i].e)
    <3>1. i + 1 \in 1 .. Len(s) /\ j + 1 \in 1 .. Len(s) /\ i + 1 < j + 1
      BY <1>1, <2>3
    <3> QED
      BY <1>2, <3>1 DEF StackOK
  <2>4. r # << >> => ~Making(r[1].todo)
    <3>1. ASSUME r # << >>
          PROVE  1 \in 1 .. Len(r)
      BY <1>1, <3>1, EmptySeq
    <3> QED
      BY <2>1, <2>2, <3>1, FirstStages
  <2> QED
    BY <1>1, <2>1, <2>2, <2>3, <2>4 DEF StackOK
<1>4. ASSUME NEW e, Owned(s, e), e # s[1].e
      PROVE  Owned(r, e)
  <2>1. PICK i \in 1 .. Len(s) : s[i].e = e /\ Inside(s[i].todo)
    BY <1>4 DEF Owned
  <2>2. i - 1 \in 1 .. Len(r) /\ (i - 1) + 1 = i
    BY <1>1, <1>4, <2>1
  <2> QED
    BY <1>2, <2>1, <2>2 DEF Owned
<1> QED
  BY <1>3, <1>4 DEF r

(* A call of the application, or a destructor, is alone on its stack.      *)
LEMMA StackBegins ==
    /\ StackOK(<< >>)
    /\ \A h : FrameOK(h) => StackOK(<<h>>)
<1>1. StackOK(<< >>)
  BY DEF StackOK
<1>2. ASSUME NEW h, FrameOK(h)
      PROVE  StackOK(<<h>>)
  <2>1. h \in Frames
    BY <1>2 DEF FrameOK
  <2>2. <<h>> \in Seq(Frames) /\ Len(<<h>>) = 1 /\ <<h>>[1] = h
    BY <2>1
  <2> DEFINE r == <<h>>
  <2> HIDE DEF r
  <2>3. r \in Seq(Frames) /\ Len(r) = 1 /\ r[1] = h
    BY <2>2 DEF r
  <2>4. StackOK(r)
    BY <1>2, <2>3 DEF StackOK
  <2> QED
    BY <2>4 DEF r
<1> QED
  BY <1>1, <1>2

(* The functions that a call starts with are as they should be.            *)
LEMMA NewFrames ==
    ASSUME NEW e \in Entities
    PROVE  /\ FrameOK(Frame(e, Body(Kind[e]))) /\ Before(Frame(e, Body(Kind[e])))
           /\ FrameOK(Frame(e, DestructorBody(Kind[e])))
           /\ e \in Endpoints => FrameOK(Frame(e, ConstructorBody(Kind[e])))
           /\ \A body : Frame(e, body).e = e
<1> USE DEF Frame
<1>0. Kind[e] \in Kinds
  BY TreeAssumption
<1>1. ASSUME NEW body \in {Body(Kind[e]), DestructorBody(Kind[e])}
      PROVE  FrameOK(Frame(e, body)) /\ Before(Frame(e, body))
  <2>1. body \in Seq(Stages)
    BY <1>0, Literals DEF DestructorBody
  <2>2. Counts(body) => e \in Dependents
    BY <1>0, Literals DEF DestructorBody, Dependents
  <2> QED
    BY <2>1, <2>2 DEF FrameOK, Before, Frames, Counts, Decrements
<1>2. ASSUME e \in Endpoints
      PROVE  FrameOK(Frame(e, ConstructorBody(Kind[e])))
  <2>1. Kind[e] \in {"reader", "writer"}
    BY <1>2 DEF Endpoints
  <2> DEFINE body == ConstructorBody(Kind[e])
  <2>2. Making(body) /\ body \in Seq(Stages) /\ ~Counts(body)
    BY <2>1, Constructors
  <2> HIDE DEF body
  <2>3. FrameOK(Frame(e, body))
    BY <1>2, <2>2 DEF FrameOK, Frames, Counts, Decrements
  <2> QED
    BY <2>3 DEF body
<1> QED
  BY <1>1, <1>2

-----------------------------------------------------------------------------
(* The steps of a thread. Every stack but its own stays.                   *)
LEMMA OneStack ==
    ASSUME Stacks, NEW t \in Threads, NEW r, StackOK(r), stack' = [stack EXCEPT ![t] = r]
    PROVE  Stacks' /\ stack'[t] = r /\ \A u \in Threads \ {t} : stack'[u] = stack[u]
<1>1. r \in Seq(Frames)
  BY DEF StackOK
<1>2. stack \in [Threads -> Seq(Frames)]
  BY DEF Stacks
<1>3. stack'[t] = r /\ \A u \in Threads \ {t} : stack'[u] = stack[u]
  BY <1>2
<1>4. stack' \in [Threads -> Seq(Frames)]
  BY <1>1, <1>2
<1> QED
  BY <1>3, <1>4 DEF Stacks

(* A step that takes and releases no mutex.                                *)
LEMMA SameOwners ==
    ASSUME Typed, Stacks, Owners, NEW t \in Threads, NEW r, StackOK(r),
           stack' = [stack EXCEPT ![t] = r], owner' = owner,
           \A e : Owned(stack[t], e) => Owned(r, e)
    PROVE  Stacks' /\ Owners'
<1>1. Stacks' /\ stack'[t] = r /\ \A u \in Threads \ {t} : stack'[u] = stack[u]
  BY OneStack
<1>2. ASSUME NEW e \in Entities, owner[e] # Nobody
      PROVE  Owned(stack'[owner[e]], e)
  <2>1. Owned(stack[owner[e]], e) /\ owner[e] \in Threads
    BY <1>2 DEF Owners, Typed
  <2> QED
    BY <1>1, <2>1
<1> QED
  BY <1>1, <1>2 DEF Owners

(* A thread that goes on keeps its mutexes, and gets that of "lock".       *)
LEMMA AdvanceKeeps ==
    ASSUME Stacks, NEW t \in Threads, Busy(t), Advance(t), stack[t][1].todo[1] \notin Last3
    PROVE  \E r : /\ StackOK(r) /\ stack' = [stack EXCEPT ![t] = r]
                  /\ \A e : Owned(stack[t], e) => Owned(r, e)
                  /\ stack[t][1].todo[1] = "lock" => Owned(r, Self(t))
<1> DEFINE s == stack[t]
           f == Head(s)
           g == [f EXCEPT !.todo = Tail(f.todo)]
           r == <<g>> \o Tail(s)
<1>1. StackOK(s) /\ s # << >> /\ Head(s) = s[1] /\ FrameOK(s[1])
  BY StackFirst DEF Stacks, Busy
<1>2. /\ FrameOK(g) /\ g.e = s[1].e
      /\ Inside(s[1].todo) => Inside(g.todo)
      /\ s[1].todo[1] = "lock" => Inside(g.todo)
      /\ Making(g.todo) => Making(s[1].todo)
  BY <1>1, FrameAdvances
<1>3. stack' = [stack EXCEPT ![t] = r]
  BY DEF Advance, GoOn, Innermost
<1> HIDE DEF s, f, g
<1>4. /\ StackOK(r) /\ \A e : Owned(s, e) => Owned(r, e)
      /\ Inside(g.todo) => Owned(r, g.e)
  BY <1>1, <1>2, StackGoesOn
<1>5. Self(t) = s[1].e
  BY <1>1 DEF Self, Innermost, s
<1> QED
  BY <1>2, <1>3, <1>4, <1>5 DEF s

(* What the stage of a thread says.                                        *)
LEMMA Staged ==
    ASSUME Stacks, NEW t \in Threads, NEW stage, At(t, stage)
    PROVE  /\ Busy(t) /\ StackOK(stack[t]) /\ stack[t] # << >> /\ FrameOK(stack[t][1])
           /\ stack[t][1].todo[1] = stage /\ Head(stack[t]) = stack[t][1]
           /\ Self(t) = stack[t][1].e /\ Self(t) \in Entities /\ Rest(t) = stack[t][1].rest
<1>1. StackOK(stack[t]) /\ stack[t] # << >>
  BY DEF Stacks, At, Busy
<1> QED
  BY <1>1, StackFirst DEF At, Self, Rest, Innermost, Busy

(* A step that goes on and takes no mutex.                                 *)
LEMMA Advances ==
    ASSUME Typed, Stacks, Owners, NEW t \in Threads, NEW stage \in Stages \ Last3,
           At(t, stage), Advance(t), owner' = owner
    PROVE  Stacks' /\ Owners'
<1>1. Busy(t) /\ stack[t][1].todo[1] \notin Last3
  BY Staged
<1>2. PICK r : /\ StackOK(r) /\ stack' = [stack EXCEPT ![t] = r]
               /\ \A e : Owned(stack[t], e) => Owned(r, e)
  BY <1>1, AdvanceKeeps
<1> QED
  BY <1>2, SameOwners

(* A thread that has no mutex gets another stack.                          *)
LEMMA HasNone ==
    ASSUME Stacks, NEW t \in Threads, stack[t] = << >> \/ Making(stack[t][1].todo)
    PROVE  \A e : ~Owned(stack[t], e)
<1>1. CASE stack[t] = << >>
  BY <1>1 DEF Owned
<1>2. CASE stack[t] # << >> /\ Making(stack[t][1].todo)
  <2>1. Len(stack[t]) = 1 /\ ~Inside(stack[t][1].todo)
    BY <1>2, StackFirst, FirstStages DEF Stacks, StackOK
  <2> QED
    BY <2>1 DEF Owned
<1> QED
  BY <1>1, <1>2

(* An exception leaves the thread with no function and no mutex.           *)
LEMMA Raises ==
    ASSUME Typed, Stacks, Owners, NEW t \in Threads, Raise(t)
    PROVE  Stacks' /\ Owners' /\ owner' \in [Entities -> Threads \cup {Nobody}]
<1>1. /\ stack' = [stack EXCEPT ![t] = << >>]
      /\ owner' = [e \in Entities |-> IF owner[e] = t THEN Nobody ELSE owner[e]]
  BY DEF Raise
<1>2. Stacks' /\ \A u \in Threads \ {t} : stack'[u] = stack[u]
  BY <1>1, StackBegins, OneStack
<1>3. owner' \in [Entities -> Threads \cup {Nobody}]
  BY <1>1 DEF Typed
<1>4. ASSUME NEW e \in Entities, owner'[e] # Nobody
      PROVE  Owned(stack'[owner'[e]], e)
  <2>1. owner'[e] = owner[e] /\ owner[e] # t /\ owner[e] # Nobody
    BY <1>1, <1>4
  <2>2. owner[e] \in Threads \ {t}
    BY <2>1 DEF Typed
  <2> QED
    BY <1>2, <2>1, <2>2 DEF Owners
<1> QED
  BY <1>2, <1>3, <1>4 DEF Owners

(* The last stage of close() releases the mutex of its entity.             *)
LEMMA Finishes ==
    ASSUME Typed, Stacks, Owners, NEW t \in Threads, NEW stage, At(t, stage), Finish(t)
    PROVE  Stacks' /\ Owners'
<1>1. /\ StackOK(stack[t]) /\ stack[t] # << >>
      /\ Self(t) = stack[t][1].e /\ Self(t) \in Entities
  BY Staged
<1>2. /\ stack' = [stack EXCEPT ![t] = Tail(stack[t])]
      /\ owner' = [owner EXCEPT ![Self(t)] = Nobody]
  BY DEF Finish
<1>3. /\ StackOK(Tail(stack[t]))
      /\ \A e : Owned(stack[t], e) /\ e # Self(t) => Owned(Tail(stack[t]), e)
  BY <1>1, StackReturns
<1>4. Stacks' /\ stack'[t] = Tail(stack[t]) /\ \A u \in Threads \ {t} : stack'[u] = stack[u]
  BY <1>2, <1>3, OneStack
<1>5. ASSUME NEW e \in Entities, owner'[e] # Nobody
      PROVE  Owned(stack'[owner'[e]], e)
  <2>1. e # Self(t) /\ owner'[e] = owner[e]
    BY <1>1, <1>2, <1>5 DEF Typed
  <2>2. owner[e] \in Threads /\ Owned(stack[owner[e]], e)
    BY <1>5, <2>1 DEF Owners, Typed
  <2> QED
    BY <1>3, <1>4, <2>1, <2>2
<1> QED
  BY <1>4, <1>5 DEF Owners

(* A stack of one function takes the place of one without a mutex.         *)
LEMMA Begins ==
    ASSUME Typed, Stacks, Owners, NEW t \in Threads, NEW r, StackOK(r),
           stack[t] = << >> \/ Making(stack[t][1].todo),
           stack' = [stack EXCEPT ![t] = r], owner' = owner
    PROVE  Stacks' /\ Owners'
  BY HasNone, SameOwners

(* The stage "lock" takes the mutex.                                       *)
LEMMA Locks ==
    ASSUME Typed, Stacks, Owners, NEW t \in Threads, At(t, "lock"), Advance(t),
           owner' = [owner EXCEPT ![Self(t)] = t]
    PROVE  Stacks' /\ Owners'
<1>1. /\ Busy(t) /\ stack[t][1].todo[1] = "lock" /\ Self(t) \in Entities
  BY Staged
<1>2. PICK r : /\ StackOK(r) /\ stack' = [stack EXCEPT ![t] = r]
               /\ \A e : Owned(stack[t], e) => Owned(r, e)
               /\ Owned(r, Self(t))
  BY <1>1, AdvanceKeeps DEF Last3
<1>3. Stacks' /\ stack'[t] = r /\ \A u \in Threads \ {t} : stack'[u] = stack[u]
  BY <1>2, OneStack
<1>4. ASSUME NEW e \in Entities, owner'[e] # Nobody
      PROVE  Owned(stack'[owner'[e]], e)
  <2>1. CASE e = Self(t)
    <3>1. owner'[e] = t
      BY <1>1, <2>1 DEF Typed
    <3> QED
      BY <1>2, <1>3, <2>1, <3>1
  <2>2. CASE e # Self(t)
    <3>1. owner'[e] = owner[e]
      BY <1>1, <2>2 DEF Typed
    <3>2. owner[e] \in Threads /\ Owned(stack[owner[e]], e)
      BY <1>4, <3>1 DEF Owners, Typed
    <3> QED
      BY <1>2, <1>3, <3>1, <3>2
  <2> QED
    BY <2>1, <2>2
<1> QED
  BY <1>3, <1>4 DEF Owners

(* all_close() starts with a copy of a set ...                             *)
LEMMA Copies ==
    ASSUME Typed, Stacks, Owners, Contains, NEW t \in Threads, Copy(t)
    PROVE  Stacks' /\ Owners'
<1>1. PICK stage \in {"publishers", "subscribers", "cfts", "topics", "endpoints", "queries"} :
        /\ At(t, stage)
        /\ GoOn(t, [Innermost(t) EXCEPT
                       !.todo = <<"each">> \o Tail(Innermost(t).todo),
                       !.rest = {x \in members[Self(t)] : Kind[x] \in KindsIn(stage)}])
  BY DEF Copy
<1> DEFINE s == stack[t]
           f == Innermost(t)
           todo == <<"each">> \o Tail(f.todo)
           rest == {x \in members[Self(t)] : Kind[x] \in KindsIn(stage)}
           g == [f EXCEPT !.todo = todo, !.rest = rest]
<1>2. /\ StackOK(s) /\ s # << >> /\ FrameOK(f) /\ f = s[1] /\ f.todo[1] = stage
      /\ Self(t) = f.e /\ Self(t) \in Entities
  BY <1>1, Staged DEF Innermost
<1>3. Inside(f.todo) /\ stage \notin Last3
  BY <1>1, <1>2, FirstStages DEF InsideStages, Last3
<1>4. Inside(todo)
  BY <1>2, <1>3, EndsEach
<1>5. rest \subseteq Entities /\ \A x \in rest : Parent[x] = f.e
  BY <1>2 DEF Typed, Contains
<1>6. todo \in Seq(Stages) /\ (Counts(todo) => f.e \in Dependents)
  <2>1. Ends(Tail(f.todo), InsideStages)
    BY <1>2, <1>3, EndsTail DEF Inside
  <2> DEFINE q == Tail(f.todo)
  <2>2. /\ f.todo \in Seq(Stages) /\ f.todo # << >> /\ Len(q) = Len(f.todo) - 1
        /\ q \in Seq(Stages) /\ \A i \in 1 .. Len(q) : q[i] = f.todo[i + 1]
    BY <1>2, FirstStages, HeadTailProperties
  <2>3. <<"each">> \in Seq(Stages) /\ Len(<<"each">>) = 1 /\ <<"each">>[1] = "each"
    BY DEF Stages
  <2>4. /\ todo \in Seq(Stages) /\ Len(todo) = 1 + Len(q)
        /\ \A i \in 1 .. 1 + Len(q) : todo[i] = IF i <= 1 THEN <<"each">>[i] ELSE q[i - 1]
    BY <2>2, <2>3, ConcatProperties
  <2>5. Len(q) \in Nat /\ Len(f.todo) \in Nat
    BY <2>2, LenProperties
  <2> HIDE DEF f, todo, q
  <2>6. ASSUME NEW j \in 1 .. Len(todo), todo[j] \in Decrements
        PROVE  Counts(f.todo)
    <3>1. j # 1 /\ j - 1 \in 1 .. Len(q) /\ todo[j] = q[j - 1]
      BY <2>3, <2>4, <2>5, <2>6 DEF Decrements
    <3>2. j \in 1 .. Len(f.todo) /\ f.todo[j] = todo[j]
      BY <2>2, <2>4, <2>5, <3>1
    <3> QED
      BY <2>6, <3>2 DEF Counts
  <2>7. Counts(f.todo) => f.e \in Dependents
    BY <1>2 DEF FrameOK, Counts, Decrements
  <2> QED
    BY <2>4, <2>6, <2>7 DEF Counts
<1>7. f \in Frames
  BY <1>2 DEF FrameOK
<1> HIDE DEF s, f, todo, rest
<1>8. g \in Frames /\ g.todo = todo /\ g.rest = rest /\ g.e = f.e
  BY <1>5, <1>6, <1>7 DEF Frames
<1>9. FrameOK(g)
  BY <1>4, <1>5, <1>6, <1>8 DEF FrameOK, Counts, Decrements
<1>10. ~Making(g.todo)
  BY <1>4, <1>8, <1>9, FirstStages
<1>11. StackOK(<<g>> \o Tail(s)) /\ \A e : Owned(s, e) => Owned(<<g>> \o Tail(s), e)
  <2> HIDE DEF g
  <2> QED
    BY <1>2, <1>4, <1>8, <1>9, <1>10, StackGoesOn
<1>12. stack' = [stack EXCEPT ![t] = <<g>> \o Tail(s)] /\ owner' = owner
  BY <1>1 DEF GoOn, Copy, s, f, todo, rest
<1> QED
  BY <1>11, <1>12, SameOwners DEF s

(* ... and closes what is in it, one after the other.                      *)
LEMMA Eaches ==
    ASSUME Typed, Stacks, Owners, NEW t \in Threads, Each(t)
    PROVE  Stacks' /\ Owners'
<1> DEFINE s == stack[t]
           f == Innermost(t)
<1>1. PICK x \in Rest(t) :
        LET next == [f EXCEPT !.rest = Rest(t) \ {x}]
        IN  IF status[x] = "expired" THEN GoOn(t, next)
            ELSE stack' = [stack EXCEPT ![t] =
                               <<Frame(x, Body(Kind[x]))>> \o (<<next>> \o Tail(s))]
  BY DEF Each
<1>2. At(t, "each") /\ owner' = owner
  BY DEF Each
<1>3. /\ StackOK(s) /\ s # << >> /\ FrameOK(f) /\ f = s[1] /\ f.todo[1] = "each"
      /\ Rest(t) = f.rest
  BY <1>2, Staged DEF Innermost
<1>4. Inside(f.todo)
  BY <1>3, FirstStages DEF InsideStages
<1>5. x \in Entities /\ Parent[x] = f.e /\ f \in Frames
  BY <1>3 DEF FrameOK, Frames
<1> DEFINE g == [f EXCEPT !.rest = Rest(t) \ {x}]
           p == <<g>> \o Tail(s)
<1> HIDE DEF s, f
<1>6. g \in Frames /\ g.todo = f.todo /\ g.rest = f.rest \ {x} /\ g.e = f.e
  BY <1>3, <1>5 DEF Frames
<1>7. FrameOK(g)
  BY <1>3, <1>4, <1>6 DEF FrameOK
<1> HIDE DEF g
<1>8. p[1] = g /\ p # << >>
  <2>1. Len(p) = Len(s) /\ p[1] = g /\ Len(s) \in Nat \ {0} /\ p \in Seq(Frames)
    BY <1>3, <1>6, TopReplaced, StackFirst
  <2> HIDE DEF p
  <2> QED
    BY <2>1
<1>9. StackOK(p) /\ \A e : Owned(s, e) => Owned(p, e)
  BY <1>3, <1>6, <1>7, StackGoesOn
<1> HIDE DEF p
<1>10. CASE status[x] = "expired"
  <2>1. stack' = [stack EXCEPT ![t] = p]
    BY <1>1, <1>10 DEF GoOn, p, g, s
  <2> QED
    BY <1>2, <1>9, <2>1, SameOwners DEF s
<1>11. CASE status[x] # "expired"
  <2> DEFINE h == Frame(x, Body(Kind[x]))
  <2>1. FrameOK(h) /\ Before(h) /\ h.e = x
    BY <1>5, NewFrames
  <2>2. stack' = [stack EXCEPT ![t] = <<h>> \o p]
    BY <1>1, <1>11 DEF p, g, s
  <2> HIDE DEF h
  <2>3. StackOK(<<h>> \o p) /\ \A e : Owned(p, e) => Owned(<<h>> \o p, e)
    BY <1>3, <1>4, <1>5, <1>6, <1>8, <1>9, <2>1, StackCalls
  <2> QED
    BY <1>2, <1>9, <2>2, <2>3, SameOwners DEF s
<1> QED
  BY <1>10, <1>11

(* An exception in init() starts the destructor in place of init().        *)
LEMMA Destroys ==
    ASSUME Typed, Stacks, Owners, NEW t \in Threads, NEW stage \in MakingStages,
           At(t, stage), Destroy(t)
    PROVE  Stacks' /\ Owners'
<1>1. Making(stack[t][1].todo) /\ Self(t) \in Entities
  BY Staged, FirstStages
<1>2. owner' = owner
  BY DEF Destroy
<1>3. CASE status[Self(t)] = "closed"
  <2>1. stack' = [stack EXCEPT ![t] = << >>]
    BY <1>3 DEF Destroy
  <2> QED
    BY <1>1, <1>2, <2>1, Begins, StackBegins
<1>4. CASE status[Self(t)] # "closed"
  <2> DEFINE h == Frame(Self(t), DestructorBody(Kind[Self(t)]))
  <2>1. stack' = [stack EXCEPT ![t] = <<h>>]
    BY <1>4 DEF Destroy
  <2>2. FrameOK(h)
    BY <1>1, NewFrames
  <2> HIDE DEF h
  <2>3. StackOK(<<h>>)
    BY <2>2, StackBegins
  <2> QED
    BY <1>1, <1>2, <2>1, <2>3, Begins
<1> QED
  BY <1>3, <1>4

(* A call of the application starts the first function of a thread.        *)
LEMMA Called ==
    ASSUME Typed, Stacks, Owners, NEW t \in Threads, ~Busy(t), NEW h, FrameOK(h),
           stack' = [stack EXCEPT ![t] = <<h>>], owner' = owner
    PROVE  Stacks' /\ Owners'
<1>1. stack[t] = << >> /\ StackOK(<<h>>)
  BY StackBegins DEF Busy
<1> QED
  BY <1>1, Begins

(* The steps that do no more to a stack than go on, or raise.              *)
Simple(t) ==
    \/ Check(t) \/ EachDone(t) \/ HasDependents(t) \/ Listener(t) \/ Unregister(t)
    \/ ReadDecr(t) \/ Decr(t) \/ HandleParent(t) \/ HandleTopic(t) \/ CreateC(t)
    \/ ReadIncr(t) \/ Incr(t) \/ Register(t)

(* Each of them goes on from a stage that is not the last, or raises.      *)
LEMMA SimpleSteps ==
    ASSUME NEW t, Simple(t)
    PROVE  \/ Raise(t)
           \/ /\ Advance(t) /\ owner' = owner
              /\ \E stage \in Stages \ Last3 : At(t, stage)
<1> DEFINE Goal == \/ Raise(t)
                   \/ /\ Advance(t) /\ owner' = owner
                      /\ \E stage \in Stages \ Last3 : At(t, stage)
<1>0. ASSUME NEW stage \in {"check", "each", "dependents", "listener", "unregister",
                            "readDecr", "decr", "handleParent", "handleTopic", "create",
                            "readIncr", "incr", "register"}
      PROVE  stage \in Stages \ Last3
  BY DEF Stages, Last3
<1>1. CASE Check(t)
  BY <1>0, <1>1 DEF Check
<1>2. CASE EachDone(t)
  BY <1>0, <1>2 DEF EachDone
<1>3. CASE HasDependents(t)
  BY <1>0, <1>3 DEF HasDependents
<1>4. CASE Listener(t)
  BY <1>0, <1>4 DEF Listener
<1>5. CASE Unregister(t)
  BY <1>0, <1>5 DEF Unregister
<1>6. CASE ReadDecr(t)
  BY <1>0, <1>6 DEF ReadDecr
<1>7. CASE Decr(t)
  BY <1>0, <1>7 DEF Decr
<1>8. CASE HandleParent(t)
  BY <1>0, <1>8 DEF HandleParent, HandleOf
<1>9. CASE HandleTopic(t)
  BY <1>0, <1>9 DEF HandleTopic, HandleOf
<1>10. CASE CreateC(t)
  BY <1>0, <1>10 DEF CreateC
<1>11. CASE ReadIncr(t)
  BY <1>0, <1>11 DEF ReadIncr
<1>12. CASE Incr(t)
  BY <1>0, <1>12 DEF Incr
<1>13. CASE Register(t)
  BY <1>0, <1>13 DEF Register
<1> QED
  BY <1>1, <1>2, <1>3, <1>4, <1>5, <1>6, <1>7, <1>8, <1>9, <1>10, <1>11, <1>12, <1>13
     DEF Simple

(* Every step leaves the stacks as they should be, and each mutex with a   *)
(* thread that is inside the close() of its entity.                        *)
LEMMA NextKeepsStacks ==
    ASSUME Typed, Stacks, Owners, Contains, Next
    PROVE  Stacks' /\ Owners'
<1>1. PICK t \in Threads : \/ Step(t)
                           \/ \E e \in Entities : Close(t, e) \/ Create(t, e) \/ Drop(t, e)
  BY DEF Next
<1>2. CASE Simple(t)
  <2>1. CASE Raise(t)
    BY <2>1, Raises
  <2>2. ASSUME Advance(t), owner' = owner, NEW stage \in Stages \ Last3, At(t, stage)
        PROVE  Stacks' /\ Owners'
    BY <2>2, Advances
  <2> QED
    BY <1>2, <2>1, <2>2, SimpleSteps
<1>3. CASE Lock(t)
  BY <1>3, Locks, Raises DEF Lock
<1>4. CASE Copy(t)
  BY <1>4, Copies
<1>5. CASE Each(t)
  BY <1>5, Eaches
<1>6. CASE Delete(t) \/ CloseObject(t)
  BY <1>6, Finishes DEF Delete, CloseObject
<1>7. CASE AutoEnable(t)
  <2>1. At(t, "autoEnable") /\ "autoEnable" \in MakingStages \cap (Stages \ Last3)
    BY <1>7 DEF AutoEnable, MakingStages, Stages, Last3
  <2>2. Destroy(t) \/ (Advance(t) /\ owner' = owner)
    BY <1>7 DEF AutoEnable
  <2> QED
    BY <2>1, <2>2, Destroys, Advances
<1>8. CASE Enable(t)
  <2>1. At(t, "enable") /\ "enable" \in MakingStages
    BY <1>8 DEF Enable, MakingStages
  <2>2. Making(stack[t][1].todo)
    BY <2>1, Staged, FirstStages
  <2>3. Destroy(t) \/ (stack' = [stack EXCEPT ![t] = << >>] /\ owner' = owner)
    BY <1>8 DEF Enable
  <2> QED
    BY <2>1, <2>2, <2>3, Destroys, Begins, StackBegins
<1>9. ASSUME NEW e \in Entities, Close(t, e) \/ Create(t, e) \/ Drop(t, e)
      PROVE  Stacks' /\ Owners'
  <2>1. CASE Close(t, e)
    <3>1. ~Busy(t) /\ stack' = [stack EXCEPT ![t] = <<Frame(e, Body(Kind[e]))>>] /\ owner' = owner
      BY <2>1 DEF Close
    <3> QED
      BY <3>1, NewFrames, Called
  <2>2. CASE Create(t, e)
    <3>1. /\ ~Busy(t) /\ owner' = owner /\ e \in MayCreate[t]
          /\ stack' = [stack EXCEPT ![t] = <<Frame(e, ConstructorBody(Kind[e]))>>]
      BY <2>2 DEF Create
    <3>2. e \in Endpoints
      BY <3>1, CallsAssumption
    <3> QED
      BY <3>1, <3>2, NewFrames, Called
  <2>3. CASE Drop(t, e)
    <3>1. /\ ~Busy(t) /\ owner' = owner
          /\ stack' = [stack EXCEPT ![t] = <<Frame(e, DestructorBody(Kind[e]))>>]
      BY <2>3 DEF Drop
    <3> QED
      BY <3>1, NewFrames, Called
  <2> QED
    BY <1>9, <2>1, <2>2, <2>3
<1> QED
  BY <1>1, <1>2, <1>3, <1>4, <1>5, <1>6, <1>7, <1>8, <1>9 DEF Step, Simple

-----------------------------------------------------------------------------
(* Types.                                                                  *)
(* The initial state.                                                      *)
LEMMA TypedInit ==
    ASSUME Init
    PROVE  Typed /\ Stacks /\ Owners /\ Contains
<1> USE DEF Init
<1>1. Typed
  <2>1. Unborn \subseteq Entities /\ Dependents \subseteq Entities
    BY CallsAssumption, Ranks DEF Endpoints
  <2>2. seen \in [Threads -> 0 .. MaxDependents]
    BY MaxAssumption
  <2>3. ASSUME NEW d \in Entities
        PROVE  Cardinality({x \in Dependents \ Unborn : TopicOf[x] = d}) \in 0 .. MaxDependents
    <3> DEFINE all == {x \in Dependents : TopicOf[x] = d}
               some == {x \in Dependents \ Unborn : TopicOf[x] = d}
    <3>1. IsFiniteSet(all)
      BY FS_Subset, TreeAssumption DEF Dependents
    <3>2. IsFiniteSet(some) /\ Cardinality(some) <= Cardinality(all)
      BY <3>1, FS_Subset
    <3>3. Cardinality(some) \in Nat /\ Cardinality(all) \in 0 .. MaxDependents
      BY <3>2, FS_CardinalityType, MaxAssumption
    <3> HIDE DEF all, some
    <3>4. Cardinality(some) \in 0 .. MaxDependents
      BY <3>2, <3>3, MaxAssumption
    <3> QED
      BY <3>4 DEF some
  <2>4. nrDependents \in [Entities -> 0 .. MaxDependents]
    BY <2>3
  <2> QED
    BY <2>1, <2>2, <2>4 DEF Typed
<1>2. Stacks
  BY StackBegins DEF Stacks
<1>3. Owners
  BY DEF Owners
<1>4. Contains
  BY DEF Contains
<1> QED
  BY <1>1, <1>2, <1>3, <1>4

(* An exception.                                                           *)
LEMMA TypedRaise ==
    ASSUME Typed, NEW t, Raise(t)
    PROVE  Typed'
  BY DEF Typed, Raise

(* The destructor after an exception in init().                            *)
LEMMA TypedDestroy ==
    ASSUME Typed, NEW t, Self(t) \in Entities, Destroy(t), enabled' \subseteq Entities
    PROVE  Typed'
  BY DEF Typed, Destroy

(* The last stage of close().                                              *)
LEMMA TypedFinish ==
    ASSUME Typed, NEW t, Self(t) \in Entities, Finish(t), alive' \subseteq Entities
    PROVE  Typed'
<1>1. status' \in [Entities -> {"unborn", "open", "expired", "closed"}]
  BY DEF Typed, Finish
<1>2. owner' \in [Entities -> Threads \cup {Nobody}]
  BY DEF Typed, Finish
<1> QED
  BY <1>1, <1>2 DEF Typed, Finish

(* nrDependents wraps around.                                              *)
LEMMA Wraps ==
    ASSUME NEW n \in 0 .. MaxDependents
    PROVE  Less(n) \in 0 .. MaxDependents /\ More(n) \in 0 .. MaxDependents
  BY MaxAssumption DEF Less, More

(* Every step keeps the types, and the sets of an entity with children.    *)
LEMMA NextKeepsTypes ==
    ASSUME Typed, Stacks, Contains, Next
    PROVE  Typed' /\ Contains'
<1>1. PICK t \in Threads : \/ Step(t)
                           \/ \E e \in Entities : Close(t, e) \/ Create(t, e) \/ Drop(t, e)
  BY DEF Next
<1>2. CASE \/ Check(t) \/ Copy(t) \/ Each(t) \/ EachDone(t) \/ HasDependents(t) \/ Listener(t)
           \/ HandleParent(t) \/ HandleTopic(t) \/ AutoEnable(t)
           \/ \E e \in Entities : Close(t, e)
  <2>1. Raise(t) => Typed' /\ Contains'
    BY TypedRaise DEF Raise, Contains
  <2>2. Destroy(t) /\ At(t, "autoEnable") /\ UNCHANGED enabled => Typed' /\ Contains'
    <3>1. At(t, "autoEnable") => Self(t) \in Entities
      BY Staged
    <3>2. UNCHANGED enabled => enabled' \subseteq Entities
      BY DEF Typed
    <3>3. Destroy(t) => (Contains => Contains')
      BY DEF Destroy, Contains
    <3> QED
      BY <3>1, <3>2, <3>3, TypedDestroy
  <2>3. UNCHANGED <<seen, owner, status, born, enabled, members, nrDependents, holds, alive>> =>
            Typed' /\ Contains'
    BY DEF Typed, Contains
  <2> QED
    BY <1>2, <2>1, <2>2, <2>3
       DEF Check, Copy, Each, EachDone, HasDependents, Listener, HandleParent, HandleTopic,
           HandleOf, AutoEnable, Close
<1>3. CASE Lock(t)
  <2>1. CASE Raise(t)
    BY <2>1, TypedRaise DEF Raise, Contains
  <2>2. CASE ~Raise(t)
    <3>1. /\ Self(t) \in Entities /\ owner' = [owner EXCEPT ![Self(t)] = t]
          /\ UNCHANGED <<seen, status, born, enabled, members, nrDependents, holds, alive>>
      BY <1>3, <2>2, Staged DEF Lock
    <3> QED
      BY <3>1 DEF Typed, Contains
  <2> QED
    BY <2>1, <2>2
<1>4. CASE Unregister(t)
  <2>1. /\ members' = [e \in Entities |-> members[e] \ {Self(t)}]
        /\ UNCHANGED <<seen, owner, status, born, enabled, nrDependents, holds, alive>>
    BY <1>4 DEF Unregister
  <2> QED
    BY <2>1 DEF Typed, Contains
<1>5. CASE ReadDecr(t) \/ ReadIncr(t)
  <2>1. CASE Raise(t)
    BY <2>1, TypedRaise DEF Raise, Contains
  <2>2. CASE ~Raise(t)
    <3>1. /\ At(t, "readDecr") \/ At(t, "readIncr")
          /\ seen' = [seen EXCEPT ![t] = nrDependents[TopicOf[Self(t)]]]
          /\ UNCHANGED <<owner, status, born, enabled, members, nrDependents, holds, alive>>
      BY <1>5, <2>2 DEF ReadDecr, ReadIncr
    <3>2. Self(t) \in Dependents
      BY <3>1, Staged, FirstStages, Ranks DEF Decrements, MakingStages
    <3>3. nrDependents[TopicOf[Self(t)]] \in 0 .. MaxDependents
      BY <3>2, Ranks DEF Typed
    <3> QED
      BY <3>1, <3>3 DEF Typed, Contains
  <2> QED
    BY <2>1, <2>2
<1>6. CASE Decr(t) \/ Incr(t)
  <2>1. At(t, "decr") \/ At(t, "incr")
    BY <1>6 DEF Decr, Incr
  <2>2. Self(t) \in Dependents
    BY <2>1, Staged, FirstStages, Ranks DEF Decrements, MakingStages
  <2>3. /\ seen' = [seen EXCEPT ![t] = 0]
        /\ holds' = holds \ {Self(t)} \/ holds' = holds \cup {Self(t)}
        /\ UNCHANGED <<owner, status, born, enabled, members, alive>>
    BY <1>6 DEF Decr, Incr
  <2>4. \E n \in 0 .. MaxDependents :
            nrDependents' = [nrDependents EXCEPT ![TopicOf[Self(t)]] = n]
    BY <1>6, Wraps DEF Decr, Incr, Typed
  <2>5. nrDependents' \in [Entities -> 0 .. MaxDependents]
    BY <2>4 DEF Typed
  <2>6. seen' \in [Threads -> 0 .. MaxDependents]
    BY <2>3, MaxAssumption DEF Typed
  <2>7. holds' \subseteq Dependents
    BY <2>2, <2>3 DEF Typed
  <2> QED
    BY <2>3, <2>5, <2>6, <2>7 DEF Typed, Contains
<1>7. CASE Delete(t) \/ CloseObject(t)
  <2>1. Self(t) \in Entities
    BY <1>7, Staged DEF Delete, CloseObject
  <2>2. Finish(t) /\ alive' \subseteq alive
    BY <1>7 DEF Delete, CloseObject
  <2>3. Typed'
    BY <2>1, <2>2, TypedFinish DEF Typed
  <2> QED
    BY <2>2, <2>3 DEF Finish, Contains
<1>8. CASE CreateC(t)
  <2>1. CASE Raise(t)
    BY <2>1, TypedRaise DEF Raise, Contains
  <2>2. CASE ~Raise(t)
    <3>1. /\ Self(t) \in Entities /\ alive' = alive \cup {Self(t)}
          /\ UNCHANGED <<seen, owner, status, born, enabled, members, nrDependents, holds>>
      BY <1>8, <2>2, Staged DEF CreateC
    <3> QED
      BY <3>1 DEF Typed, Contains
  <2> QED
    BY <2>1, <2>2
<1>9. CASE Register(t)
  <2>1. /\ At(t, "register")
        /\ members' = [members EXCEPT ![Parent[Self(t)]] =
                                  members[Parent[Self(t)]] \cup {Self(t)}]
        /\ UNCHANGED <<seen, owner, status, born, enabled, nrDependents, holds, alive>>
    BY <1>9 DEF Register
  <2>2. Self(t) \in Entities
    BY <2>1, Staged
  <2>3. \A e \in Entities : members'[e] =
            IF e = Parent[Self(t)] THEN members[e] \cup {Self(t)} ELSE members[e]
    BY <2>1 DEF Typed
  <2>4. members' \in [Entities -> SUBSET Entities]
    BY <2>1, <2>2 DEF Typed
  <2>5. Contains'
    BY <2>3 DEF Contains
  <2> QED
    BY <2>1, <2>4, <2>5 DEF Typed
<1>10. CASE Enable(t)
  <2>1. Self(t) \in Entities /\ enabled' = enabled \cup {Self(t)}
    BY <1>10, Staged DEF Enable
  <2>2. enabled' \subseteq Entities
    BY <2>1 DEF Typed
  <2>3. CASE Destroy(t)
    BY <2>1, <2>2, <2>3, TypedDestroy DEF Destroy, Contains
  <2>4. CASE ~Destroy(t)
    <3>1. /\ born' = born \cup {Self(t)}
          /\ UNCHANGED <<seen, owner, status, members, nrDependents, holds, alive>>
      BY <1>10, <2>4 DEF Enable
    <3> QED
      BY <2>1, <2>2, <3>1 DEF Typed, Contains
  <2> QED
    BY <2>3, <2>4
<1>11. ASSUME NEW e \in Entities, Create(t, e) \/ Drop(t, e)
       PROVE  Typed' /\ Contains'
  <2>1. /\ status' = [status EXCEPT ![e] = "open"] \/ status' = [status EXCEPT ![e] = "expired"]
        /\ UNCHANGED <<seen, owner, born, enabled, members, nrDependents, holds, alive>>
    BY <1>11 DEF Create, Drop
  <2> QED
    BY <2>1 DEF Typed, Contains
<1> QED
  BY <1>1, <1>2, <1>3, <1>4, <1>5, <1>6, <1>7, <1>8, <1>9, <1>10, <1>11 DEF Step

-----------------------------------------------------------------------------
(* The invariant holds at first.                                           *)
LEMMA TreeInvInit == Init => TreeInv
  BY TypedInit DEF TreeInv

(* Every step keeps the invariant.                                         *)
LEMMA TreeInvNext == TreeInv /\ [Next]_vars => TreeInv'
<1>1. ASSUME TreeInv, Next
      PROVE  TreeInv'
  <2>1. Stacks' /\ Owners'
    BY <1>1, NextKeepsStacks DEF TreeInv
  <2>2. Typed' /\ Contains'
    BY <1>1, NextKeepsTypes DEF TreeInv
  <2> QED
    BY <2>1, <2>2 DEF TreeInv
<1>2. ASSUME TreeInv, UNCHANGED vars
      PROVE  TreeInv'
  BY <1>2 DEF TreeInv, Typed, Stacks, Owners, Contains, vars
<1> QED
  BY <1>1, <1>2

(* The inductive invariant: close() and the constructors of EntityTree     *)
(* keep the stacks of functions in the order of the tree, and each mutex   *)
(* with a thread that is inside the close() of its entity.                 *)
THEOREM TreeInvariant == Spec => []TreeInv
  BY TreeInvInit, TreeInvNext, PTL DEF Spec

(* Every variable has its type; and a thread has the mutex of an entity    *)
(* only while it is in a function of that entity, so that an exception     *)
(* that unwinds through several close() leaves none of them locked.        *)
THEOREM TreeTypeCorrect == Spec => []TypeOK
<1>1. ASSUME TreeInv
      PROVE  TypeOK
  <2>1. Typed /\ Stacks /\ Owners
    BY <1>1 DEF TreeInv
  <2>2. DOMAIN stack = Threads
    BY <2>1 DEF Stacks
  <2>3. ASSUME NEW t \in Threads, NEW i \in 1 .. Len(stack[t])
        PROVE  /\ stack[t][i].e \in Entities
               /\ stack[t][i].todo # << >>
               /\ \A j \in 1 .. Len(stack[t][i].todo) : stack[t][i].todo[j] \in Stages
               /\ stack[t][i].rest \subseteq Entities
    <3>1. FrameOK(stack[t][i])
      BY <2>1, <2>3 DEF Stacks, StackOK
    <3>2. stack[t][i].todo # << >> /\ stack[t][i].todo \in Seq(Stages)
      BY <3>1, FirstStages
    <3>3. stack[t][i].e \in Entities /\ stack[t][i].rest \subseteq Entities
      BY <3>1 DEF FrameOK, Frames
    <3> QED
      BY <3>2, <3>3, ElementOfSeq
  <2>4. \A e \in Entities : owner[e] # Nobody =>
            \E i \in 1 .. Len(stack[owner[e]]) : stack[owner[e]][i].e = e
    BY <2>1 DEF Owners, Owned
  <2> QED
    BY <2>1, <2>2, <2>3, <2>4 DEF TypeOK, Typed
<1> QED
  BY <1>1, TreeInvariant, PTL

(* The entity whose mutex a thread waits for.                              *)
Wanted(t) ==
    IF At(t, "lock") THEN Self(t)
    ELSE IF At(t, "handleTopic") THEN TopicOf[Self(t)]
    ELSE Parent[Self(t)]

(* A thread that waits is at "lock", or in a constructor without a mutex.  *)
LEMMA WaitsForWanted ==
    ASSUME TreeInv, NEW t \in Threads, WaitsFor(t) \in Threads
    PROVE  /\ Busy(t) /\ Wanted(t) \in Entities /\ WaitsFor(t) = owner[Wanted(t)]
           /\ At(t, "lock") \/ Making(stack[t][1].todo)
<1> USE DEF TreeInv
<1>0. Nobody \notin Threads
  BY TreeAssumption
<1>1. \A a, b : At(t, a) /\ At(t, b) => a = b
  BY DEF At
<1>2. CASE At(t, "lock")
  <2>1. WaitsFor(t) = owner[Self(t)]
    BY <1>1, <1>2 DEF WaitsFor
  <2> QED
    BY <1>2, <2>1, Staged DEF Wanted
<1>3. CASE At(t, "handleParent") \/ At(t, "autoEnable") \/ At(t, "handleTopic")
  <2>1. Making(stack[t][1].todo) /\ Self(t) \in Endpoints /\ Busy(t)
    BY <1>3, Staged, FirstStages DEF MakingStages
  <2>2. CASE At(t, "handleTopic")
    <3>1. WaitsFor(t) = owner[TopicOf[Self(t)]] /\ Wanted(t) = TopicOf[Self(t)]
      BY <1>1, <2>2 DEF WaitsFor, Wanted
    <3> QED
      BY <2>1, <3>1, Ranks
  <2>3. CASE At(t, "handleParent") \/ At(t, "autoEnable")
    <3>1. WaitsFor(t) = owner[Parent[Self(t)]] /\ Wanted(t) = Parent[Self(t)]
      BY <1>1, <2>3 DEF WaitsFor, Wanted
    <3> QED
      BY <2>1, <3>1, Ranks
  <2> QED
    BY <1>3, <2>2, <2>3
<1>4. CASE ~(\E a \in {"lock", "handleParent", "autoEnable", "handleTopic"} : At(t, a))
  BY <1>0, <1>4 DEF WaitsFor, NeedsNobody
<1> QED
  BY <1>2, <1>3, <1>4

(* A thread with a mutex waits only for that of an entity further down.    *)
LEMMA WaitsDownTheTree ==
    ASSUME TreeInv, NEW t \in Threads, NEW u \in Threads, WaitsFor(t) = u,
           WaitsFor(u) \in Threads
    PROVE  Rank(Wanted(t)) < Rank(Wanted(u))
<1>1. Wanted(t) \in Entities /\ owner[Wanted(t)] = u
  BY WaitsForWanted
<1>2. Owned(stack[u], Wanted(t))
  BY <1>1, TreeAssumption DEF TreeInv, Owners
<1>3. PICK i \in 1 .. Len(stack[u]) : stack[u][i].e = Wanted(t) /\ Inside(stack[u][i].todo)
  BY <1>2 DEF Owned
<1>4. At(u, "lock")
  <2>1. Stacks
    BY DEF TreeInv
  <2>2. ~Making(stack[u][1].todo)
    BY <1>2, <2>1, HasNone
  <2> QED
    BY <2>2, WaitsForWanted
<1>5. /\ StackOK(stack[u]) /\ FrameOK(stack[u][1]) /\ stack[u] # << >>
      /\ stack[u][1].todo[1] = "lock" /\ Self(u) = stack[u][1].e
  BY <1>4, Staged DEF TreeInv
<1>6. ~Inside(stack[u][1].todo)
  BY <1>5, FirstStages
<1>7. Len(stack[u]) \in Nat \ {0}
  BY <1>5, StackFirst
<1>8. 1 \in 1 .. Len(stack[u]) /\ 1 < i
  BY <1>3, <1>6, <1>7
<1>9. Rank(stack[u][i].e) < Rank(stack[u][1].e)
  BY <1>3, <1>5, <1>8 DEF StackOK
<1> QED
  BY <1>3, <1>4, <1>5, <1>9 DEF Wanted

(* No threads wait for one another's mutexes in a circle, whichever of     *)
(* them close, create and drop which entities: close() takes the mutex of  *)
(* an entity while it has those of the entities above it and no other, and *)
(* a constructor takes those of the parent and of the topic with none.     *)
THEOREM NoThreadsWaitInACircle == Spec => []NoDeadlock
<1>1. ASSUME TreeInv, NEW T \in SUBSET Threads, T # {}, \A t \in T : WaitsFor(t) \in T
      PROVE  FALSE
  <2>1. PICK u0 \in T : TRUE
    BY <1>1
  <2> DEFINE u1 == WaitsFor(u0)
             u2 == WaitsFor(u1)
             u3 == WaitsFor(u2)
             u4 == WaitsFor(u3)
             rank(t) == Rank(Wanted(t))
  <2>2. u0 \in T /\ u1 \in T /\ u2 \in T /\ u3 \in T /\ u4 \in T
    BY <1>1, <2>1
  <2>3. ASSUME NEW t \in T
        PROVE  rank(t) \in 0 .. 3 /\ rank(t) < rank(WaitsFor(t))
    <3>1. t \in Threads /\ WaitsFor(t) \in Threads /\ WaitsFor(WaitsFor(t)) \in Threads
      BY <1>1
    <3>2. Wanted(t) \in Entities
      BY <1>1, <3>1, WaitsForWanted
    <3>3. rank(t) < rank(WaitsFor(t))
      BY <1>1, <3>1, WaitsDownTheTree
    <3> QED
      BY <3>2, <3>3, Ranks
  <2> HIDE DEF rank
  <2>4. rank(u0) < rank(u1) /\ rank(u1) < rank(u2) /\ rank(u2) < rank(u3) /\ rank(u3) < rank(u4)
    BY <2>2, <2>3
  <2>5. /\ rank(u0) \in 0 .. 3 /\ rank(u1) \in 0 .. 3 /\ rank(u2) \in 0 .. 3
        /\ rank(u3) \in 0 .. 3 /\ rank(u4) \in 0 .. 3
    BY <2>2, <2>3
  <2> HIDE DEF u1, u2, u3, u4
  <2> QED
    BY <2>4, <2>5
<1>2. TreeInv => NoDeadlock
  BY <1>1 DEF NoDeadlock
<1> QED
  BY <1>2, TreeInvariant, PTL

-----------------------------------------------------------------------------
(***************************************************************************)
(* What is used outlives its users.                                        *)
(***************************************************************************)

(* The functions thread t is in.                                           *)
Funs(t) == {stack[t][i] : i \in 1 .. Len(stack[t])}

Has(todo, stage) == \E j \in 1 .. Len(todo) : todo[j] = stage

(* What can be left of close() with the mutex, and of a constructor.       *)
ClosingOf(k) ==
    CASE k = "participant" ->
             {<<"publishers", "subscribers", "cfts", "topics", "listener", "unregister",
                "delete">>,
              <<"subscribers", "cfts", "topics", "listener", "unregister", "delete">>,
              <<"cfts", "topics", "listener", "unregister", "delete">>,
              <<"topics", "listener", "unregister", "delete">>,
              <<"listener", "unregister", "delete">>, <<"unregister", "delete">>, <<"delete">>}
      [] k \in {"publisher", "subscriber"} ->
             {<<"endpoints", "listener", "unregister", "delete">>,
              <<"listener", "unregister", "delete">>, <<"unregister", "delete">>, <<"delete">>}
      [] k = "topic" ->
             {<<"dependents", "listener", "unregister", "delete">>,
              <<"listener", "unregister", "delete">>, <<"unregister", "delete">>, <<"delete">>}
      [] k = "cft" ->
             {<<"readDecr", "decr", "unregister", "closeObject">>,
              <<"decr", "unregister", "closeObject">>, <<"unregister", "closeObject">>,
              <<"closeObject">>}
      [] k = "reader" ->
             {<<"listener", "unregister", "readDecr", "decr", "queries", "delete">>,
              <<"unregister", "readDecr", "decr", "queries", "delete">>,
              <<"readDecr", "decr", "queries", "delete">>, <<"decr", "queries", "delete">>,
              <<"queries", "delete">>, <<"delete">>}
      [] k = "writer" ->
             {<<"listener", "readDecr", "decr", "unregister", "delete">>,
              <<"readDecr", "decr", "unregister", "delete">>,
              <<"decr", "unregister", "delete">>, <<"unregister", "delete">>, <<"delete">>}
      [] k = "query" -> {<<"unregister", "delete">>, <<"delete">>}

MakingOf(k) ==
    IF k = "writer"
    THEN {<<"handleParent", "handleTopic", "create", "readIncr", "incr", "register",
            "autoEnable", "enable">>,
          <<"handleTopic", "create", "readIncr", "incr", "register", "autoEnable", "enable">>,
          <<"create", "readIncr", "incr", "register", "autoEnable", "enable">>,
          <<"readIncr", "incr", "register", "autoEnable", "enable">>,
          <<"incr", "register", "autoEnable", "enable">>,
          <<"register", "autoEnable", "enable">>, <<"autoEnable", "enable">>, <<"enable">>}
    ELSE {<<"handleParent", "handleTopic", "create", "readIncr", "incr", "register", "enable">>,
          <<"handleTopic", "create", "readIncr", "incr", "register", "enable">>,
          <<"create", "readIncr", "incr", "register", "enable">>,
          <<"readIncr", "incr", "register", "enable">>,
          <<"incr", "register", "enable">>, <<"register", "enable">>, <<"enable">>}

CopyStages == {"publishers", "subscribers", "cfts", "topics", "endpoints", "queries"}

(* A loop over a set takes the place of the stage that copies it.          *)
Shaped(k, todo) ==
    \E p \in ClosingOf(k) :
        \/ todo = p
        \/ p[1] \in CopyStages /\ todo[1] = "each" /\ Tail(todo) = Tail(p)

(* The stage of the container in which it closes what is of kind k.        *)
StageOf(k) ==
    CASE k = "publisher" -> "publishers"
      [] k = "subscriber" -> "subscribers"
      [] k = "cft" -> "cfts"
      [] k = "topic" -> "topics"
      [] k \in {"reader", "writer"} -> "endpoints"
      [] k = "query" -> "queries"

Grown(x) == x \in born \/ status[x] = "expired"

(* close() of x has taken x out of its parent.                             *)
Parting(x) ==
    \E t \in Threads : \E f \in Funs(t) :
        f.e = x /\ Inside(f.todo) /\ ~Has(f.todo, "unregister")

Past(x) == status[x] \in {"closed", "expired"} \/ Parting(x)

QueriesOf(x) == {q \in Entities : Kind[q] = "query" /\ Parent[q] = x}

(* No close() has got anywhere with x.                                     *)
Intact(x) ==
    /\ x \in Dependents => x \in holds
    /\ Parent[x] # Nobody => x \in members[Parent[x]] \/ status[x] = "expired"
    /\ \A q \in QueriesOf(x) : status[q] # "closed"

Holders(d) == {x \in holds : TopicOf[x] = d}
Counted(d) ==
    {x \in Dependents : TopicOf[x] = d /\ (x \in holds \/ Grown(x) \/ status[x] = "closed")}

ShapeOK(f) ==
    /\ Inside(f.todo) => Shaped(Kind[f.e], f.todo)
    /\ Making(f.todo) => f.todo \in MakingOf(Kind[f.e])
    /\ f.rest # {} => f.todo[1] = "each"

LockOK(t, f) == Inside(f.todo) => owner[f.e] = t /\ status[f.e] # "closed"

GrownOK(f) ==
    /\ ~Making(f.todo) => Grown(f.e)
    /\ \A x \in f.rest : Grown(x)

MakeOK(t, f) ==
    Making(f.todo) =>
        /\ f.e \in Unborn /\ f.e \notin born /\ status[f.e] = "open"
        /\ Has(f.todo, "handleParent") \/ status[Parent[f.e]] # "closed"
        /\ Has(f.todo, "handleTopic") \/ status[TopicOf[f.e]] # "closed"
        /\ Has(f.todo, "incr") <=> f.e \notin holds
        /\ Has(f.todo, "register") \/ f.e \in members[Parent[f.e]]
        /\ \A u \in Threads : \A g \in Funs(u) : g.e = f.e /\ Making(g.todo) => u = t

CloseOK(f) ==
    Inside(f.todo) =>
        /\ Has(f.todo, "unregister") /\ Parent[f.e] # Nobody =>
              f.e \in members[Parent[f.e]] \/ status[f.e] = "expired"
        /\ Has(f.todo, "decr") => f.e \in holds
        /\ Has(f.todo, "queries") => \A q \in QueriesOf(f.e) : status[q] # "closed"
        /\ \A q \in f.rest : Kind[q] = "query" => status[q] # "closed"

QueryOK(t, f) ==
    Kind[f.e] = "query" =>
        /\ status[f.e] # "closed"
        /\ Before(f) /\ f.todo[1] = "unregister" => status[f.e] = "expired"
        /\ \/ status[f.e] = "expired"
           \/ \E h \in Funs(t) : /\ h.e = Parent[f.e] /\ Inside(h.todo) /\ h.todo[1] = "each"
                               /\ f.e \notin h.rest

KidsOK(t, f) ==
    Inside(f.todo) =>
        \A x \in born : Parent[x] = f.e =>
            \/ Past(x) \/ Has(f.todo, StageOf(Kind[x])) \/ x \in f.rest
            \/ \E h \in Funs(t) : h.e = x

CountOK(t, f) ==
    f.todo[1] \in {"decr", "incr"} =>
        /\ Cardinality(Holders(TopicOf[f.e])) <= seen[t]
        /\ seen[t] <= Cardinality(Counted(TopicOf[f.e]))

TopicOK(f) ==
    Kind[f.e] = "topic" /\ Inside(f.todo) /\ ~Has(f.todo, "dependents") => Holders(f.e) = {}

DropOK(t, f) ==
    status[f.e] = "expired" => \A u \in Threads : \A g \in Funs(u) : g.e = f.e => u = t

FunctionOK(t, f) ==
    /\ ShapeOK(f) /\ LockOK(t, f) /\ GrownOK(f) /\ MakeOK(t, f) /\ CloseOK(f)
    /\ QueryOK(t, f) /\ KidsOK(t, f) /\ CountOK(t, f) /\ TopicOK(f) /\ DropOK(t, f)

Known ==
    /\ \A x \in born \cup holds : status[x] # "unborn"
    /\ \A e \in Entities : \A x \in members[e] :
          Grown(x) \/ \E t \in Threads : \E f \in Funs(t) :
                          f.e = x /\ Making(f.todo) /\ ~Has(f.todo, "register")

Fresh ==
    \A x \in Entities :
        /\ owner[x] = Nobody
        /\ \/ x \in born /\ status[x] = "open"
           \/ status[x] # "closed" /\ \E t \in Threads : \E f \in Funs(t) : f.e = x /\ Before(f)
        => Intact(x)

KidsGone == \A x \in born : Parent[x] # Nobody /\ status[Parent[x]] = "closed" => Past(x)

UsersGone == \A d \in Entities : Kind[d] = "topic" /\ status[d] = "closed" => Holders(d) = {}

CountersOK ==
    \A d \in Entities : /\ Cardinality(Holders(d)) <= nrDependents[d]
                        /\ nrDependents[d] <= Cardinality(Counted(d))

UsedInv ==
    /\ \A t \in Threads : \A f \in Funs(t) : FunctionOK(t, f)
    /\ Known /\ Fresh /\ KidsGone /\ UsersGone /\ CountersOK

CreatesAlone ==
    \A t, u \in Threads : t # u => \A stage \in MakingStages : At(t, stage) =>
        /\ \A f \in Funs(u) : f.e \notin {Parent[Self(t)], TopicOf[Self(t)]}
        /\ stage = "incr" /\ (At(u, "incr") \/ At(u, "decr")) =>
              TopicOf[Self(u)] # TopicOf[Self(t)]
-----------------------------------------------------------------------------
(* Nothing of close() has had an effect yet.                               *)
Harmless(k, todo) ==
    /\ Has(todo, "unregister")
    /\ k \in {"reader", "writer", "cft"} => Has(todo, "decr")
    /\ k = "reader" => Has(todo, "queries")

(* The first stage goes, the others stay.                                  *)
LEMMA HasTail ==
    ASSUME NEW todo \in Seq(Stages), todo # << >>
    PROVE  /\ \A s : Has(Tail(todo), s) => Has(todo, s)
           /\ \A s : Has(todo, s) /\ todo[1] # s => Has(Tail(todo), s)
           /\ Has(todo, todo[1])
<1> DEFINE q == Tail(todo)
<1>1. /\ q \in Seq(Stages) /\ Len(q) = Len(todo) - 1
      /\ \A i \in 1 .. Len(q) : q[i] = todo[i + 1]
  BY HeadTailProperties
<1>2. Len(todo) \in Nat \ {0}
  BY EmptySeq, LenProperties
<1> HIDE DEF q
<1>3. ASSUME NEW s, Has(q, s)
      PROVE  Has(todo, s)
  <2>1. PICK i \in 1 .. Len(q) : q[i] = s
    BY <1>3 DEF Has
  <2>2. i + 1 \in 1 .. Len(todo) /\ todo[i + 1] = s
    BY <1>1, <1>2, <2>1
  <2> QED
    BY <2>2 DEF Has
<1>4. ASSUME NEW s, Has(todo, s), todo[1] # s
      PROVE  Has(q, s)
  <2>1. PICK i \in 1 .. Len(todo) : todo[i] = s
    BY <1>4 DEF Has
  <2>2. i # 1 /\ i - 1 \in 1 .. Len(q) /\ (i - 1) + 1 = i
    BY <1>1, <1>2, <1>4, <2>1
  <2>3. q[i - 1] = s
    BY <1>1, <2>1, <2>2
  <2> QED
    BY <2>2, <2>3 DEF Has
<1>5. Has(todo, todo[1])
  BY <1>2 DEF Has
<1> QED
  BY <1>3, <1>4, <1>5 DEF q

(* A loop comes in front of the stages that are left.                      *)
LEMMA HasEach ==
    ASSUME NEW q \in Seq(Stages)
    PROVE  \A s : Has(<<"each">> \o q, s) <=> s = "each" \/ Has(q, s)
<1> DEFINE r == <<"each">> \o q
<1>1. <<"each">> \in Seq(Stages) /\ Len(<<"each">>) = 1 /\ <<"each">>[1] = "each"
  BY DEF Stages
<1>2. /\ Len(r) = 1 + Len(q) /\ Len(q) \in Nat
      /\ \A i \in 1 .. 1 + Len(q) : r[i] = IF i <= 1 THEN <<"each">>[i] ELSE q[i - 1]
  BY <1>1, ConcatProperties, LenProperties
<1> HIDE DEF r
<1>3. r[1] = "each" /\ 1 \in 1 .. Len(r)
  BY <1>1, <1>2
<1>4. ASSUME NEW s, Has(q, s)
      PROVE  Has(r, s)
  <2>1. PICK i \in 1 .. Len(q) : q[i] = s
    BY <1>4 DEF Has
  <2>2. i + 1 \in 1 .. Len(r) /\ ~(i + 1 <= 1) /\ (i + 1) - 1 = i /\ i + 1 \in 1 .. 1 + Len(q)
    BY <1>2, <2>1
  <2>3. r[i + 1] = q[i]
    BY <1>2, <2>2
  <2> QED
    BY <2>1, <2>2, <2>3 DEF Has
<1>5. ASSUME NEW s, Has(r, s), s # "each"
      PROVE  Has(q, s)
  <2>1. PICK i \in 1 .. Len(r) : r[i] = s
    BY <1>5 DEF Has
  <2>2. i # 1 /\ i - 1 \in 1 .. Len(q) /\ i \in 1 .. 1 + Len(q) /\ ~(i <= 1)
    BY <1>2, <1>3, <1>5, <2>1
  <2>3. q[i - 1] = s
    BY <1>2, <2>1, <2>2
  <2> QED
    BY <2>2, <2>3 DEF Has
<1> QED
  BY <1>3, <1>4, <1>5 DEF r, Has

(* What is left of close(), by kind.                                       *)
ShapeFacts(k, todo) ==
    /\ todo[1] \in Stages /\ todo[1] # "each"
    /\ todo[1] \notin Last3 => Tail(todo) \in ClosingOf(k)
    /\ todo[1] \in CopyStages =>
          /\ ~Has(Tail(todo), todo[1])
          /\ IF k = "reader" THEN Tail(todo) = <<"delete">> ELSE Harmless(k, Tail(todo))
    /\ todo[1] \in Last3 => todo \in {<<"delete">>, <<"closeObject">>}
    /\ todo[1] = "unregister" => ~Has(Tail(todo), "unregister")
    /\ todo[1] = "decr" => ~Has(Tail(todo), "decr")
    /\ todo[1] \in {"listener", "dependents"} => Harmless(k, todo)
    /\ todo[1] = "readDecr" => Has(todo, "decr")
    /\ ~Has(todo, "unregister") =>
          todo[1] \in {"readDecr", "decr", "queries", "delete", "closeObject"}
    /\ Has(todo, "queries") => k = "reader"
    /\ todo[1] \notin Last3 \cup {"readDecr"} => Tail(todo)[1] \notin {"decr", "incr"}

LEMMA ClosingShapes ==
    ASSUME NEW k \in Kinds, NEW todo \in ClosingOf(k)
    PROVE  ShapeFacts(k, todo)
<1> USE DEF ShapeFacts, Stages, Last3, CopyStages, Harmless, Has
<1>1. CASE k = "participant"
  <2>1. CASE todo =
              <<"publishers", "subscribers", "cfts", "topics", "listener", "unregister", "delete">>
    BY <1>1, <2>1 DEF ClosingOf
  <2>2. CASE todo = <<"subscribers", "cfts", "topics", "listener", "unregister", "delete">>
    BY <1>1, <2>2 DEF ClosingOf
  <2>3. CASE todo = <<"cfts", "topics", "listener", "unregister", "delete">>
    BY <1>1, <2>3 DEF ClosingOf
  <2>4. CASE todo = <<"topics", "listener", "unregister", "delete">>
    BY <1>1, <2>4 DEF ClosingOf
  <2>5. CASE todo = <<"listener", "unregister", "delete">>
    BY <1>1, <2>5 DEF ClosingOf
  <2>6. CASE todo = <<"unregister", "delete">>
    BY <1>1, <2>6 DEF ClosingOf
  <2>7. CASE todo = <<"delete">>
    BY <1>1, <2>7 DEF ClosingOf
  <2> QED
    BY <1>1, <2>1, <2>2, <2>3, <2>4, <2>5, <2>6, <2>7 DEF ClosingOf
<1>2. CASE k \in {"publisher", "subscriber"}
  <2>1. CASE todo = <<"endpoints", "listener", "unregister", "delete">>
    BY <1>2, <2>1 DEF ClosingOf
  <2>2. CASE todo = <<"listener", "unregister", "delete">>
    BY <1>2, <2>2 DEF ClosingOf
  <2>3. CASE todo = <<"unregister", "delete">>
    BY <1>2, <2>3 DEF ClosingOf
  <2>4. CASE todo = <<"delete">>
    BY <1>2, <2>4 DEF ClosingOf
  <2> QED
    BY <1>2, <2>1, <2>2, <2>3, <2>4 DEF ClosingOf
<1>3. CASE k = "topic"
  <2>1. CASE todo = <<"dependents", "listener", "unregister", "delete">>
    BY <1>3, <2>1 DEF ClosingOf
  <2>2. CASE todo = <<"listener", "unregister", "delete">>
    BY <1>3, <2>2 DEF ClosingOf
  <2>3. CASE todo = <<"unregister", "delete">>
    BY <1>3, <2>3 DEF ClosingOf
  <2>4. CASE todo = <<"delete">>
    BY <1>3, <2>4 DEF ClosingOf
  <2> QED
    BY <1>3, <2>1, <2>2, <2>3, <2>4 DEF ClosingOf
<1>4. CASE k = "cft"
  <2>1. CASE todo = <<"readDecr", "decr", "unregister", "closeObject">>
    BY <1>4, <2>1 DEF ClosingOf
  <2>2. CASE todo = <<"decr", "unregister", "closeObject">>
    BY <1>4, <2>2 DEF ClosingOf
  <2>3. CASE todo = <<"unregister", "closeObject">>
    BY <1>4, <2>3 DEF ClosingOf
  <2>4. CASE todo = <<"closeObject">>
    BY <1>4, <2>4 DEF ClosingOf
  <2> QED
    BY <1>4, <2>1, <2>2, <2>3, <2>4 DEF ClosingOf
<1>5. CASE k = "reader"
  <2>1. CASE todo = <<"listener", "unregister", "readDecr", "decr", "queries", "delete">>
    BY <1>5, <2>1 DEF ClosingOf
  <2>2. CASE todo = <<"unregister", "readDecr", "decr", "queries", "delete">>
    BY <1>5, <2>2 DEF ClosingOf
  <2>3. CASE todo = <<"readDecr", "decr", "queries", "delete">>
    BY <1>5, <2>3 DEF ClosingOf
  <2>4. CASE todo = <<"decr", "queries", "delete">>
    BY <1>5, <2>4 DEF ClosingOf
  <2>5. CASE todo = <<"queries", "delete">>
    BY <1>5, <2>5 DEF ClosingOf
  <2>6. CASE todo = <<"delete">>
    BY <1>5, <2>6 DEF ClosingOf
  <2> QED
    BY <1>5, <2>1, <2>2, <2>3, <2>4, <2>5, <2>6 DEF ClosingOf
<1>6. CASE k = "writer"
  <2>1. CASE todo = <<"listener", "readDecr", "decr", "unregister", "delete">>
    BY <1>6, <2>1 DEF ClosingOf
  <2>2. CASE todo = <<"readDecr", "decr", "unregister", "delete">>
    BY <1>6, <2>2 DEF ClosingOf
  <2>3. CASE todo = <<"decr", "unregister", "delete">>
    BY <1>6, <2>3 DEF ClosingOf
  <2>4. CASE todo = <<"unregister", "delete">>
    BY <1>6, <2>4 DEF ClosingOf
  <2>5. CASE todo = <<"delete">>
    BY <1>6, <2>5 DEF ClosingOf
  <2> QED
    BY <1>6, <2>1, <2>2, <2>3, <2>4, <2>5 DEF ClosingOf
<1>7. CASE k = "query"
  <2>1. CASE todo = <<"unregister", "delete">>
    BY <1>7, <2>1 DEF ClosingOf
  <2>2. CASE todo = <<"delete">>
    BY <1>7, <2>2 DEF ClosingOf
  <2> QED
    BY <1>7, <2>1, <2>2 DEF ClosingOf
<1> QED
  BY <1>1, <1>2, <1>3, <1>4, <1>5, <1>6, <1>7 DEF Kinds

(* What is left of a constructor, by kind.                                 *)
MakingFacts(k, todo) ==
    /\ todo[1] # "enable" => Tail(todo) \in MakingOf(k)
    /\ todo[1] = "incr" => ~Has(Tail(todo), "incr") /\ ~Has(todo, "handleTopic")
    /\ todo[1] = "register" =>
          ~Has(todo, "handleParent") /\ ~Has(todo, "handleTopic") /\ ~Has(todo, "incr")
    /\ todo[1] \in {"autoEnable", "enable"} =>
          /\ ~Has(todo, "handleParent") /\ ~Has(todo, "handleTopic") /\ ~Has(todo, "incr")
          /\ ~Has(todo, "register")
    /\ todo[1] = "register" => ~Has(Tail(todo), "register")
    /\ todo[1] \in {"handleParent", "handleTopic", "create"} => Has(todo, "register")
    /\ todo[1] \notin {"readIncr", "enable"} => Tail(todo)[1] \notin {"decr", "incr"}

LEMMA MakingShapes ==
    ASSUME NEW k \in Kinds, NEW todo \in MakingOf(k)
    PROVE  MakingFacts(k, todo)
<1> USE DEF MakingFacts, Has
<1>1. CASE k = "writer"
  <2>1. CASE todo =
              <<"handleParent", "handleTopic", "create", "readIncr", "incr", "register",
                "autoEnable", "enable">>
    BY <1>1, <2>1 DEF MakingOf
  <2>2. CASE todo =
              <<"handleTopic", "create", "readIncr", "incr", "register", "autoEnable", "enable">>
    BY <1>1, <2>2 DEF MakingOf
  <2>3. CASE todo = <<"create", "readIncr", "incr", "register", "autoEnable", "enable">>
    BY <1>1, <2>3 DEF MakingOf
  <2>4. CASE todo = <<"readIncr", "incr", "register", "autoEnable", "enable">>
    BY <1>1, <2>4 DEF MakingOf
  <2>5. CASE todo = <<"incr", "register", "autoEnable", "enable">>
    BY <1>1, <2>5 DEF MakingOf
  <2>6. CASE todo = <<"register", "autoEnable", "enable">>
    BY <1>1, <2>6 DEF MakingOf
  <2>7. CASE todo = <<"autoEnable", "enable">>
    BY <1>1, <2>7 DEF MakingOf
  <2>8. CASE todo = <<"enable">>
    BY <1>1, <2>8 DEF MakingOf
  <2> QED
    BY <1>1, <2>1, <2>2, <2>3, <2>4, <2>5, <2>6, <2>7, <2>8 DEF MakingOf
<1>2. CASE k # "writer"
  <2>1. CASE todo =
              <<"handleParent", "handleTopic", "create", "readIncr", "incr", "register", "enable">>
    BY <1>2, <2>1 DEF MakingOf
  <2>2. CASE todo = <<"handleTopic", "create", "readIncr", "incr", "register", "enable">>
    BY <1>2, <2>2 DEF MakingOf
  <2>3. CASE todo = <<"create", "readIncr", "incr", "register", "enable">>
    BY <1>2, <2>3 DEF MakingOf
  <2>4. CASE todo = <<"readIncr", "incr", "register", "enable">>
    BY <1>2, <2>4 DEF MakingOf
  <2>5. CASE todo = <<"incr", "register", "enable">>
    BY <1>2, <2>5 DEF MakingOf
  <2>6. CASE todo = <<"register", "enable">>
    BY <1>2, <2>6 DEF MakingOf
  <2>7. CASE todo = <<"enable">>
    BY <1>2, <2>7 DEF MakingOf
  <2> QED
    BY <1>2, <2>1, <2>2, <2>3, <2>4, <2>5, <2>6, <2>7 DEF MakingOf
<1> QED
  BY <1>1, <1>2

(* What is left when close() has taken the mutex.                          *)
LEMMA Entered ==
    ASSUME NEW k \in Kinds
    PROVE  LET todo == IF k = "query" THEN Tail(Unlocked) ELSE Tail(Body(k))
           IN  /\ todo \in ClosingOf(k) /\ Harmless(k, todo)
               /\ \A x \in Kinds \ {"participant"} :
                     Container[x] = k => Has(todo, StageOf(x))
               /\ k = "topic" => Has(todo, "dependents")
<1> USE DEF Harmless, Has, ClosingOf, Body
<1>1. CASE k = "participant"
  BY <1>1 DEF Kinds, Container, StageOf, GroupBody, TopicBody, ReaderBody, WriterBody, Unlocked
<1>2. CASE k = "publisher"
  BY <1>2 DEF Kinds, Container, StageOf, GroupBody, TopicBody, ReaderBody, WriterBody, Unlocked
<1>3. CASE k = "subscriber"
  BY <1>3 DEF Kinds, Container, StageOf, GroupBody, TopicBody, ReaderBody, WriterBody, Unlocked
<1>4. CASE k = "topic"
  BY <1>4 DEF Kinds, Container, StageOf, GroupBody, TopicBody, ReaderBody, WriterBody, Unlocked
<1>5. CASE k = "cft"
  BY <1>5 DEF Kinds, Container, StageOf, GroupBody, TopicBody, ReaderBody, WriterBody, Unlocked
<1>6. CASE k = "reader"
  BY <1>6 DEF Kinds, Container, StageOf, GroupBody, TopicBody, ReaderBody, WriterBody, Unlocked
<1>7. CASE k = "writer"
  BY <1>7 DEF Kinds, Container, StageOf, GroupBody, TopicBody, ReaderBody, WriterBody, Unlocked
<1>8. CASE k = "query"
  BY <1>8 DEF Kinds, Container, StageOf, GroupBody, TopicBody, ReaderBody, WriterBody, Unlocked
<1> QED
  BY <1>1, <1>2, <1>3, <1>4, <1>5, <1>6, <1>7, <1>8 DEF Kinds

(* What a constructor starts with.                                         *)
LEMMA Started ==
    ASSUME NEW k \in {"reader", "writer"}
    PROVE  LET todo == ConstructorBody(k)
           IN  /\ todo \in MakingOf(k) /\ Has(todo, "handleParent") /\ Has(todo, "handleTopic")
               /\ Has(todo, "incr") /\ Has(todo, "register")
<1> USE DEF Has, ConstructorBody, MakingOf
<1>1. CASE k = "reader"
  BY <1>1
<1>2. CASE k = "writer"
  BY <1>2
<1> QED
  BY <1>1, <1>2

(* A loop is in front of what was left.                                    *)
LEMMA EachThen ==
    ASSUME NEW q \in Seq(Stages)
    PROVE  /\ (<<"each">> \o q)[1] = "each" /\ Tail(<<"each">> \o q) = q
           /\ <<"each">> \o q \in Seq(Stages) /\ <<"each">> \o q # << >>
<1> DEFINE r == <<"each">> \o q
<1>1. <<"each">> \in Seq(Stages) /\ Len(<<"each">>) = 1 /\ <<"each">>[1] = "each"
  BY DEF Stages
<1>2. /\ r \in Seq(Stages) /\ Len(r) = 1 + Len(q) /\ Len(q) \in Nat
      /\ \A i \in 1 .. 1 + Len(q) : r[i] = IF i <= 1 THEN <<"each">>[i] ELSE q[i - 1]
  BY <1>1, ConcatProperties, LenProperties
<1> HIDE DEF r
<1>3. r[1] = "each" /\ r # << >>
  BY <1>1, <1>2
<1>4. Tail(r) \in Seq(Stages) /\ Len(Tail(r)) = Len(q)
      /\ \A i \in 1 .. Len(Tail(r)) : Tail(r)[i] = r[i + 1]
  BY <1>2, <1>3, HeadTailProperties
<1>5. \A i \in 1 .. Len(q) : Tail(r)[i] = q[i]
  BY <1>2, <1>4
<1>6. Tail(r) = q
  BY <1>4, <1>5, SeqEqual
<1> QED
  BY <1>2, <1>3, <1>6 DEF r

(* The same of what may be in a loop.                                      *)
StageFacts(k, todo) ==
    /\ todo[1] \notin Last3 => Shaped(k, Tail(todo))
    /\ todo[1] \in CopyStages =>
          Shaped(k, <<"each">> \o Tail(todo)) /\ ~Has(<<"each">> \o Tail(todo), todo[1])
    /\ todo[1] \in Last3 => todo \in {<<"delete">>, <<"closeObject">>}
    /\ todo[1] = "unregister" => ~Has(Tail(todo), "unregister")
    /\ todo[1] = "decr" => ~Has(Tail(todo), "decr")
    /\ todo[1] \in {"listener", "dependents"} => Harmless(k, todo)
    /\ todo[1] = "each" =>
          IF k = "reader" THEN ~Has(todo, "queries") ELSE Harmless(k, todo)
    /\ todo[1] = "readDecr" => Has(todo, "decr")
    /\ ~Has(todo, "unregister") =>
          todo[1] \in {"readDecr", "decr", "queries", "each", "delete", "closeObject"}
    /\ Has(todo, "queries") => k = "reader"
    /\ todo[1] \notin Last3 \cup {"readDecr"} => Tail(todo)[1] \notin {"decr", "incr"}

LEMMA Shapes ==
    ASSUME NEW k \in Kinds, NEW todo \in Seq(Stages), todo # << >>, Shaped(k, todo)
    PROVE  StageFacts(k, todo)
<1>1. PICK p \in ClosingOf(k) :
        \/ todo = p
        \/ p[1] \in CopyStages /\ todo[1] = "each" /\ Tail(todo) = Tail(p)
  BY DEF Shaped
<1>2. ShapeFacts(k, p)
  BY ClosingShapes
<1>3. CASE todo = p
  <2>1. ASSUME todo[1] \in CopyStages
        PROVE  Shaped(k, <<"each">> \o Tail(todo)) /\ ~Has(<<"each">> \o Tail(todo), todo[1])
    <3>1. Tail(todo) \in Seq(Stages)
      BY HeadTailProperties
    <3>2. Shaped(k, <<"each">> \o Tail(todo))
      BY <1>3, <2>1, <3>1, EachThen DEF Shaped
    <3>3. ~Has(Tail(todo), todo[1]) /\ todo[1] # "each"
      BY <1>2, <1>3, <2>1 DEF ShapeFacts
    <3> QED
      BY <3>1, <3>2, <3>3, HasEach
  <2>2. todo[1] \notin Last3 => Shaped(k, Tail(todo))
    BY <1>2, <1>3 DEF ShapeFacts, Shaped
  <2> HIDE DEF Last3
  <2> QED
    BY <1>2, <1>3, <2>1, <2>2 DEF ShapeFacts, StageFacts
<1>4. CASE p[1] \in CopyStages /\ todo[1] = "each" /\ Tail(todo) = Tail(p)
  <2>1. p[1] \notin Last3
    BY <1>4 DEF CopyStages, Last3
  <2>2. Tail(todo) \in ClosingOf(k)
    BY <1>2, <1>4, <2>1 DEF ShapeFacts
  <2>3. Shaped(k, Tail(todo))
    BY <2>2 DEF Shaped
  <2>4. \A s : s # "each" => (Has(todo, s) <=> Has(Tail(todo), s))
    BY <1>4, HasTail
  <2>5. ASSUME k = "reader"
        PROVE  ~Has(todo, "queries") /\ ~Has(todo, "unregister")
    <3>1. Tail(todo) = <<"delete">>
      BY <1>2, <1>4, <2>5 DEF ShapeFacts
    <3>2. ~Has(<<"delete">>, "queries") /\ ~Has(<<"delete">>, "unregister")
      BY DEF Has
    <3> QED
      BY <2>4, <3>1, <3>2
  <2>6. ASSUME k # "reader"
        PROVE  Harmless(k, todo)
    <3>1. Harmless(k, Tail(todo))
      BY <1>2, <1>4, <2>6 DEF ShapeFacts
    <3> QED
      BY <2>4, <3>1 DEF Harmless
  <2>7. Has(todo, "queries") => k = "reader"
    BY <2>2, <2>4, ClosingShapes DEF ShapeFacts
  <2> QED
    BY <1>2, <1>4, <2>1, <2>3, <2>5, <2>6, <2>7 DEF ShapeFacts, StageFacts, CopyStages, Last3
<1> QED
  BY <1>1, <1>3, <1>4

-----------------------------------------------------------------------------
(* The functions a thread is in: one of each entity; all but the innermost *)
(* are in a loop.                                                          *)
LEMMA OnFrames ==
    ASSUME Stacks, NEW t \in Threads
    PROVE  /\ \A f \in Funs(t) : /\ FrameOK(f) /\ f \in Frames /\ f.e \in Entities
                               /\ Kind[f.e] \in Kinds /\ f.todo \in Seq(Stages) /\ f.todo # << >>
           /\ \A f, g \in Funs(t) : f.e = g.e => f = g
           /\ stack[t] = << >> => Funs(t) = {}
<1> DEFINE s == stack[t]
<1>1. StackOK(s)
  BY DEF Stacks
<1>2. s \in Seq(Frames) /\ Len(s) \in Nat
  BY <1>1, LenProperties DEF StackOK
<1>3. ASSUME NEW f \in Funs(t)
      PROVE  /\ FrameOK(f) /\ f \in Frames /\ f.e \in Entities
             /\ Kind[f.e] \in Kinds /\ f.todo \in Seq(Stages) /\ f.todo # << >>
  <2>1. FrameOK(f)
    BY <1>1 DEF StackOK, Funs
  <2>2. f \in Frames /\ f.todo \in Seq(Stages) /\ f.todo # << >>
    BY <2>1, FirstStages DEF FrameOK
  <2> QED
    BY <2>1, <2>2, TreeAssumption DEF Frames
<1>4. ASSUME NEW f \in Funs(t), NEW g \in Funs(t), f.e = g.e
      PROVE  f = g
  <2>1. PICK i \in 1 .. Len(s), j \in 1 .. Len(s) : f = s[i] /\ g = s[j]
    BY DEF Funs
  <2>2. Rank(f.e) \in Int
    BY <1>3, Ranks
  <2>3. ~(i < j) /\ ~(j < i)
    BY <1>1, <1>4, <2>1, <2>2 DEF StackOK
  <2> QED
    BY <1>2, <2>1, <2>3
<1>5. s = << >> => Funs(t) = {}
  BY DEF Funs
<1> QED
  BY <1>3, <1>4, <1>5

(* The innermost function.                                                 *)
LEMMA OnTop ==
    ASSUME Stacks, NEW t \in Threads, Busy(t)
    PROVE  LET f == Innermost(t)
           IN  /\ f \in Funs(t) /\ f = stack[t][1] /\ f.e = Self(t) /\ f.rest = Rest(t)
               /\ \A g \in Funs(t) : g # f =>
                     g.e # f.e /\ Inside(g.todo) /\ g.todo[1] = "each" /\ Rank(g.e) < Rank(f.e)
               /\ Making(f.todo) => Funs(t) = {f}
<1> DEFINE s == stack[t]
           f == s[1]
<1>1. StackOK(s) /\ s # << >>
  BY DEF Stacks, Busy
<1>2. Innermost(t) = f /\ Len(s) \in Nat \ {0}
  BY <1>1, StackFirst DEF Innermost
<1>3. f \in Funs(t)
  BY <1>2 DEF Funs
<1>4. ASSUME NEW g \in Funs(t), g # f
      PROVE  g.e # f.e /\ Inside(g.todo) /\ g.todo[1] = "each" /\ Rank(g.e) < Rank(f.e)
  <2>1. PICK j \in 1 .. Len(s) : g = s[j]
    BY DEF Funs
  <2>2. j \in 2 .. Len(s) /\ 1 < j
    BY <1>2, <1>4, <2>1
  <2>3. Rank(g.e) < Rank(f.e)
    BY <1>1, <1>2, <2>1, <2>2 DEF StackOK
  <2>4. Inside(g.todo) /\ g.todo[1] = "each"
    BY <1>1, <2>1, <2>2 DEF StackOK
  <2> QED
    BY <1>3, <1>4, <2>3, <2>4, OnFrames
<1>5. Making(f.todo) => Funs(t) = {f}
  <2>1. Making(f.todo) => Len(s) = 1
    BY <1>1 DEF StackOK
  <2> QED
    BY <2>1 DEF Funs
<1> QED
  BY <1>2, <1>3, <1>4, <1>5 DEF Self, Rest

(* The functions when a stack changes.                                     *)
LEMMA OnOthers ==
    ASSUME Stacks, NEW t \in Threads, NEW r, stack' = [stack EXCEPT ![t] = r]
    PROVE  /\ \A u \in Threads \ {t} : Funs(u)' = Funs(u)
           /\ Funs(t)' = {r[i] : i \in 1 .. Len(r)}
<1>1. stack'[t] = r /\ \A u \in Threads \ {t} : stack'[u] = stack[u]
  BY DEF Stacks
<1> QED
  BY <1>1 DEF Funs

LEMMA OnGoesOn ==
    ASSUME Stacks, NEW t \in Threads, Busy(t), NEW g \in Frames
    PROVE  LET r == <<g>> \o Tail(stack[t])
           IN  {r[i] : i \in 1 .. Len(r)} = {g} \cup (Funs(t) \ {Innermost(t)})
<1> DEFINE s == stack[t]
           r == <<g>> \o Tail(s)
<1>1. StackOK(s) /\ s # << >>
  BY DEF Stacks, Busy
<1>2. /\ Len(r) = Len(s) /\ r[1] = g /\ Len(s) \in Nat \ {0}
      /\ \A i \in 2 .. Len(s) : r[i] = s[i]
  BY <1>1, TopReplaced, StackFirst
<1>3. Innermost(t) = s[1]
  BY <1>1, StackFirst DEF Innermost
<1>4. \A i \in 2 .. Len(s) : s[i] # s[1]
  <2>1. ASSUME NEW i \in 2 .. Len(s)
        PROVE  Rank(s[i].e) < Rank(s[1].e) /\ Rank(s[1].e) \in Int
    <3>1. 1 \in 1 .. Len(s) /\ i \in 1 .. Len(s) /\ 1 < i
      BY <1>2
    <3> QED
      BY <1>1, <3>1, StackFirst, Ranks DEF StackOK
  <2> QED
    BY <2>1
<1> HIDE DEF r
<1>5. ASSUME NEW i \in 1 .. Len(r)
      PROVE  r[i] \in {g} \cup (Funs(t) \ {Innermost(t)})
  BY <1>2, <1>3, <1>4 DEF Funs
<1>6. ASSUME NEW h \in {g} \cup (Funs(t) \ {Innermost(t)})
      PROVE  \E i \in 1 .. Len(r) : h = r[i]
  <2>1. CASE h = g
    BY <1>2, <2>1
  <2>2. CASE h # g
    <3>1. PICK i \in 1 .. Len(s) : h = s[i]
      BY <2>2 DEF Funs
    <3>2. i \in 2 .. Len(s)
      BY <1>2, <1>3, <1>6, <2>2, <3>1
    <3> QED
      BY <1>2, <3>1, <3>2
  <2> QED
    BY <2>1, <2>2
<1>7. {r[i] : i \in 1 .. Len(r)} = {g} \cup (Funs(t) \ {Innermost(t)})
  BY <1>5, <1>6
<1> QED
  BY <1>7 DEF r

LEMMA OnCalls ==
    ASSUME NEW s \in Seq(Frames), NEW h \in Frames
    PROVE  LET r == <<h>> \o s
           IN  {r[i] : i \in 1 .. Len(r)} = {h} \cup {s[i] : i \in 1 .. Len(s)}
<1> DEFINE r == <<h>> \o s
<1>1. <<h>> \in Seq(Frames) /\ Len(<<h>>) = 1 /\ <<h>>[1] = h
  OBVIOUS
<1>2. /\ Len(r) = 1 + Len(s) /\ Len(s) \in Nat
      /\ \A i \in 1 .. 1 + Len(s) : r[i] = IF i <= 1 THEN <<h>>[i] ELSE s[i - 1]
  BY <1>1, ConcatProperties, LenProperties
<1> HIDE DEF r
<1>3. r[1] = h /\ 1 \in 1 .. Len(r)
  BY <1>1, <1>2
<1>4. \A i \in 1 .. Len(s) : i + 1 \in 1 .. Len(r) /\ r[i + 1] = s[i]
  BY <1>2
<1>5. \A i \in 1 .. Len(r) : i # 1 => i - 1 \in 1 .. Len(s) /\ r[i] = s[i - 1]
  BY <1>2
<1>6. ASSUME NEW x
      PROVE  x \in {r[i] : i \in 1 .. Len(r)} <=> x \in {h} \cup {s[i] : i \in 1 .. Len(s)}
  <2>1. (\E i \in 1 .. Len(r) : x = r[i]) => (x = h \/ \E i \in 1 .. Len(s) : x = s[i])
    BY <1>3, <1>5
  <2>2. (x = h \/ \E i \in 1 .. Len(s) : x = s[i]) => (\E i \in 1 .. Len(r) : x = r[i])
    BY <1>3, <1>4
  <2> QED
    BY <2>1, <2>2
<1>7. {r[i] : i \in 1 .. Len(r)} = {h} \cup {s[i] : i \in 1 .. Len(s)}
  BY <1>6
<1> QED
  BY <1>7 DEF r

LEMMA OnReturns ==
    ASSUME Stacks, NEW t \in Threads, Busy(t)
    PROVE  LET r == Tail(stack[t])
           IN  {r[i] : i \in 1 .. Len(r)} = Funs(t) \ {Innermost(t)}
<1> DEFINE s == stack[t]
           r == Tail(s)
<1>1. StackOK(s) /\ s # << >>
  BY DEF Stacks, Busy
<1>2. /\ Len(s) \in Nat \ {0} /\ Len(r) = Len(s) - 1 /\ Innermost(t) = s[1]
      /\ \A i \in 1 .. Len(r) : r[i] = s[i + 1]
  BY <1>1, StackFirst DEF Innermost
<1>3. ASSUME NEW i \in 2 .. Len(s)
      PROVE  s[i] # s[1]
  <2>1. 1 \in 1 .. Len(s) /\ i \in 1 .. Len(s) /\ 1 < i
    BY <1>2
  <2>2. Rank(s[i].e) < Rank(s[1].e) /\ Rank(s[1].e) \in Int
    BY <1>1, <2>1, StackFirst, Ranks DEF StackOK
  <2> QED
    BY <2>2
<1> HIDE DEF r
<1>4. \A i \in 1 .. Len(r) : i + 1 \in 2 .. Len(s) /\ r[i] = s[i + 1]
  BY <1>2
<1>5. \A i \in 2 .. Len(s) : i - 1 \in 1 .. Len(r) /\ r[i - 1] = s[i]
  BY <1>2
<1>6. ASSUME NEW x
      PROVE  x \in {r[i] : i \in 1 .. Len(r)} <=> x \in Funs(t) \ {Innermost(t)}
  <2>1. ASSUME NEW i \in 1 .. Len(r), x = r[i]
        PROVE  x \in Funs(t) \ {Innermost(t)}
    <3>1. i + 1 \in 1 .. Len(s) /\ x = s[i + 1] /\ x # s[1]
      BY <1>2, <1>3, <1>4, <2>1
    <3> QED
      BY <1>2, <3>1 DEF Funs
  <2>2. ASSUME x \in Funs(t) \ {Innermost(t)}
        PROVE  \E i \in 1 .. Len(r) : x = r[i]
    <3>1. PICK i \in 1 .. Len(s) : x = s[i]
      BY <2>2 DEF Funs
    <3>2. i \in 2 .. Len(s)
      BY <1>2, <2>2, <3>1
    <3> QED
      BY <1>5, <3>1, <3>2
  <2> QED
    BY <2>1, <2>2
<1>7. {r[i] : i \in 1 .. Len(r)} = Funs(t) \ {Innermost(t)}
  BY <1>6
<1> QED
  BY <1>7 DEF r

-----------------------------------------------------------------------------
(* Function f goes on as g.                                                *)
Lives(f, g) ==
    /\ g.e = f.e
    /\ Inside(f.todo) => Inside(g.todo)
    /\ Making(f.todo) => Making(g.todo)
    /\ \A s : s # "each" /\ Has(g.todo, s) => Has(f.todo, s)

(* The functions of thread t after a step.                                 *)
FramesGo(t, e) ==
    /\ \A u \in Threads \ {t} : Funs(u)' = Funs(u)
    /\ \A f \in Funs(t) : \E g \in Funs(t)' : Lives(f, g)
    /\ \A g \in Funs(t)' :
          \/ FunctionOK(t, g)'
          \/ g \in Funs(t) /\ g.e # e /\ Inside(g.todo) /\ g.todo[1] = "each"
    /\ \A g \in Funs(t)' : Making(g.todo) => \E f \in Funs(t) : f.e = g.e /\ Making(f.todo)
    /\ \A g \in Funs(t)' : Before(g) =>
          \/ \E f \in Funs(t) : f.e = g.e /\ Before(f)
          \/ g.e \in born /\ status[g.e] # "expired"
    /\ \A g \in Funs(t)' : (\E f \in Funs(t) : f.e = g.e) \/ status[g.e] # "expired"

(* What a stage of e may change while no entity is born, drops or closes.  *)
Touches(t, e) ==
    /\ UNCHANGED <<status, born>>
    /\ \A x \in Entities : owner'[x] = owner[x] \/ (x = e /\ owner[x] = Nobody /\ owner'[x] = t)
    /\ \A x \in Entities \ {e} :
          /\ x \in holds' <=> x \in holds
          /\ \A p \in Entities : x \in members'[p] <=> x \in members[p]
    /\ \/ holds' = holds /\ members' = members
       \/ owner[e] = t
       \/ \E f \in Funs(t) : f.e = e /\ Making(f.todo)
       \/ status[e] = "expired" /\ holds' = holds
    /\ \A p \in Entities : e \in members'[p] =>
          e \in members[p] \/ \E g \in Funs(t)' : /\ g.e = e /\ Making(g.todo)
                                                 /\ ~Has(g.todo, "register")
    /\ \A d \in Entities :
          \/ Holders(d)' \subseteq Holders(d)
          \/ status[d] # "closed" /\ \A u \in Threads : \A f \in Funs(u) : f.e # d
    /\ \A u \in Threads \ {t} : \A f \in Funs(u) : CountOK(u, f)'
    /\ CountersOK'

(* A thread that has a mutex has a function with it.                       *)
LEMMA HasFunction ==
    ASSUME TreeInv, NEW e \in Entities, owner[e] # Nobody
    PROVE  owner[e] \in Threads /\ \E f \in Funs(owner[e]) : f.e = e /\ Inside(f.todo)
<1>1. Owned(stack[owner[e]], e) /\ owner[e] \in Threads
  BY DEF TreeInv, Owners, Typed
<1> QED
  BY <1>1 DEF Owned, Funs

(* A function of an entity that is being created is that constructor.      *)
LEMMA OnlyMaker ==
    ASSUME TreeInv, UsedInv, NEW t \in Threads, NEW f \in Funs(t), Making(f.todo),
           NEW u \in Threads, NEW g \in Funs(u), g.e = f.e
    PROVE  u = t /\ g = f /\ ~Inside(g.todo) /\ ~Before(g)
<1>1. MakeOK(t, f) /\ GrownOK(g) /\ MakeOK(u, g)
  BY DEF UsedInv, FunctionOK
<1>2. Making(g.todo)
  BY <1>1 DEF MakeOK, GrownOK, Grown
<1>3. u = t
  BY <1>1, <1>2 DEF MakeOK
<1>4. g = f /\ FrameOK(g)
  BY <1>3, OnFrames DEF TreeInv
<1> QED
  BY <1>2, <1>3, <1>4, FirstStages

(* Entities stay closed, expired or on their way out.                      *)
LEMMA PastStays ==
    ASSUME NEW t \in Threads, status' = status,
           \A u \in Threads \ {t} : Funs(u)' = Funs(u),
           \A f \in Funs(t) : \E g \in Funs(t)' : Lives(f, g)
    PROVE  \A x : Past(x) => Past(x)'
<1>1. ASSUME NEW x, Parting(x)
      PROVE  Parting(x)'
  <2>0. PICK u \in Threads :
            \E f \in Funs(u) : f.e = x /\ Inside(f.todo) /\ ~Has(f.todo, "unregister")
    BY <1>1 DEF Parting
  <2>1. PICK f \in Funs(u) : f.e = x /\ Inside(f.todo) /\ ~Has(f.todo, "unregister")
    BY <2>0
  <2>2. CASE u # t
    BY <2>1, <2>2 DEF Parting
  <2>3. CASE u = t
    <3>1. PICK g \in Funs(t)' : Lives(f, g)
      BY <2>1, <2>3
    <3> QED
      BY <2>1, <3>1 DEF Parting, Lives
  <2> QED
    BY <2>2, <2>3
<1> QED
  BY <1>1 DEF Past

(* A step of one stage keeps the invariant if the function it leaves is    *)
(* as it should be.                                                        *)
LEMMA TouchKeeps ==
    ASSUME TreeInv, TreeInv', UsedInv, NEW t \in Threads, NEW e \in Entities,
           FramesGo(t, e), Touches(t, e)
    PROVE  UsedInv'
<1> USE DEF FramesGo
<1>0. /\ Nobody \notin Threads
      /\ \A u \in Threads : \A f \in Funs(u) : FunctionOK(u, f) /\ FrameOK(f) /\ f.e \in Entities
      /\ \A u \in Threads : \A f \in Funs(u)' : FrameOK(f) /\ f.e \in Entities
      /\ status' = status /\ born' = born
  <2>1. ASSUME NEW u \in Threads, NEW f \in Funs(u)'
        PROVE  FrameOK(f) /\ f.e \in Entities
    <3>1. PICK i \in 1 .. Len(stack'[u]) : f = stack'[u][i]
      BY DEF Funs
    <3>2. FrameOK(f)
      BY <3>1 DEF TreeInv, Stacks, StackOK
    <3> QED
      BY <3>2 DEF FrameOK, Frames
  <2> QED
    BY <2>1, TreeAssumption, OnFrames DEF TreeInv, UsedInv, Touches
<1>1. \A x : Past(x) => Past(x)'
  BY <1>0, PastStays
<1>2. \A x : Grown(x) <=> Grown(x)'
  BY <1>0 DEF Grown
<1>3. ASSUME NEW u \in Threads \ {t}, NEW f \in Funs(u)
      PROVE  FunctionOK(u, f)'
  <2>1. /\ ShapeOK(f) /\ LockOK(u, f) /\ GrownOK(f) /\ MakeOK(u, f) /\ CloseOK(f)
        /\ QueryOK(u, f) /\ KidsOK(u, f) /\ TopicOK(f) /\ f.e \in Entities /\ FrameOK(f)
    BY <1>0 DEF FunctionOK
  <2>2. owner[e] = t => \E h \in Funs(t) : h.e = e /\ Inside(h.todo)
    BY <1>0, HasFunction
  <2>3. LockOK(u, f)'
    BY <1>0, <2>1 DEF LockOK, Touches
  <2>4. GrownOK(f)'
    BY <1>2, <2>1 DEF GrownOK
  <2>5. MakeOK(u, f)'
    <3> SUFFICES ASSUME Making(f.todo)
                 PROVE  MakeOK(u, f)'
      BY DEF MakeOK
    <3>1. f.e # e \/ (holds' = holds /\ members' = members)
      <4>1. ~(\E h \in Funs(t) : h.e = f.e)
        BY OnlyMaker
      <4>2. status[f.e] # "expired"
        BY <2>1 DEF MakeOK
      <4> QED
        BY <2>2, <4>1, <4>2 DEF Touches
    <3>2. /\ f.e \in holds' <=> f.e \in holds
          /\ \A p \in Entities : f.e \in members[p] => f.e \in members'[p]
      BY <2>1, <3>1 DEF Touches
    <3>3. Parent[f.e] \in Entities
      BY <2>1, CallsAssumption, Ranks DEF MakeOK
    <3>4. ASSUME NEW v \in Threads, NEW g \in Funs(v)', g.e = f.e, Making(g.todo)
          PROVE  v = u
      <4>1. CASE v # t
        BY <2>1, <3>4, <4>1 DEF MakeOK
      <4>2. CASE v = t
        <5>1. \E h \in Funs(t) : h.e = g.e /\ Making(h.todo)
          BY <3>4, <4>2
        <5> QED
          BY <2>1, <3>4, <4>2, <5>1 DEF MakeOK
      <4> QED
        BY <4>1, <4>2
    <3> QED
      BY <1>0, <2>1, <3>2, <3>3, <3>4 DEF MakeOK
  <2>6. CloseOK(f)'
    <3> SUFFICES ASSUME Inside(f.todo)
                 PROVE  CloseOK(f)'
      BY DEF CloseOK
    <3>1. owner[f.e] = u
      BY <2>1 DEF LockOK
    <3>2. ~(\E h \in Funs(t) : h.e = f.e /\ Making(h.todo))
      BY OnlyMaker
    <3>3. \/ f.e # e
          \/ holds' = holds /\ members' = members
          \/ status[f.e] = "expired" /\ holds' = holds
      BY <3>1, <3>2 DEF Touches
    <3>4. /\ f.e \in holds => f.e \in holds'
          /\ \A p \in Entities :
                f.e \in members[p] => f.e \in members'[p] \/ status'[f.e] = "expired"
      BY <1>0, <2>1, <3>3 DEF Touches
    <3>5. Parent[f.e] # Nobody => Parent[f.e] \in Entities
      BY <2>1, Ranks
    <3> QED
      BY <1>0, <2>1, <3>4, <3>5 DEF CloseOK
  <2>7. QueryOK(u, f)'
    BY <1>0, <2>1 DEF QueryOK
  <2>8. KidsOK(u, f)'
    BY <1>0, <1>1, <2>1 DEF KidsOK
  <2>9. TopicOK(f)'
    BY <1>0, <2>1 DEF TopicOK, Touches
  <2>10. CountOK(u, f)'
    BY DEF Touches
  <2>11. ShapeOK(f)'
    BY <2>1 DEF ShapeOK
  <2>12. DropOK(u, f)'
    <3>1. DropOK(u, f)
      BY <1>0 DEF FunctionOK
    <3> SUFFICES ASSUME status[f.e] = "expired", NEW v \in Threads, NEW g \in Funs(v)', g.e = f.e
                 PROVE  v = u
      BY <1>0 DEF DropOK
    <3>2. CASE v # t
      BY <3>1, <3>2 DEF DropOK
    <3>3. CASE v = t
      <4>1. \E h \in Funs(t) : h.e = g.e
        BY <3>3
      <4> QED
        BY <3>1, <3>3, <4>1 DEF DropOK
    <3> QED
      BY <3>2, <3>3
  <2> QED
    BY <2>3, <2>4, <2>5, <2>6, <2>7, <2>8, <2>9, <2>10, <2>11, <2>12 DEF FunctionOK
<1>4. ASSUME NEW f \in Funs(t)', f \in Funs(t), f.e # e, Inside(f.todo), f.todo[1] = "each"
      PROVE  FunctionOK(t, f)'
  <2>1. /\ ShapeOK(f) /\ LockOK(t, f) /\ GrownOK(f) /\ CloseOK(f)
        /\ KidsOK(t, f) /\ TopicOK(f) /\ f.e \in Entities /\ FrameOK(f) /\ ~Making(f.todo)
    BY <1>0, <1>4, FirstStages DEF FunctionOK
  <2>2. LockOK(t, f)' /\ GrownOK(f)' /\ MakeOK(t, f)' /\ ShapeOK(f)'
    BY <1>0, <1>2, <2>1 DEF LockOK, GrownOK, MakeOK, ShapeOK, Touches
  <2>3. CloseOK(f)'
    <3>1. f.e \in holds <=> f.e \in holds'
      BY <1>4, <2>1 DEF Touches
    <3>2. Parent[f.e] # Nobody => (f.e \in members[Parent[f.e]] <=> f.e \in members'[Parent[f.e]])
      BY <1>4, <2>1, Ranks DEF Touches
    <3> QED
      BY <1>0, <2>1, <3>1, <3>2 DEF CloseOK
  <2>4. QueryOK(t, f)'
    <3>1. Kind[f.e] # "query"
      BY <1>4, <2>1 DEF ShapeOK, Shaped, ClosingOf, CopyStages
    <3> QED
      BY <3>1 DEF QueryOK
  <2>5. KidsOK(t, f)'
    <3>1. \A x : (\E h \in Funs(t) : h.e = x) => (\E h \in Funs(t)' : h.e = x)
      BY DEF Lives
    <3> QED
      BY <1>0, <1>1, <2>1, <3>1 DEF KidsOK
  <2>6. CountOK(t, f)'
    BY <1>4 DEF CountOK
  <2>7. TopicOK(f)'
    BY <1>0, <1>4, <2>1 DEF TopicOK, Touches
  <2>8. DropOK(t, f)'
    BY <1>0, <1>4 DEF FunctionOK, DropOK
  <2> QED
    BY <2>2, <2>3, <2>4, <2>5, <2>6, <2>7, <2>8 DEF FunctionOK
<1>5. \A u \in Threads : \A f \in Funs(u)' : FunctionOK(u, f)'
  BY <1>3, <1>4
<1>6. Known'
  <2>1. \A x \in born' \cup holds' : status'[x] # "unborn"
    <3>1. ASSUME NEW x \in holds', x \notin holds
          PROVE  status'[x] # "unborn"
      <4>1. x \in Entities /\ x = e /\ holds' # holds
        BY <3>1, Ranks DEF Touches, TreeInv, Typed
      <4>2. \E f \in Funs(t) : f.e = x
        BY <4>1, <3>1, <1>0, HasFunction DEF Touches
      <4>3. PICK f \in Funs(t) : f.e = x
        BY <4>2
      <4>4. GrownOK(f) /\ MakeOK(t, f)
        BY <1>0 DEF FunctionOK
      <4> QED
        BY <1>0, <4>3, <4>4 DEF GrownOK, MakeOK, Grown, UsedInv, Known
    <3> QED
      BY <1>0, <3>1 DEF UsedInv, Known
  <2>2. ASSUME NEW p \in Entities, NEW x \in members'[p], ~Grown(x)'
        PROVE  \E u \in Threads : \E f \in Funs(u)' :
                   f.e = x /\ Making(f.todo) /\ ~Has(f.todo, "register")
    <3>1. x \in Entities
      BY DEF TreeInv, Typed
    <3>2. CASE x \in members[p]
      <4>0. PICK u \in Threads :
                \E f \in Funs(u) : f.e = x /\ Making(f.todo) /\ ~Has(f.todo, "register")
        BY <1>2, <2>2, <3>2 DEF UsedInv, Known
      <4>1. PICK f \in Funs(u) : f.e = x /\ Making(f.todo) /\ ~Has(f.todo, "register")
        BY <4>0
      <4>2. CASE u # t
        BY <4>1, <4>2
      <4>3. CASE u = t
        <5>1. PICK g \in Funs(t)' : Lives(f, g)
          BY <4>3
        <5> QED
          BY <4>1, <5>1 DEF Lives
      <4> QED
        BY <4>2, <4>3
    <3>3. CASE x \notin members[p]
      <4>1. x = e
        BY <2>2, <3>1, <3>3 DEF Touches
      <4> QED
        BY <2>2, <3>3, <4>1 DEF Touches
    <3> QED
      BY <3>2, <3>3
  <2> QED
    BY <2>1, <2>2 DEF Known
<1>7. Fresh'
  <2> SUFFICES ASSUME NEW x \in Entities, owner'[x] = Nobody,
                      \/ x \in born' /\ status'[x] = "open"
                      \/ status'[x] # "closed" /\ \E u \in Threads : \E f \in Funs(u)' :
                                                      f.e = x /\ Before(f)
               PROVE  Intact(x)'
    BY DEF Fresh
  <2>1. owner[x] = Nobody
    BY <1>0 DEF Touches
  <2>2. \/ x \in born /\ status[x] = "open"
        \/ status[x] # "closed" /\ \E u \in Threads : \E f \in Funs(u) : f.e = x /\ Before(f)
    <3> SUFFICES ASSUME status[x] # "closed", NEW u \in Threads, NEW f \in Funs(u)',
                        f.e = x, Before(f)
                 PROVE  \/ x \in born /\ status[x] = "open"
                        \/ \E v \in Threads : \E h \in Funs(v) : h.e = x /\ Before(h)
      BY <1>0
    <3>1. CASE u # t
      BY <3>1
    <3>2. CASE u = t
      <4>1. CASE \E h \in Funs(t) : h.e = x /\ Before(h)
        BY <4>1
      <4>2. CASE x \in born /\ status[x] # "expired"
        BY <4>2 DEF UsedInv, Known, TreeInv, Typed
      <4> QED
        BY <3>2, <4>1, <4>2
    <3> QED
      BY <3>1, <3>2
  <2>3. Intact(x)
    BY <2>1, <2>2 DEF UsedInv, Fresh
  <2>4. ~(\E h \in Funs(t) : h.e = x /\ Making(h.todo))
    <3> SUFFICES ASSUME NEW h \in Funs(t), h.e = x, Making(h.todo)
                 PROVE  FALSE
      OBVIOUS
    <3>1. x \notin born
      BY <1>0 DEF FunctionOK, MakeOK
    <3> QED
      BY <2>2, <3>1, OnlyMaker
  <2>5. \/ x # e
        \/ holds' = holds /\ members' = members
        \/ status[x] = "expired" /\ holds' = holds
    BY <1>0, <2>1, <2>4 DEF Touches
  <2>6. /\ x \in holds => x \in holds'
        /\ \A p \in Entities : x \in members[p] => x \in members'[p] \/ status'[x] = "expired"
    BY <1>0, <2>5 DEF Touches
  <2>7. Parent[x] # Nobody => Parent[x] \in Entities
    BY Ranks
  <2> QED
    BY <1>0, <2>3, <2>6, <2>7 DEF Intact
<1>8. KidsGone'
  BY <1>0, <1>1 DEF UsedInv, KidsGone
<1>9. UsersGone'
  BY <1>0 DEF UsedInv, UsersGone, Touches
<1> QED
  BY <1>5, <1>6, <1>7, <1>8, <1>9 DEF UsedInv, Touches

-----------------------------------------------------------------------------
(* The innermost function after a stage.                                   *)
NextFrame(t) == [Innermost(t) EXCEPT !.todo = Tail(Innermost(t).todo)]

(* The innermost function.                                                 *)
TopIs(t, f, stage) ==
    /\ f \in Funs(t) /\ FunctionOK(t, f) /\ FrameOK(f) /\ f \in Frames /\ f.e = Self(t)
    /\ f.e \in Entities /\ Kind[f.e] \in Kinds /\ f.todo[1] = stage /\ f.rest = Rest(t)
    /\ f.todo \in Seq(Stages) /\ f.todo # << >>
    /\ \A h \in Funs(t) : h # f =>
          h.e # f.e /\ Inside(h.todo) /\ h.todo[1] = "each" /\ Rank(h.e) < Rank(f.e)
    /\ Making(f.todo) => Funs(t) = {f}

LEMMA Tops ==
    ASSUME TreeInv, UsedInv, NEW t \in Threads, NEW stage, At(t, stage)
    PROVE  TopIs(t, Innermost(t), stage)
<1>1. Busy(t) /\ Innermost(t).todo[1] = stage
  BY DEF At
<1>2. Stacks
  BY DEF TreeInv
<1> DEFINE f == Innermost(t)
<1>3. /\ f \in Funs(t) /\ f.e = Self(t) /\ f.rest = Rest(t)
      /\ \A h \in Funs(t) : h # f =>
            h.e # f.e /\ Inside(h.todo) /\ h.todo[1] = "each" /\ Rank(h.e) < Rank(f.e)
      /\ Making(f.todo) => Funs(t) = {f}
  BY <1>1, <1>2, OnTop
<1>4. FunctionOK(t, f)
  BY <1>3 DEF UsedInv
<1> HIDE DEF f
<1>5. /\ FrameOK(f) /\ f \in Frames /\ f.e \in Entities /\ Kind[f.e] \in Kinds
      /\ f.todo \in Seq(Stages) /\ f.todo # << >>
  BY <1>2, <1>3, OnFrames
<1> QED
  BY <1>1, <1>3, <1>4, <1>5 DEF f, TopIs

(* Before it has the mutex, close() has a few stages.                      *)
LEMMA BeforeGoes ==
    ASSUME NEW f, FrameOK(f), Before(f)
    PROVE  LET q == Tail(f.todo)
           IN  /\ f.todo[1] = "lock" =>
                     q = IF Kind[f.e] = "query" THEN Tail(Unlocked) ELSE Tail(Body(Kind[f.e]))
               /\ f.todo[1] # "lock" => Kind[f.e] = "query" /\ q = Unlocked
<1>1. Kind[f.e] \in Kinds
  BY TreeAssumption DEF FrameOK, Frames
<1>2. CASE Kind[f.e] # "query"
  <2>1. f.todo = Body(Kind[f.e])
    BY <1>2 DEF Before, DestructorBody
  <2>2. f.todo[1] = "lock"
    BY <1>1, <1>2, <2>1, Literals
  <2> QED
    BY <1>2, <2>1, <2>2
<1>3. CASE Kind[f.e] = "query"
  <2>1. f.todo \in {Body("query"), DestructorBody("query"), Unlocked}
    BY <1>3 DEF Before, Unlocked
  <2> QED
    BY <1>3, <2>1, Literals
<1> QED
  BY <1>2, <1>3

(* A function that goes on to its next stage.                              *)
GoesOnward(t, f, g, stage) ==
    /\ FrameOK(g) /\ g \in Frames /\ g.e = f.e /\ g.rest = f.rest /\ g.todo = Tail(f.todo)
    /\ \A u \in Threads \ {t} : Funs(u)' = Funs(u)
    /\ Funs(t)' = {g} \cup (Funs(t) \ {f})
    /\ Lives(f, g)
    /\ \A s : Has(f.todo, s) /\ s # stage => Has(g.todo, s)
    /\ Before(f) /\ stage # "lock" => Before(g)
    /\ stage = "lock" =>
          /\ Before(f) /\ Inside(g.todo)
          /\ g.todo = IF Kind[f.e] = "query" THEN Tail(Unlocked) ELSE Tail(Body(Kind[f.e]))
    /\ Before(g) => Before(f) /\ g.todo[1] = "lock"
    /\ Making(g.todo) => Making(f.todo)
    /\ Inside(g.todo) => Inside(f.todo) \/ stage = "lock"
    /\ f.rest = {} => ShapeOK(g)
    /\ stage \notin {"readDecr", "readIncr"} => g.todo[1] \notin {"decr", "incr"}

LEMMA Onwards ==
    ASSUME TreeInv, UsedInv, NEW t \in Threads, NEW stage, stage \notin Last3, At(t, stage),
           Advance(t)
    PROVE  \E f, g : /\ f = Innermost(t) /\ g = NextFrame(t)
                      /\ TopIs(t, f, stage) /\ GoesOnward(t, f, g, stage)
<1>0. PICK f, g : f = Innermost(t) /\ g = NextFrame(t)
  OBVIOUS
<1>1. TopIs(t, f, stage)
  BY <1>0, Tops
<1>2. stack' = [stack EXCEPT ![t] = <<g>> \o Tail(stack[t])] /\ Busy(t) /\ Stacks
  BY <1>0 DEF Advance, GoOn, NextFrame, At, TreeInv
<1>3. g = [f EXCEPT !.todo = Tail(f.todo)]
  BY <1>0 DEF NextFrame
<1> USE DEF TopIs
<1>4. /\ FrameOK(g) /\ g.e = f.e /\ g.rest = f.rest
      /\ Inside(f.todo) => Inside(g.todo)
      /\ f.todo[1] = "lock" => Inside(g.todo)
      /\ Making(g.todo) => Making(f.todo)
  BY <1>1, <1>3, FrameAdvances
<1>5. g \in Frames /\ g.todo = Tail(f.todo)
  BY <1>1, <1>3, <1>4 DEF FrameOK, Frames
<1>6. /\ \A u \in Threads \ {t} : Funs(u)' = Funs(u)
      /\ Funs(t)' = {g} \cup (Funs(t) \ {f})
  <2>0. PICK r : r = <<g>> \o Tail(stack[t])
    OBVIOUS
  <2>1. {r[i] : i \in 1 .. Len(r)} = {g} \cup (Funs(t) \ {f})
    BY <1>0, <1>2, <1>5, <2>0, OnGoesOn
  <2>2. stack' = [stack EXCEPT ![t] = r]
    BY <1>2, <2>0
  <2>3. Stacks
    BY <1>2
  <2>4. \A u \in Threads \ {t} : Funs(u)' = Funs(u)
    BY <2>2, <2>3, OnOthers
  <2>5. Funs(t)' = {r[i] : i \in 1 .. Len(r)}
    BY <2>2, <2>3, OnOthers
  <2> QED
    BY <2>1, <2>4, <2>5
<1>7. Making(f.todo) => Making(g.todo)
  BY <1>1, <1>5, EndsTail DEF Making
<1>8. /\ \A s : Has(g.todo, s) => Has(f.todo, s)
      /\ \A s : Has(f.todo, s) /\ s # stage => Has(g.todo, s)
  BY <1>1, <1>5, HasTail
<1>9. Lives(f, g)
  BY <1>4, <1>7, <1>8 DEF Lives
<1>10. Before(f) \/ Inside(f.todo) \/ Making(f.todo)
  BY <1>1 DEF FrameOK
<1>11. Before(f) /\ stage # "lock" => Before(g) /\ g.todo = Unlocked
  BY <1>1, <1>4, <1>5, BeforeGoes DEF Before, Unlocked
<1>12. stage = "lock" =>
          /\ Before(f) /\ Inside(g.todo)
          /\ g.todo = IF Kind[f.e] = "query" THEN Tail(Unlocked) ELSE Tail(Body(Kind[f.e]))
  BY <1>1, <1>4, <1>5, FirstStages, BeforeGoes
<1>13. /\ ~(Inside(g.todo) /\ Making(g.todo)) /\ (Before(g) => ~Inside(g.todo) /\ ~Making(g.todo))
       /\ ~(Inside(f.todo) /\ Making(f.todo)) /\ (Before(f) => ~Inside(f.todo) /\ ~Making(f.todo))
  BY <1>1, <1>4, FirstStages
<1>14. /\ Before(g) => Before(f) /\ g.todo[1] = "lock"
       /\ Inside(g.todo) => Inside(f.todo) \/ stage = "lock"
  BY <1>4, <1>7, <1>10, <1>11, <1>12, <1>13 DEF Unlocked
<1>15. ShapeOK(f) /\ Kind[f.e] \in Kinds
  BY <1>1 DEF FunctionOK
<1>16. /\ Inside(g.todo) => Shaped(Kind[f.e], g.todo)
       /\ stage # "readDecr" /\ Inside(g.todo) => g.todo[1] \notin {"decr", "incr"}
  <2>1. CASE Inside(f.todo)
    <3>1. Shaped(Kind[f.e], f.todo)
      BY <1>15, <2>1 DEF ShapeOK
    <3>2. StageFacts(Kind[f.e], f.todo)
      BY <1>1, <3>1, Shapes
    <3> QED
      BY <1>1, <1>5, <3>2 DEF StageFacts
  <2>2. CASE stage = "lock"
    <3>1. g.todo \in ClosingOf(Kind[f.e])
      BY <1>12, <1>15, <2>2, Entered
    <3>2. g.todo[1] \notin {"decr", "incr"}
      <4>1. CASE Kind[f.e] = "query"
        BY <1>12, <2>2, <4>1 DEF Unlocked
      <4>2. CASE Kind[f.e] # "query"
        <5>1. g.todo = Tail(Body(Kind[f.e]))
          BY <1>12, <2>2, <4>2
        <5> QED
          BY <1>15, <4>2, <5>1 DEF Kinds, Body, GroupBody, TopicBody, ReaderBody, WriterBody
      <4> QED
        BY <4>1, <4>2
    <3> QED
      BY <3>1, <3>2 DEF Shaped
  <2> QED
    BY <1>14, <2>1, <2>2
<1>17. ASSUME Making(g.todo)
       PROVE  /\ g.todo \in MakingOf(Kind[f.e])
              /\ stage # "readIncr" => g.todo[1] \notin {"decr", "incr"}
  <2>1. f.todo \in MakingOf(Kind[f.e])
    BY <1>4, <1>15, <1>17 DEF ShapeOK
  <2>2. MakingFacts(Kind[f.e], f.todo)
    BY <1>15, <2>1, MakingShapes
  <2> QED
    BY <1>1, <1>5, <2>2 DEF MakingFacts, Last3
<1>18. f.rest = {} => ShapeOK(g)
  BY <1>4, <1>16, <1>17 DEF ShapeOK
<1>19. stage \notin {"readDecr", "readIncr"} => g.todo[1] \notin {"decr", "incr"}
  <2>1. Before(g) => g.todo[1] = "lock"
    BY <1>11, <1>12, <1>13, <1>14 DEF Unlocked
  <2> QED
    BY <1>4, <1>16, <1>17, <2>1 DEF FrameOK
<1>20. GoesOnward(t, f, g, stage)
  BY <1>4, <1>5, <1>6, <1>8, <1>9, <1>11, <1>12, <1>14, <1>18, <1>19 DEF GoesOnward
<1> QED
  BY <1>0, <1>1, <1>20

(* A stage that is not the last, and what is to be shown of it.            *)
LEMMA OnwardKeeps ==
    ASSUME TreeInv, TreeInv', UsedInv, NEW t \in Threads, NEW stage,
           stage \notin Last3 \cup CopyStages, At(t, stage), Advance(t), Rest(t) = {},
           Touches(t, Self(t)), NEW g, g = NextFrame(t), LockOK(t, g)', MakeOK(t, g)',
           CloseOK(g)', CountOK(t, g)', TopicOK(g)'
    PROVE  UsedInv'
<1>1. PICK f : TopIs(t, f, stage) /\ GoesOnward(t, f, g, stage)
  BY Onwards
<1>2. /\ LockOK(t, g)' /\ MakeOK(t, g)' /\ CloseOK(g)' /\ CountOK(t, g)' /\ TopicOK(g)'
  OBVIOUS
<1> USE DEF TopIs, GoesOnward
<1>3. f.rest = {} /\ g.rest = {} /\ status' = status /\ born' = born
  BY <1>1 DEF Touches
<1>4. /\ ShapeOK(f) /\ GrownOK(f) /\ QueryOK(t, f) /\ KidsOK(t, f)
  BY <1>1 DEF FunctionOK
<1>5. ShapeOK(g)'
  BY <1>1, <1>3 DEF ShapeOK
<1>6. GrownOK(g)'
  <2>1. Making(f.todo) => Making(g.todo)
    BY <1>1 DEF Lives
  <2>2. Grown(g.e) => Grown(g.e)'
    BY <1>3 DEF Grown
  <2> QED
    BY <1>1, <1>3, <1>4, <2>1, <2>2 DEF GrownOK
<1>7. QueryOK(t, g)'
  <2> SUFFICES ASSUME Kind[g.e] = "query", status[g.e] # "expired"
               PROVE  /\ status[g.e] # "closed"
                      /\ \E h \in Funs(t)' : /\ h.e = Parent[g.e] /\ Inside(h.todo)
                                           /\ h.todo[1] = "each" /\ g.e \notin h.rest
    BY <1>1, <1>3, <1>4 DEF QueryOK
  <2>1. PICK h \in Funs(t) : /\ h.e = Parent[f.e] /\ Inside(h.todo)
                           /\ h.todo[1] = "each" /\ f.e \notin h.rest
    BY <1>1, <1>4 DEF QueryOK
  <2>2. h # f
    <3>1. Parent[f.e] # Nobody
      BY <1>1, TreeAssumption
    <3>2. Rank(Parent[f.e]) < Rank(f.e) /\ Rank(f.e) \in Int
      BY <1>1, <3>1, Ranks
    <3> QED
      BY <2>1, <3>2
  <2> QED
    BY <1>1, <1>4, <2>1, <2>2 DEF QueryOK
<1>8. KidsOK(t, g)'
  <2> SUFFICES ASSUME Inside(g.todo), NEW x \in born, Parent[x] = g.e
               PROVE  \/ Past(x)' \/ Has(g.todo, StageOf(Kind[x]))
                      \/ \E h \in Funs(t)' : h.e = x
    BY <1>3 DEF KidsOK
  <2>1. x \in Entities /\ Kind[x] # "participant" /\ Container[Kind[x]] = Kind[f.e]
        /\ Kind[x] \in Kinds
    BY <1>1, TreeAssumption DEF TreeInv, Typed
  <2>2. StageOf(Kind[x]) \in CopyStages
    BY <2>1 DEF StageOf, Kinds, CopyStages
  <2>3. CASE stage = "lock"
    BY <1>1, <2>1, <2>3, Entered
  <2>4. CASE Inside(f.todo)
    <3>1. Past(x) => Past(x)'
      <4>1. \A h \in Funs(t) : \E k \in Funs(t)' : Lives(h, k)
        BY <1>1 DEF Lives
      <4> QED
        BY <1>1, <1>3, <4>1, PastStays
    <3>2. Has(f.todo, StageOf(Kind[x])) => Has(g.todo, StageOf(Kind[x]))
      BY <1>1, <2>2
    <3>3. (\E h \in Funs(t) : h.e = x) => \E h \in Funs(t)' : h.e = x
      BY <1>1
    <3> QED
      BY <1>1, <1>3, <1>4, <2>4, <3>1, <3>2, <3>3 DEF KidsOK
  <2> QED
    BY <1>1, <2>3, <2>4
<1>9. FunctionOK(t, g)'
  <2>1. DropOK(t, g)'
    BY <1>1, <1>3 DEF FunctionOK, DropOK
  <2> QED
    BY <1>2, <1>5, <1>6, <1>7, <1>8, <2>1 DEF FunctionOK
<1>10. FramesGo(t, f.e)
  <2>1. \A h \in Funs(t) : \E k \in Funs(t)' : Lives(h, k)
    BY <1>1 DEF Lives
  <2>2. \A h \in Funs(t)' : h = g \/ (h \in Funs(t) /\ h # f)
    BY <1>1
  <2>3. \A h \in Funs(t) : h # f => ~Making(h.todo) /\ ~Before(h)
    <3>1. Stacks
      BY DEF TreeInv
    <3> QED
      BY <1>1, <3>1, OnFrames, FirstStages
  <2> QED
    BY <1>1, <1>9, <2>1, <2>2, <2>3 DEF FramesGo
<1>11. Touches(t, f.e)
  BY <1>1
<1> QED
  BY <1>1, <1>10, <1>11, TouchKeeps

-----------------------------------------------------------------------------
(* What counts, is counted, and there are finitely many.                   *)
LEMMA Finite ==
    ASSUME TreeInv, NEW d
    PROVE  /\ IsFiniteSet(Holders(d)) /\ IsFiniteSet(Counted(d)) /\ Holders(d) \subseteq Counted(d)
           /\ Cardinality(Holders(d)) \in Nat /\ Cardinality(Counted(d)) \in Nat
           /\ IsFiniteSet(Dependents)
<1>1. holds \subseteq Dependents /\ Dependents \subseteq Entities /\ IsFiniteSet(Entities)
  BY Ranks, TreeAssumption DEF TreeInv, Typed
<1>2. Counted(d) \subseteq Dependents /\ Holders(d) \subseteq Counted(d)
  BY <1>1 DEF Holders, Counted
<1>3. IsFiniteSet(Dependents) /\ IsFiniteSet(Counted(d))
  BY <1>1, <1>2, FS_Subset
<1>4. IsFiniteSet(Holders(d))
  BY <1>2, <1>3, FS_Subset
<1> QED
  BY <1>2, <1>3, <1>4, FS_CardinalityType

(* The stage says whether a function is a constructor.                     *)
LEMMA StageKind ==
    ASSUME NEW t, NEW f, NEW stage, TopIs(t, f, stage)
    PROVE  /\ stage \in MakingStages <=> Making(f.todo)
           /\ stage \in InsideStages \ {"unregister"} => Inside(f.todo)
           /\ stage \in {"check", "lock"} => Before(f)
           /\ Inside(f.todo) => stage \in InsideStages
           /\ Inside(f.todo) \/ Before(f) \/ Making(f.todo)
           /\ ~(Inside(f.todo) /\ Making(f.todo))
           /\ Before(f) => ~Inside(f.todo) /\ ~Making(f.todo)
           /\ stage # "each" => f.rest = {}
           /\ stage \in Decrements => f.e \in Dependents
<1> USE DEF TopIs
<1>1. /\ stage \in MakingStages => Making(f.todo)
      /\ stage \in InsideStages \ {"unregister"} => Inside(f.todo)
      /\ stage \in {"check", "lock"} => Before(f)
      /\ ~(Inside(f.todo) /\ Making(f.todo))
      /\ Before(f) => ~Inside(f.todo) /\ ~Making(f.todo)
      /\ stage \in Decrements => f.e \in Dependents
  BY FirstStages
<1>2. ASSUME NEW stages, Ends(f.todo, stages)
      PROVE  stage \in stages
  <2>1. 1 \in 1 .. Len(f.todo)
    BY <1>2, EmptySeq DEF Ends
  <2> QED
    BY <1>2, <2>1, ElementOfSeq DEF Ends
<1>3. (Making(f.todo) => stage \in MakingStages) /\ (Inside(f.todo) => stage \in InsideStages)
  BY <1>2 DEF Making, Inside
<1>4. stage # "each" => f.rest = {}
  BY DEF FunctionOK, ShapeOK
<1>5. Inside(f.todo) \/ Before(f) \/ Making(f.todo)
  BY DEF FrameOK
<1> QED
  BY <1>1, <1>3, <1>4, <1>5

(* A step that touches nothing but the stack and what the thread has read. *)
OnlyStack(t) ==
    /\ UNCHANGED <<owner, status, born, members, nrDependents, holds>>
    /\ \A u \in Threads \ {t} : seen'[u] = seen[u]

LEMMA StillTouches ==
    ASSUME TreeInv, UsedInv, NEW t \in Threads, NEW e \in Entities, OnlyStack(t)
    PROVE  Touches(t, e)
<1>1. UNCHANGED <<owner, status, born, members, nrDependents, holds>>
  BY DEF OnlyStack
<1>2. \A d : Holders(d)' = Holders(d) /\ Counted(d)' = Counted(d)
  BY <1>1 DEF Holders, Counted, Grown
<1>3. \A u \in Threads \ {t} : \A f \in Funs(u) : CountOK(u, f)'
  <2>1. \A u \in Threads : \A f \in Funs(u) : CountOK(u, f)
    BY DEF UsedInv, FunctionOK
  <2> QED
    BY <1>2, <2>1 DEF CountOK, OnlyStack
<1>4. CountersOK'
  BY <1>1, <1>2 DEF UsedInv, CountersOK
<1> QED
  BY <1>1, <1>2, <1>3, <1>4 DEF Touches

(* A stage that only looks.                                                *)
LEMMA Walks ==
    ASSUME TreeInv, TreeInv', UsedInv, NEW t \in Threads, NEW stage,
           stage \notin Last3 \cup CopyStages \cup {"lock", "incr", "register"},
           At(t, stage), Advance(t), OnlyStack(t), stage = "each" => Rest(t) = {},
           stage = "handleParent" => status[Parent[Self(t)]] # "closed",
           stage = "handleTopic" => status[TopicOf[Self(t)]] # "closed",
           stage = "dependents" => nrDependents[Self(t)] = 0,
           stage \in {"readDecr", "readIncr"} =>
               seen'[t] = nrDependents[TopicOf[Self(t)]]
    PROVE  UsedInv'
<1>0. PICK f, g : g = NextFrame(t) /\ TopIs(t, f, stage) /\ GoesOnward(t, f, g, stage)
  BY Onwards
<1> USE DEF TopIs, GoesOnward
<1>1. /\ UNCHANGED <<owner, status, born, members, nrDependents, holds>>
      /\ \A d : Holders(d)' = Holders(d) /\ Counted(d)' = Counted(d)
  BY DEF OnlyStack, Holders, Counted, Grown
<1>2. /\ LockOK(t, f) /\ MakeOK(t, f) /\ CloseOK(f) /\ TopicOK(f)
      /\ f.rest = {} /\ g.rest = {}
  BY <1>0, StageKind DEF FunctionOK
<1>3. LockOK(t, g)'
  BY <1>0, <1>1, <1>2 DEF LockOK
<1>4. MakeOK(t, g)'
  <2> SUFFICES ASSUME Making(g.todo)
               PROVE  MakeOK(t, g)'
    BY DEF MakeOK
  <2>1. \A s : s # stage => (Has(g.todo, s) <=> Has(f.todo, s)) \/ s = "each"
    BY <1>0 DEF Lives
  <2>2. /\ Has(g.todo, "handleParent") \/ status[Parent[g.e]] # "closed"
        /\ Has(g.todo, "handleTopic") \/ status[TopicOf[g.e]] # "closed"
        /\ Has(g.todo, "incr") <=> g.e \notin holds
        /\ Has(g.todo, "register") \/ g.e \in members[Parent[g.e]]
    BY <1>0, <1>2, <2>1 DEF MakeOK
  <2>3. ASSUME NEW u \in Threads, NEW h \in Funs(u)', h.e = g.e, Making(h.todo)
        PROVE  u = t
    BY <1>0, <1>2, <2>3 DEF MakeOK
  <2> QED
    BY <1>0, <1>1, <1>2, <2>2, <2>3 DEF MakeOK
<1>5. CloseOK(g)'
  <2>1. \A s : s # "each" => (Has(g.todo, s) => Has(f.todo, s))
    BY <1>0 DEF Lives
  <2> QED
    BY <1>0, <1>1, <1>2, <2>1 DEF CloseOK
<1>6. CountOK(t, g)'
  <2> SUFFICES ASSUME g.todo[1] \in {"decr", "incr"}
               PROVE  CountOK(t, g)'
    BY DEF CountOK
  <2>1. stage \in {"readDecr", "readIncr"}
    BY <1>0
  <2>2. f.e \in Dependents
    BY <1>0, <2>1, StageKind, Ranks, FirstStages DEF Decrements, MakingStages
  <2>3. TopicOf[f.e] \in Entities
    BY <2>2, Ranks
  <2> QED
    BY <1>0, <1>1, <2>1, <2>3 DEF CountOK, UsedInv, CountersOK
<1>7. TopicOK(g)'
  <2> SUFFICES ASSUME Kind[f.e] = "topic", Inside(g.todo), ~Has(g.todo, "dependents")
               PROVE  Holders(f.e) = {}
    BY <1>0, <1>1 DEF TopicOK
  <2>1. CASE stage = "dependents"
    <3>1. Cardinality(Holders(f.e)) <= 0
      BY <1>0, <2>1 DEF UsedInv, CountersOK
    <3>2. Cardinality(Holders(f.e)) = 0
      BY <3>1, Finite
    <3> QED
      BY <3>2, Finite, FS_EmptySet
  <2>2. CASE stage # "dependents"
    BY <1>0, <1>2, <2>2 DEF TopicOK
  <2> QED
    BY <2>1, <2>2
<1>8. Touches(t, Self(t))
  BY <1>0, StillTouches
<1> QED
  BY <1>0, <1>2, <1>3, <1>4, <1>5, <1>6, <1>7, <1>8, OnwardKeeps

(* A stage ends with an exception.                                         *)
Throws(t) ==
    /\ Raise(t)
    /\ \E stage \in {"check", "lock", "dependents", "listener", "readDecr", "handleParent",
                     "handleTopic", "create"} :
          /\ At(t, stage)
          /\ stage = "readDecr" => Kind[Self(t)] = "reader" /\ Self(t) \notin holds
          /\ stage \in {"check", "lock"} => status[Self(t)] = "closed"

(* lock: what closes, has had nothing done to it.                          *)
LEMMA LockKeeps ==
    ASSUME TreeInv, TreeInv', UsedInv, NEW t \in Threads, Lock(t), ~Throws(t)
    PROVE  UsedInv'
<1>1. /\ At(t, "lock") /\ owner[Self(t)] = Nobody /\ status[Self(t)] # "closed"
      /\ owner' = [owner EXCEPT ![Self(t)] = t] /\ Advance(t)
      /\ UNCHANGED <<seen, status, born, enabled, members, nrDependents, holds, alive>>
  BY DEF Lock, Throws
<1>2. "lock" \notin Last3 \cup CopyStages
  BY DEF Last3, CopyStages
<1>0. PICK f, g : g = NextFrame(t) /\ TopIs(t, f, "lock") /\ GoesOnward(t, f, g, "lock")
  BY <1>1, <1>2, Onwards
<1> USE DEF TopIs, GoesOnward
<1>3. /\ \A d : Holders(d)' = Holders(d) /\ Counted(d)' = Counted(d)
      /\ \A x \in Entities : owner'[x] = IF x = f.e THEN t ELSE owner[x]
  BY <1>0, <1>1 DEF Holders, Counted, Grown, TreeInv, Typed
<1>4. /\ Before(f) /\ Inside(g.todo) /\ ~Making(g.todo) /\ f.rest = {} /\ g.rest = {}
  <2>1. Before(f) /\ Inside(g.todo) /\ ~Making(f.todo) /\ f.rest = {}
    BY <1>0, StageKind
  <2> QED
    BY <1>0, <2>1
<1>5. Intact(f.e)
  BY <1>0, <1>1, <1>4 DEF UsedInv, Fresh
<1>6. LockOK(t, g)' /\ MakeOK(t, g)'
  BY <1>0, <1>1, <1>3, <1>4 DEF LockOK, MakeOK
<1>7. CloseOK(g)'
  <2>1. Has(g.todo, "decr") => g.e \in Dependents
    BY <1>0 DEF FrameOK, Has
  <2> QED
    BY <1>0, <1>1, <1>4, <1>5, <2>1 DEF CloseOK, Intact
<1>8. CountOK(t, g)'
  BY <1>0 DEF CountOK
<1>9. TopicOK(g)'
  BY <1>0, Entered DEF TopicOK
<1>10. Touches(t, Self(t))
  <2>1. \A u \in Threads \ {t} : \A h \in Funs(u) : CountOK(u, h)'
    <3>1. \A u \in Threads : \A h \in Funs(u) : CountOK(u, h)
      BY DEF UsedInv, FunctionOK
    <3> QED
      BY <1>1, <1>3, <3>1 DEF CountOK
  <2>2. CountersOK'
    BY <1>1, <1>3 DEF UsedInv, CountersOK
  <2> QED
    BY <1>0, <1>1, <1>3, <2>1, <2>2 DEF Touches
<1>11. Rest(t) = {}
  BY <1>0, <1>4
<1> QED
  BY <1>0, <1>1, <1>2, <1>6, <1>7, <1>8, <1>9, <1>10, <1>11, OnwardKeeps

(* A function that is not in a loop is the innermost one.                  *)
LEMMA TopOnly ==
    ASSUME TreeInv, NEW u \in Threads, NEW h \in Funs(u), h.todo[1] # "each"
    PROVE  h = Innermost(u) /\ At(u, h.todo[1])
<1>1. Stacks
  BY DEF TreeInv
<1>2. Busy(u)
  BY <1>1, OnFrames DEF Busy
<1>3. h = Innermost(u)
  BY <1>1, <1>2, OnTop
<1> QED
  BY <1>2, <1>3 DEF At

(* unregister                                                              *)
LEMMA UnregisterKeeps ==
    ASSUME TreeInv, TreeInv', UsedInv, NEW t \in Threads, Unregister(t)
    PROVE  UsedInv'
<1>1. /\ At(t, "unregister") /\ members' = [e \in Entities |-> members[e] \ {Self(t)}]
      /\ Advance(t) /\ UNCHANGED <<seen, owner, status, born, enabled, nrDependents, holds, alive>>
  BY DEF Unregister
<1>2. "unregister" \notin Last3 \cup CopyStages
  BY DEF Last3, CopyStages
<1>0. PICK f, g : /\ g = NextFrame(t) /\ TopIs(t, f, "unregister")
                  /\ GoesOnward(t, f, g, "unregister")
  BY <1>1, <1>2, Onwards
<1> USE DEF TopIs, GoesOnward
<1>3. /\ \A d : Holders(d)' = Holders(d) /\ Counted(d)' = Counted(d)
      /\ \A p \in Entities : members'[p] = members[p] \ {f.e}
  BY <1>0, <1>1 DEF Holders, Counted, Grown
<1>4. ~Making(f.todo) /\ ~Making(g.todo) /\ f.rest = {} /\ g.rest = {}
  BY <1>0, StageKind DEF MakingStages
<1>5. /\ LockOK(t, f) /\ CloseOK(f) /\ TopicOK(f) /\ QueryOK(t, f) /\ ShapeOK(f)
  BY <1>0 DEF FunctionOK
<1>6. LockOK(t, g)' /\ MakeOK(t, g)' /\ TopicOK(g)' /\ CountOK(t, g)'
  BY <1>0, <1>1, <1>3, <1>4, <1>5 DEF LockOK, MakeOK, TopicOK, CountOK
<1>7. CloseOK(g)'
  <2> SUFFICES ASSUME Inside(g.todo)
               PROVE  CloseOK(g)'
    BY DEF CloseOK
  <2>1. Inside(f.todo) /\ Shaped(Kind[f.e], f.todo)
    BY <1>0, <1>5 DEF ShapeOK
  <2>2. ~Has(g.todo, "unregister")
    BY <1>0, <2>1, Shapes DEF StageFacts
  <2>3. \A s : s # "each" => (Has(g.todo, s) => Has(f.todo, s))
    BY <1>0 DEF Lives
  <2> QED
    BY <1>0, <1>1, <1>4, <1>5, <2>1, <2>2, <2>3 DEF CloseOK
<1>8. Touches(t, Self(t))
  <2>1. owner[f.e] = t \/ status[f.e] = "expired"
    <3>1. CASE Inside(f.todo)
      BY <1>5, <3>1 DEF LockOK
    <3>2. CASE Before(f)
      <4>1. Kind[f.e] = "query"
        BY <1>0, <3>2, BeforeGoes
      <4> QED
        BY <1>0, <1>5, <3>2, <4>1 DEF QueryOK
    <3> QED
      BY <1>0, <1>4, <3>1, <3>2 DEF FrameOK
  <2>2. \A u \in Threads \ {t} : \A h \in Funs(u) : CountOK(u, h)'
    <3>1. \A u \in Threads : \A h \in Funs(u) : CountOK(u, h)
      BY DEF UsedInv, FunctionOK
    <3> QED
      BY <1>1, <1>3, <3>1 DEF CountOK
  <2>3. CountersOK'
    BY <1>1, <1>3 DEF UsedInv, CountersOK
  <2> QED
    BY <1>0, <1>1, <1>3, <2>1, <2>2, <2>3 DEF Touches
<1>9. Rest(t) = {}
  BY <1>0, <1>4
<1> QED
  BY <1>0, <1>1, <1>2, <1>6, <1>7, <1>8, <1>9, OnwardKeeps

(* register                                                                *)
LEMMA RegisterKeeps ==
    ASSUME TreeInv, TreeInv', UsedInv, NEW t \in Threads, Register(t)
    PROVE  UsedInv'
<1>1. /\ At(t, "register") /\ Advance(t)
      /\ members' = [members EXCEPT ![Parent[Self(t)]] = @ \cup {Self(t)}]
      /\ UNCHANGED <<seen, owner, status, born, enabled, nrDependents, holds, alive>>
  BY DEF Register
<1>2. "register" \notin Last3 \cup CopyStages
  BY DEF Last3, CopyStages
<1>0. PICK f, g : /\ g = NextFrame(t) /\ TopIs(t, f, "register")
                  /\ GoesOnward(t, f, g, "register")
  BY <1>1, <1>2, Onwards
<1> USE DEF TopIs, GoesOnward
<1>3. \A d : Holders(d)' = Holders(d) /\ Counted(d)' = Counted(d)
  BY <1>1 DEF Holders, Counted, Grown
<1>4. /\ Making(f.todo) /\ Making(g.todo) /\ ~Inside(g.todo) /\ f.rest = {} /\ g.rest = {}
  <2>1. Making(f.todo) /\ f.rest = {}
    BY <1>0, StageKind DEF MakingStages
  <2>2. Making(g.todo)
    BY <1>0, <2>1 DEF Lives
  <2> QED
    BY <1>0, <2>1, <2>2, FirstStages
<1>5. MakeOK(t, f) /\ ShapeOK(f)
  BY <1>0 DEF FunctionOK
<1>6. f.e \in Endpoints /\ Parent[f.e] \in Entities
  BY <1>4, <1>5, CallsAssumption, Ranks DEF MakeOK
<1>7. \A p \in Entities :
          members'[p] = IF p = Parent[f.e] THEN members[p] \cup {f.e} ELSE members[p]
  BY <1>0, <1>1, <1>6 DEF TreeInv, Typed
<1>8. ~Has(g.todo, "register")
  <2>1. f.todo \in MakingOf(Kind[f.e])
    BY <1>4, <1>5 DEF ShapeOK
  <2> QED
    BY <1>0, <2>1, MakingShapes DEF MakingFacts
<1>9. MakeOK(t, g)'
  <2>1. \A s : s # "register" => (Has(g.todo, s) <=> Has(f.todo, s)) \/ s = "each"
    BY <1>0 DEF Lives
  <2>2. ASSUME NEW u \in Threads, NEW h \in Funs(u)', h.e = g.e, Making(h.todo)
        PROVE  u = t
    BY <1>0, <1>4, <1>5, <2>2 DEF MakeOK
  <2>3. g.e \in members'[Parent[g.e]]
    BY <1>0, <1>6, <1>7
  <2>4. /\ Has(g.todo, "handleParent") \/ status[Parent[g.e]] # "closed"
        /\ Has(g.todo, "handleTopic") \/ status[TopicOf[g.e]] # "closed"
        /\ Has(g.todo, "incr") <=> g.e \notin holds
    BY <1>0, <1>4, <1>5, <2>1 DEF MakeOK
  <2> QED
    BY <1>0, <1>1, <1>4, <1>5, <2>2, <2>3, <2>4 DEF MakeOK
<1>10. LockOK(t, g)' /\ TopicOK(g)' /\ CountOK(t, g)' /\ CloseOK(g)'
  BY <1>0, <1>4 DEF LockOK, TopicOK, CountOK, CloseOK
<1>11. Touches(t, Self(t))
  <2>1. \A u \in Threads \ {t} : \A h \in Funs(u) : CountOK(u, h)'
    <3>1. \A u \in Threads : \A h \in Funs(u) : CountOK(u, h)
      BY DEF UsedInv, FunctionOK
    <3> QED
      BY <1>1, <1>3, <3>1 DEF CountOK
  <2>2. CountersOK'
    BY <1>1, <1>3 DEF UsedInv, CountersOK
  <2>3. \E h \in Funs(t)' : h.e = f.e /\ Making(h.todo) /\ ~Has(h.todo, "register")
    BY <1>0, <1>4, <1>8
  <2> QED
    BY <1>0, <1>1, <1>3, <1>4, <1>7, <2>1, <2>2, <2>3 DEF Touches
<1>12. Rest(t) = {}
  BY <1>0, <1>4
<1> QED
  BY <1>0, <1>1, <1>2, <1>9, <1>10, <1>11, <1>12, OnwardKeeps

(* nrDependents--                                                          *)
LEMMA DecrKeeps ==
    ASSUME TreeInv, TreeInv', UsedInv, NEW t \in Threads, Decr(t)
    PROVE  UsedInv'
<1>1. /\ At(t, "decr") /\ Advance(t)
      /\ nrDependents' = [nrDependents EXCEPT ![TopicOf[Self(t)]] = Less(seen[t])]
      /\ holds' = holds \ {Self(t)}
      /\ seen' = [seen EXCEPT ![t] = 0]
      /\ UNCHANGED <<owner, status, born, enabled, members, alive>>
  BY DEF Decr
<1>2. "decr" \notin Last3 \cup CopyStages
  BY DEF Last3, CopyStages
<1>0. PICK f, g : g = NextFrame(t) /\ TopIs(t, f, "decr") /\ GoesOnward(t, f, g, "decr")
  BY <1>1, <1>2, Onwards
<1> USE DEF TopIs, GoesOnward
<1> DEFINE e == f.e
           d == TopicOf[f.e]
<1>3. /\ Inside(f.todo) /\ ~Making(g.todo) /\ f.rest = {} /\ g.rest = {} /\ e \in Dependents
  BY <1>0, StageKind DEF InsideStages, Decrements
<1>4. /\ ShapeOK(f) /\ LockOK(t, f) /\ CloseOK(f) /\ CountOK(t, f) /\ GrownOK(f)
  BY <1>0 DEF FunctionOK
<1>5. e \in holds /\ Grown(e) /\ owner[e] = t
  <2>1. Has(f.todo, "decr")
    BY <1>0, HasTail
  <2> QED
    BY <1>0, <1>3, <1>4, <2>1, StageKind DEF CloseOK, GrownOK, LockOK
<1>6. d \in Entities /\ Kind[e] # "topic"
  BY <1>3, Ranks DEF Dependents
<1>7. /\ \A c : Counted(c)' = Counted(c)
      /\ \A c : c # d => Holders(c)' = Holders(c)
      /\ Holders(d)' = Holders(d) \ {e} /\ e \in Holders(d)
  BY <1>0, <1>1, <1>5 DEF Holders, Counted, Grown
<1>8. /\ Cardinality(Holders(d)') = Cardinality(Holders(d)) - 1
      /\ Cardinality(Holders(d)) \in Nat /\ Cardinality(Counted(d)) \in Nat
  BY <1>7, Finite, FS_RemoveElement
<1>9. Cardinality(Holders(d)) <= seen[t] /\ seen[t] <= Cardinality(Counted(d)) /\ seen[t] \in Nat
  <2>1. seen[t] \in 0 .. MaxDependents
    BY DEF TreeInv, Typed
  <2> QED
    BY <1>0, <1>4, <2>1, MaxAssumption DEF CountOK
<1>10. Less(seen[t]) = seen[t] - 1
  <2>1. Cardinality(Holders(d)) # 0
    BY <1>7, Finite, FS_EmptySet
  <2> QED
    BY <1>8, <1>9, <2>1 DEF Less
<1>11. /\ nrDependents'[d] = seen[t] - 1
       /\ \A c \in Entities : c # d => nrDependents'[c] = nrDependents[c]
  BY <1>0, <1>1, <1>6, <1>10 DEF TreeInv, Typed
<1> HIDE DEF e, d
<1>12. CountersOK'
  <2>1. ASSUME NEW c \in Entities
        PROVE  /\ Cardinality(Holders(c)') <= nrDependents'[c]
               /\ nrDependents'[c] <= Cardinality(Counted(c)')
    <3>1. CASE c = d
      BY <1>7, <1>8, <1>9, <1>11, <3>1
    <3>2. CASE c # d
      BY <1>7, <1>11, <3>2 DEF UsedInv, CountersOK
    <3> QED
      BY <3>1, <3>2
  <2> QED
    BY <2>1 DEF CountersOK
<1>13. \A u \in Threads \ {t} : \A h \in Funs(u) : CountOK(u, h)'
  <2> SUFFICES ASSUME NEW u \in Threads \ {t}, NEW h \in Funs(u), h.todo[1] \in {"decr", "incr"}
               PROVE  /\ Cardinality(Holders(TopicOf[h.e])') <= seen'[u]
                      /\ seen'[u] <= Cardinality(Counted(TopicOf[h.e])')
    BY DEF CountOK
  <2>1. CountOK(u, h) /\ seen'[u] = seen[u] /\ seen[u] \in Int
    <3>1. seen[u] \in 0 .. MaxDependents
      BY DEF TreeInv, Typed
    <3> QED
      BY <1>1, <3>1, MaxAssumption DEF UsedInv, FunctionOK, TreeInv, Typed
  <2>2. CASE TopicOf[h.e] = d
    <3>1. /\ Cardinality(Holders(d)) <= seen[u] /\ seen[u] <= Cardinality(Counted(d))
      BY <2>1, <2>2 DEF CountOK
    <3>2. /\ Cardinality(Holders(d)') <= seen'[u]
          /\ seen'[u] <= Cardinality(Counted(d)')
      BY <1>7, <1>8, <2>1, <3>1
    <3> QED
      BY <2>2, <3>2
  <2>3. CASE TopicOf[h.e] # d
    BY <1>7, <2>1, <2>3 DEF CountOK
  <2> QED
    BY <2>2, <2>3
<1>14. Touches(t, Self(t))
  <2>1. \A c : Holders(c)' \subseteq Holders(c)
    BY <1>1 DEF Holders
  <2> QED
    <3>1. Self(t) = f.e /\ owner[f.e] = t
      BY <1>0, <1>5 DEF e
    <3>2. \A x \in Entities \ {f.e} : x \in holds' <=> x \in holds
      BY <1>0, <1>1
    <3>3. UNCHANGED <<status, born, owner, members>>
      BY <1>1
    <3> QED
      BY <1>12, <1>13, <2>1, <3>1, <3>2, <3>3 DEF Touches
<1>15. LockOK(t, g)' /\ MakeOK(t, g)' /\ CountOK(t, g)' /\ TopicOK(g)'
  BY <1>0, <1>1, <1>3, <1>4, <1>6 DEF LockOK, MakeOK, CountOK, TopicOK, e
<1>16. CloseOK(g)'
  <2>1. ~Has(g.todo, "decr")
    <3>1. Shaped(Kind[f.e], f.todo)
      BY <1>3, <1>4 DEF ShapeOK
    <3> QED
      BY <1>0, <3>1, Shapes DEF StageFacts
  <2>2. \A s : s # "each" => (Has(g.todo, s) => Has(f.todo, s))
    BY <1>0 DEF Lives
  <2> QED
    BY <1>0, <1>1, <1>3, <1>4, <2>1, <2>2 DEF CloseOK
<1>17. Rest(t) = {}
  BY <1>0, <1>3
<1> QED
  BY <1>0, <1>1, <1>2, <1>14, <1>15, <1>16, <1>17, OnwardKeeps

(* nrDependents++                                                          *)
LEMMA IncrKeeps ==
    ASSUME TreeInv, TreeInv', UsedInv, CreatesAlone, NEW t \in Threads, Incr(t)
    PROVE  UsedInv'
<1>1. /\ At(t, "incr") /\ Advance(t)
      /\ nrDependents' = [nrDependents EXCEPT ![TopicOf[Self(t)]] = More(seen[t])]
      /\ holds' = holds \cup {Self(t)}
      /\ seen' = [seen EXCEPT ![t] = 0]
      /\ UNCHANGED <<owner, status, born, enabled, members, alive>>
  BY DEF Incr
<1>2. "incr" \notin Last3 \cup CopyStages
  BY DEF Last3, CopyStages
<1>0. PICK f, g : g = NextFrame(t) /\ TopIs(t, f, "incr") /\ GoesOnward(t, f, g, "incr")
  BY <1>1, <1>2, Onwards
<1> USE DEF TopIs, GoesOnward
<1> DEFINE e == f.e
           d == TopicOf[f.e]
<1>3. /\ Making(f.todo) /\ Making(g.todo) /\ ~Inside(g.todo) /\ f.rest = {} /\ g.rest = {}
  <2>1. Making(f.todo) /\ f.rest = {}
    BY <1>0, StageKind DEF MakingStages
  <2>2. Making(g.todo)
    BY <1>0, <2>1 DEF Lives
  <2> QED
    BY <1>0, <2>1, <2>2, FirstStages
<1>4. MakeOK(t, f) /\ ShapeOK(f) /\ CountOK(t, f)
  BY <1>0 DEF FunctionOK
<1>5. ~Has(g.todo, "incr") /\ ~Has(f.todo, "handleTopic") /\ Has(f.todo, "incr")
  <2>1. f.todo \in MakingOf(Kind[f.e])
    BY <1>3, <1>4 DEF ShapeOK
  <2> QED
    BY <1>0, <2>1, MakingShapes, HasTail DEF MakingFacts
<1>6. /\ e \in Endpoints /\ e \in Dependents /\ d \in Entities /\ Kind[d] \in {"topic", "cft"}
      /\ e \notin holds /\ status[e] = "open" /\ e \notin born /\ status[d] # "closed" /\ d # e
  <2>1. e \in Endpoints
    BY <1>3, <1>4, CallsAssumption DEF MakeOK
  <2>2. e \in Dependents /\ d \in Entities /\ Kind[d] \in {"topic", "cft"}
    BY <2>1, Ranks, TreeAssumption
  <2> QED
    BY <1>3, <1>4, <1>5, <2>1, <2>2 DEF MakeOK, Endpoints
<1>7. /\ \A c : c # d => Holders(c)' = Holders(c) /\ Counted(c)' = Counted(c)
      /\ Holders(d)' = Holders(d) \cup {e} /\ e \notin Holders(d)
      /\ Counted(d)' = Counted(d) \cup {e} /\ e \notin Counted(d)
  BY <1>0, <1>1, <1>6 DEF Holders, Counted, Grown
<1>8. /\ Cardinality(Holders(d)') = Cardinality(Holders(d)) + 1
      /\ Cardinality(Counted(d)') = Cardinality(Counted(d)) + 1
      /\ Cardinality(Holders(d)) \in Nat /\ Cardinality(Counted(d)) \in Nat
  BY <1>7, Finite, FS_AddElement
<1>9. Cardinality(Counted(d)) < MaxDependents
  <2> DEFINE all == {x \in Dependents : TopicOf[x] = d}
  <2>1. Counted(d)' \subseteq all
    BY DEF Counted
  <2>2. IsFiniteSet(all)
    BY Finite, FS_Subset
  <2>3. Cardinality(Counted(d)') <= Cardinality(all)
    BY <2>1, <2>2, FS_Subset
  <2>4. Cardinality(all) \in 0 .. MaxDependents
    BY <1>6, MaxAssumption
  <2> HIDE DEF all, d
  <2> QED
    BY <1>8, <2>3, <2>4, MaxAssumption
<1>10. Cardinality(Holders(d)) <= seen[t] /\ seen[t] <= Cardinality(Counted(d)) /\ seen[t] \in Nat
  <2>1. seen[t] \in 0 .. MaxDependents
    BY DEF TreeInv, Typed
  <2> QED
    BY <1>0, <1>4, <2>1, MaxAssumption DEF CountOK
<1>11. /\ nrDependents'[d] = seen[t] + 1
       /\ \A c \in Entities : c # d => nrDependents'[c] = nrDependents[c]
  <2>1. More(seen[t]) = seen[t] + 1
    BY <1>8, <1>9, <1>10, MaxAssumption DEF More
  <2> QED
    BY <1>0, <1>1, <1>6, <2>1 DEF TreeInv, Typed
<1>12. /\ \A u \in Threads \ {t} : \A h \in Funs(u) : h.e # d
       /\ \A u \in Threads \ {t} : At(u, "incr") \/ At(u, "decr") => TopicOf[Self(u)] # d
  BY <1>0, <1>1 DEF CreatesAlone, MakingStages
<1> HIDE DEF e, d
<1>13. CountersOK'
  <2>1. ASSUME NEW c \in Entities
        PROVE  /\ Cardinality(Holders(c)') <= nrDependents'[c]
               /\ nrDependents'[c] <= Cardinality(Counted(c)')
    <3>1. CASE c = d
      BY <1>8, <1>10, <1>11, <3>1
    <3>2. CASE c # d
      BY <1>7, <1>11, <3>2 DEF UsedInv, CountersOK
    <3> QED
      BY <3>1, <3>2
  <2> QED
    BY <2>1 DEF CountersOK
<1>14. \A u \in Threads \ {t} : \A h \in Funs(u) : CountOK(u, h)'
  <2> SUFFICES ASSUME NEW u \in Threads \ {t}, NEW h \in Funs(u), h.todo[1] \in {"decr", "incr"}
               PROVE  /\ Cardinality(Holders(TopicOf[h.e])') <= seen'[u]
                      /\ seen'[u] <= Cardinality(Counted(TopicOf[h.e])')
    BY DEF CountOK
  <2>1. CountOK(u, h) /\ seen'[u] = seen[u]
    BY <1>1 DEF UsedInv, FunctionOK, TreeInv, Typed
  <2>2. TopicOf[h.e] # d
    <3>1. h = Innermost(u) /\ At(u, h.todo[1])
      BY TopOnly
    <3> QED
      BY <1>12, <3>1 DEF Self
  <2> QED
    BY <1>7, <2>1, <2>2 DEF CountOK
<1>15. Touches(t, Self(t))
  <2>1. \A u \in Threads : \A h \in Funs(u) : h.e # d
    BY <1>0, <1>3, <1>6, <1>12 DEF e
  <2>2. \A c : Holders(c)' \subseteq Holders(c) \/ c = d
    BY <1>7
  <2> QED
    BY <1>0, <1>1, <1>3, <1>6, <1>13, <1>14, <2>1, <2>2 DEF Touches, e
<1>16. LockOK(t, g)' /\ CloseOK(g)' /\ CountOK(t, g)' /\ TopicOK(g)'
  BY <1>0, <1>3 DEF LockOK, CloseOK, CountOK, TopicOK
<1>17. MakeOK(t, g)'
  <2>1. \A s : s # "incr" => (Has(g.todo, s) <=> Has(f.todo, s)) \/ s = "each"
    BY <1>0 DEF Lives
  <2>2. ASSUME NEW u \in Threads, NEW h \in Funs(u)', h.e = g.e, Making(h.todo)
        PROVE  u = t
    BY <1>0, <1>3, <1>4, <2>2 DEF MakeOK
  <2>3. g.e \in holds' /\ ~Has(g.todo, "incr")
    BY <1>0, <1>1, <1>5
  <2>4. /\ Has(g.todo, "handleParent") \/ status[Parent[g.e]] # "closed"
        /\ Has(g.todo, "handleTopic") \/ status[TopicOf[g.e]] # "closed"
        /\ Has(g.todo, "register") \/ g.e \in members[Parent[g.e]]
    BY <1>0, <1>3, <1>4, <2>1 DEF MakeOK
  <2> QED
    BY <1>0, <1>1, <1>3, <1>4, <2>2, <2>3, <2>4 DEF MakeOK
<1>18. Rest(t) = {}
  BY <1>0, <1>3
<1> QED
  BY <1>0, <1>1, <1>2, <1>15, <1>16, <1>17, <1>18, OnwardKeeps

-----------------------------------------------------------------------------
(* The stages that only look.                                              *)
LEMMA LooksKeep ==
    ASSUME TreeInv, TreeInv', UsedInv, NEW t \in Threads, ~Throws(t),
           \/ Check(t) \/ EachDone(t) \/ HasDependents(t) \/ Listener(t) \/ ReadDecr(t)
           \/ HandleParent(t) \/ HandleTopic(t) \/ CreateC(t) \/ ReadIncr(t)
           \/ (AutoEnable(t) /\ ~Destroy(t))
    PROVE  UsedInv'
<1> DEFINE Looks == {"check", "each", "dependents", "listener", "readDecr", "handleParent",
                       "handleTopic", "create", "readIncr", "autoEnable"}
<1>1. \A stage \in Looks : stage \notin Last3 \cup CopyStages \cup {"lock", "incr", "register"}
  BY DEF Last3, CopyStages
<1>2. seen \in [Threads -> 0 .. MaxDependents]
  BY DEF TreeInv, Typed
<1>3. CASE Check(t)
  <2>1. At(t, "check") /\ Advance(t) /\ OnlyStack(t)
    BY <1>3 DEF Check, Throws, OnlyStack
  <2> QED
    BY <1>1, <2>1, Walks
<1>4. CASE EachDone(t)
  <2>1. At(t, "each") /\ Advance(t) /\ OnlyStack(t) /\ Rest(t) = {}
    BY <1>4 DEF EachDone, OnlyStack
  <2> QED
    BY <1>1, <2>1, Walks
<1>5. CASE HasDependents(t)
  <2>1. At(t, "dependents") /\ Advance(t) /\ OnlyStack(t) /\ ~(nrDependents[Self(t)] > 0)
    BY <1>5 DEF HasDependents, Throws, OnlyStack
  <2>2. Self(t) \in Entities
    BY <2>1, Tops DEF TopIs
  <2>3. nrDependents[Self(t)] = 0
    BY <2>1, <2>2, MaxAssumption DEF TreeInv, Typed
  <2> QED
    BY <1>1, <2>1, <2>3, Walks
<1>6. CASE Listener(t)
  <2>1. At(t, "listener") /\ Advance(t) /\ OnlyStack(t)
    BY <1>6 DEF Listener, Throws, OnlyStack
  <2> QED
    BY <1>1, <2>1, Walks
<1>7. CASE ReadDecr(t)
  <2>1. /\ At(t, "readDecr") /\ Advance(t)
        /\ seen' = [seen EXCEPT ![t] = nrDependents[TopicOf[Self(t)]]]
        /\ UNCHANGED <<owner, status, born, members, nrDependents, holds>>
    BY <1>7 DEF ReadDecr, Throws
  <2>2. OnlyStack(t) /\ seen'[t] = nrDependents[TopicOf[Self(t)]]
    BY <1>2, <2>1 DEF OnlyStack
  <2> QED
    BY <1>1, <2>1, <2>2, Walks
<1>8. CASE HandleParent(t)
  <2>1. At(t, "handleParent") /\ Advance(t) /\ OnlyStack(t) /\ status[Parent[Self(t)]] # "closed"
    BY <1>8 DEF HandleParent, HandleOf, Throws, OnlyStack
  <2> QED
    BY <1>1, <2>1, Walks
<1>9. CASE HandleTopic(t)
  <2>1. At(t, "handleTopic") /\ Advance(t) /\ OnlyStack(t) /\ status[TopicOf[Self(t)]] # "closed"
    BY <1>9 DEF HandleTopic, HandleOf, Throws, OnlyStack
  <2> QED
    BY <1>1, <2>1, Walks
<1>10. CASE CreateC(t)
  <2>1. At(t, "create") /\ Advance(t) /\ OnlyStack(t)
    BY <1>10 DEF CreateC, Throws, OnlyStack
  <2> QED
    BY <1>1, <2>1, Walks
<1>11. CASE ReadIncr(t)
  <2>1. /\ At(t, "readIncr") /\ Advance(t)
        /\ seen' = [seen EXCEPT ![t] = nrDependents[TopicOf[Self(t)]]]
        /\ UNCHANGED <<owner, status, born, members, nrDependents, holds>>
    BY <1>11 DEF ReadIncr
  <2>2. OnlyStack(t) /\ seen'[t] = nrDependents[TopicOf[Self(t)]]
    BY <1>2, <2>1 DEF OnlyStack
  <2> QED
    BY <1>1, <2>1, <2>2, Walks
<1>12. CASE AutoEnable(t) /\ ~Destroy(t)
  <2>1. At(t, "autoEnable") /\ Advance(t) /\ OnlyStack(t)
    BY <1>12 DEF AutoEnable, OnlyStack
  <2> QED
    BY <1>1, <2>1, Walks
<1> QED
  BY <1>3, <1>4, <1>5, <1>6, <1>7, <1>8, <1>9, <1>10, <1>11, <1>12

(* The innermost function goes on as g.                                    *)
LEMMA TopGoes ==
    ASSUME TreeInv, NEW t \in Threads, Busy(t), NEW g \in Frames, GoOn(t, g)
    PROVE  /\ \A u \in Threads \ {t} : Funs(u)' = Funs(u)
           /\ Funs(t)' = {g} \cup (Funs(t) \ {Innermost(t)})
<1>0. PICK r : r = <<g>> \o Tail(stack[t])
  OBVIOUS
<1>1. Stacks /\ stack' = [stack EXCEPT ![t] = r]
  BY <1>0 DEF GoOn, TreeInv
<1>2. {r[i] : i \in 1 .. Len(r)} = {g} \cup (Funs(t) \ {Innermost(t)})
  BY <1>0, <1>1, OnGoesOn
<1>3. \A u \in Threads \ {t} : Funs(u)' = Funs(u)
  BY <1>1, OnOthers
<1>4. Funs(t)' = {r[i] : i \in 1 .. Len(r)}
  BY <1>1, OnOthers
<1> QED
  BY <1>2, <1>3, <1>4

(* In a loop there is no read condition.                                   *)
LEMMA LoopsNotQuery ==
    ASSUME NEW f, ShapeOK(f), Inside(f.todo), f.todo[1] \in {"each"} \cup CopyStages
    PROVE  Kind[f.e] # "query"
<1>1. ASSUME Kind[f.e] = "query"
      PROVE  FALSE
  <2>1. PICK p \in ClosingOf("query") :
          f.todo = p \/ (p[1] \in CopyStages /\ f.todo[1] = "each")
    BY <1>1 DEF ShapeOK, Shaped
  <2>2. p \in {<<"unregister", "delete">>, <<"delete">>}
    BY <2>1 DEF ClosingOf
  <2>3. p[1] \notin {"each"} \cup CopyStages
    BY <2>2 DEF CopyStages
  <2> QED
    BY <2>1, <2>3
<1> QED
  BY <1>1

(* The next entity of the loop.                                            *)
LEMMA EachKeeps ==
    ASSUME TreeInv, TreeInv', UsedInv, NEW t \in Threads, Each(t)
    PROVE  UsedInv'
<1>0. PICK f : f = Innermost(t) /\ TopIs(t, f, "each")
  BY Tops DEF Each
<1> USE DEF TopIs
<1>1. At(t, "each") /\ Busy(t)
      /\ UNCHANGED <<seen, owner, status, born, enabled, members, nrDependents, holds, alive>>
  BY DEF Each, At
<1>2. PICK x \in f.rest :
        LET next == [f EXCEPT !.rest = f.rest \ {x}]
        IN  IF status[x] = "expired" THEN GoOn(t, next)
            ELSE stack' = [stack EXCEPT ![t] =
                               <<Frame(x, Body(Kind[x]))>> \o (<<next>> \o Tail(stack[t]))]
  BY <1>0 DEF Each
<1>3. PICK g : g = [f EXCEPT !.rest = f.rest \ {x}]
  OBVIOUS
<1>4. g \in Frames /\ g.e = f.e /\ g.todo = f.todo /\ g.rest = f.rest \ {x}
  BY <1>0, <1>3 DEF Frames
<1>5. x \in Entities /\ Parent[x] = f.e
  BY <1>0 DEF FrameOK, Frames
<1>6. Inside(f.todo) /\ ~Making(f.todo) /\ ~Before(f) /\ ~Before(g)
  <2>1. Inside(f.todo) /\ ~Making(f.todo) /\ ~Before(f)
    BY <1>0, StageKind DEF InsideStages
  <2> QED
    BY <1>4, <2>1 DEF Before
<1>7. /\ ShapeOK(f) /\ LockOK(t, f) /\ GrownOK(f) /\ CloseOK(f) /\ KidsOK(t, f) /\ TopicOK(f)
  BY <1>0 DEF FunctionOK
<1>8. Grown(x) /\ (Kind[x] = "query" => status[x] # "closed")
  BY <1>6, <1>7 DEF GrownOK, CloseOK
<1>9. Lives(f, g)
  BY <1>4 DEF Lives
<1>10. Touches(t, f.e)
  BY <1>0, <1>1, StillTouches DEF OnlyStack
<1>11. /\ ShapeOK(g)' /\ LockOK(t, g)' /\ GrownOK(g)' /\ MakeOK(t, g)' /\ CloseOK(g)'
       /\ QueryOK(t, g)' /\ CountOK(t, g)' /\ TopicOK(g)' /\ DropOK(t, f)
  <2>1. ShapeOK(g)' /\ CountOK(t, g)' /\ MakeOK(t, g)'
    BY <1>0, <1>4, <1>6, <1>7 DEF ShapeOK, CountOK, MakeOK
  <2>2. GrownOK(g)'
    <3>1. \A y : Grown(y) => Grown(y)'
      BY <1>1 DEF Grown
    <3> QED
      BY <1>4, <1>7, <3>1 DEF GrownOK
  <2>3. LockOK(t, g)' /\ CloseOK(g)' /\ TopicOK(g)'
    <3>1. \A d : Holders(d)' = Holders(d)
      BY <1>1 DEF Holders
    <3> QED
      BY <1>1, <1>4, <1>7, <3>1 DEF LockOK, CloseOK, TopicOK
  <2>4. Kind[g.e] # "query"
    BY <1>0, <1>4, <1>6, <1>7, LoopsNotQuery
  <2> QED
    BY <1>0, <2>1, <2>2, <2>3, <2>4 DEF QueryOK, FunctionOK
<1>12. ASSUME \A h \in Funs(t) : \E k \in Funs(t)' : Lives(h, k),
              \A u \in Threads \ {t} : Funs(u)' = Funs(u),
              Past(x)' \/ \E h \in Funs(t)' : h.e = x
       PROVE  FunctionOK(t, g)'
  <2>1. \A y : Past(y) => Past(y)'
    BY <1>1, <1>12, PastStays
  <2>2. \A y : (\E h \in Funs(t) : h.e = y) => \E h \in Funs(t)' : h.e = y
    BY <1>12 DEF Lives
  <2>3. KidsOK(t, g)'
    BY <1>1, <1>4, <1>7, <1>12, <2>1, <2>2 DEF KidsOK
  <2>4. DropOK(t, g)'
    BY <1>1, <1>4, <1>11, <1>12 DEF DropOK
  <2> QED
    BY <1>11, <2>3, <2>4 DEF FunctionOK
<1>13. \A h \in Funs(t) : h # f => ~Making(h.todo) /\ ~Before(h)
  <2>1. Stacks
    BY DEF TreeInv
  <2> QED
    BY <1>0, <2>1, OnFrames, FirstStages
<1>14. CASE status[x] = "expired"
  <2>1. GoOn(t, g)
    BY <1>2, <1>3, <1>14
  <2>2. /\ \A u \in Threads \ {t} : Funs(u)' = Funs(u)
        /\ Funs(t)' = {g} \cup (Funs(t) \ {f})
    BY <1>0, <1>1, <1>4, <2>1, TopGoes
  <2>3. \A h \in Funs(t) : \E k \in Funs(t)' : Lives(h, k)
    BY <1>9, <2>2 DEF Lives
  <2>4. Past(x)'
    BY <1>1, <1>14 DEF Past
  <2>5. FunctionOK(t, g)'
    BY <1>12, <2>2, <2>3, <2>4
  <2>6. FramesGo(t, f.e)
    BY <1>0, <1>4, <1>6, <1>13, <2>2, <2>3, <2>5 DEF FramesGo
  <2> QED
    BY <1>0, <1>10, <2>6, TouchKeeps
<1>15. CASE status[x] # "expired"
  <2>0. PICK h : h = Frame(x, Body(Kind[x]))
    OBVIOUS
  <2>1. FrameOK(h) /\ Before(h) /\ h.e = x /\ h.rest = {} /\ h.todo = Body(Kind[x])
    BY <1>5, <2>0, NewFrames DEF Frame
  <2>2. PICK s, r : s = <<g>> \o Tail(stack[t]) /\ r = <<h>> \o s
    OBVIOUS
  <2>3. stack' = [stack EXCEPT ![t] = r] /\ Stacks
    BY <1>2, <1>3, <1>15, <2>0, <2>2 DEF TreeInv
  <2>4. {s[i] : i \in 1 .. Len(s)} = {g} \cup (Funs(t) \ {f})
    BY <1>0, <1>1, <1>4, <2>2, <2>3, OnGoesOn
  <2>5. s \in Seq(Frames) /\ h \in Frames
    <3>1. StackOK(stack[t]) /\ stack[t] # << >>
      BY <1>1, <2>3 DEF Stacks, Busy
    <3>2. stack[t] \in Seq(Frames)
      BY <3>1 DEF StackOK
    <3>3. s \in Seq(Frames)
      BY <1>4, <2>2, <3>1, <3>2, TopReplaced
    <3> QED
      BY <2>1, <3>3 DEF FrameOK
  <2>6. {r[i] : i \in 1 .. Len(r)} = {h} \cup {s[i] : i \in 1 .. Len(s)}
    <3>1. {(<<h>> \o s)[i] : i \in 1 .. Len(<<h>> \o s)} = {h} \cup {s[i] : i \in 1 .. Len(s)}
      BY <2>5, OnCalls
    <3> QED
      BY <2>2, <3>1
  <2>7. Funs(t)' = {r[i] : i \in 1 .. Len(r)}
    BY <2>3, OnOthers
  <2>8. \A u \in Threads \ {t} : Funs(u)' = Funs(u)
    BY <2>3, OnOthers
  <2>9. Funs(t)' = {h, g} \cup (Funs(t) \ {f})
    BY <2>4, <2>6, <2>7
  <2>10. \A k \in Funs(t) : \E m \in Funs(t)' : Lives(k, m)
    BY <1>9, <2>9 DEF Lives
  <2>11. FunctionOK(t, g)'
    BY <1>12, <2>1, <2>8, <2>9, <2>10
  <2>12. ~Inside(h.todo) /\ ~Making(h.todo) /\ h.todo[1] \in {"check", "lock"}
    <3>1. Kind[x] \in Kinds
      BY <1>5, TreeAssumption
    <3>2. Body(Kind[x])[1] \in {"check", "lock"}
      BY <3>1, Literals
    <3> QED
      BY <2>1, <3>2, FirstStages
  <2>13. FunctionOK(t, h)'
    <3>1. Grown(x)'
      BY <1>1, <1>8 DEF Grown
    <3>2. /\ ShapeOK(h)' /\ LockOK(t, h)' /\ GrownOK(h)' /\ MakeOK(t, h)' /\ CloseOK(h)'
          /\ KidsOK(t, h)' /\ CountOK(t, h)' /\ TopicOK(h)'
      BY <2>1, <2>12, <3>1 DEF ShapeOK, LockOK, GrownOK, MakeOK, CloseOK, KidsOK, CountOK, TopicOK
    <3>3. QueryOK(t, h)'
      <4>1. g \in Funs(t)' /\ g.e = Parent[h.e] /\ Inside(g.todo) /\ g.todo[1] = "each"
            /\ h.e \notin g.rest
        BY <1>0, <1>4, <1>5, <1>6, <2>1, <2>9
      <4> QED
        BY <1>1, <1>8, <2>1, <2>12, <4>1 DEF QueryOK
    <3>4. DropOK(t, h)'
      BY <1>1, <1>15, <2>1 DEF DropOK
    <3> QED
      BY <3>2, <3>3, <3>4 DEF FunctionOK
  <2>14. FramesGo(t, f.e)
    <3>1. x \in born /\ status[x] # "expired"
      BY <1>8, <1>15 DEF Grown
    <3>2. \A k \in Funs(t)' : k = h \/ k = g \/ (k \in Funs(t) /\ k # f)
      BY <2>9
    <3> QED
      BY <1>0, <1>4, <1>6, <1>13, <2>1, <2>8, <2>10, <2>11, <2>12, <2>13, <3>1, <3>2 DEF FramesGo
  <2> QED
    BY <1>0, <1>10, <2>14, TouchKeeps
<1> QED
  BY <1>14, <1>15

-----------------------------------------------------------------------------
(* Whatever has been created and is not in its parent, is on its way out.  *)
LEMMA MissingPast ==
    ASSUME TreeInv, UsedInv, NEW x \in born, Parent[x] # Nobody, x \notin members[Parent[x]]
    PROVE  Past(x)
<1>1. x \in Entities /\ status[x] \in {"open", "expired", "closed"}
  <2>1. x \in Entities /\ status[x] \in {"unborn", "open", "expired", "closed"}
    BY DEF TreeInv, Typed
  <2> QED
    BY <2>1 DEF UsedInv, Known
<1>2. CASE status[x] # "open"
  BY <1>1, <1>2 DEF Past
<1>3. CASE status[x] = "open"
  <2>1. owner[x] # Nobody
    BY <1>1, <1>3 DEF UsedInv, Fresh, Intact
  <2>2. PICK f \in Funs(owner[x]) : f.e = x /\ Inside(f.todo)
    BY <1>1, <2>1, HasFunction
  <2>3. owner[x] \in Threads
    BY <1>1, <2>1, HasFunction
  <2>4. CloseOK(f)
    BY <2>2, <2>3 DEF UsedInv, FunctionOK
  <2>5. ~Has(f.todo, "unregister")
    BY <1>3, <2>2, <2>4 DEF CloseOK
  <2> QED
    BY <2>2, <2>3, <2>5 DEF Past, Parting
<1> QED
  BY <1>2, <1>3

(* A constructor is in nobody's way.                                       *)
LEMMA CreatorsAway ==
    ASSUME TreeInv, CreatesAlone, NEW t \in Threads, NEW f \in Funs(t), Making(f.todo),
           NEW u \in Threads \ {t}, NEW g \in Funs(u)
    PROVE  g.e # Parent[f.e] /\ g.e # TopicOf[f.e]
<1>1. Stacks
  BY DEF TreeInv
<1>2. f.todo[1] \in MakingStages /\ f.todo[1] # "each"
  <2>1. 1 \in 1 .. Len(f.todo)
    BY EmptySeq DEF Making, Ends
  <2>2. f.todo[1] \in MakingStages
    BY <2>1, ElementOfSeq DEF Making, Ends
  <2> QED
    BY <2>2 DEF MakingStages
<1>3. f = Innermost(t) /\ At(t, f.todo[1])
  BY <1>2, TopOnly
<1> QED
  BY <1>2, <1>3 DEF CreatesAlone, Self

(* all_close() copies a set: what it misses is on its way out.             *)
LEMMA CopyKeeps ==
    ASSUME TreeInv, TreeInv', UsedInv, CreatesAlone, NEW t \in Threads, Copy(t)
    PROVE  UsedInv'
<1>1. PICK stage \in CopyStages :
        /\ At(t, stage)
        /\ GoOn(t, [Innermost(t) EXCEPT
                       !.todo = <<"each">> \o Tail(Innermost(t).todo),
                       !.rest = {x \in members[Self(t)] : Kind[x] \in KindsIn(stage)}])
  BY DEF Copy, CopyStages
<1>0. PICK f : f = Innermost(t) /\ TopIs(t, f, stage)
  BY <1>1, Tops
<1> USE DEF TopIs
<1>2. UNCHANGED <<seen, owner, status, born, enabled, members, nrDependents, holds, alive>>
  BY DEF Copy
<1>3. PICK todo, rest, g :
        /\ todo = <<"each">> \o Tail(f.todo)
        /\ rest = {x \in members[f.e] : Kind[x] \in KindsIn(stage)}
        /\ g = [f EXCEPT !.todo = todo, !.rest = rest]
  OBVIOUS
<1>4. GoOn(t, g)
  BY <1>0, <1>1, <1>3
<1>5. /\ Tail(f.todo) \in Seq(Stages) /\ todo \in Seq(Stages) /\ todo[1] = "each"
      /\ \A s : s # "each" =>
            /\ Has(todo, s) => Has(f.todo, s)
            /\ Has(f.todo, s) /\ s # stage => Has(todo, s)
      /\ Has(f.todo, stage)
  <2>1. Tail(f.todo) \in Seq(Stages)
    BY <1>0, HeadTailProperties
  <2>2. todo \in Seq(Stages) /\ todo[1] = "each"
    BY <1>3, <2>1, EachThen
  <2>3. \A s : Has(todo, s) <=> s = "each" \/ Has(Tail(f.todo), s)
    BY <1>3, <2>1, HasEach
  <2> QED
    BY <1>0, <2>1, <2>2, <2>3, HasTail
<1>6. /\ Inside(f.todo) /\ ~Making(f.todo) /\ ~Before(f) /\ f.rest = {} /\ Inside(todo)
      /\ ~Making(todo)
  <2>1. stage \in InsideStages \ {"unregister"} /\ stage \notin Last3 /\ stage # "each"
    BY DEF CopyStages, InsideStages, Last3
  <2>2. Inside(f.todo) /\ ~Making(f.todo) /\ ~Before(f) /\ f.rest = {}
    BY <1>0, <2>1, StageKind
  <2>3. Inside(todo)
    BY <1>0, <1>3, <2>1, <2>2, EndsEach
  <2>4. ~Making(todo)
    <3>1. ~(todo[1] \in MakingStages)
      BY <1>5 DEF MakingStages
    <3>2. todo # << >> => 1 \in 1 .. Len(todo)
      BY <1>5, EmptySeq
    <3> QED
      BY <3>1, <3>2, ElementOfSeq DEF Making, Ends
  <2> QED
    BY <2>2, <2>3, <2>4
<1>7. rest \subseteq Entities /\ \A x \in rest : Parent[x] = f.e /\ x \in members[f.e]
  BY <1>0, <1>3 DEF TreeInv, Typed, Contains
<1>8. g \in Frames /\ g.e = f.e /\ g.todo = todo /\ g.rest = rest
  BY <1>0, <1>3, <1>5, <1>7 DEF Frames
<1>9. ~Before(g)
  <2>1. Before(g) => g.todo[1] \in {"check", "lock", "unregister"}
    <3>1. g.e \in Entities /\ Kind[g.e] \in Kinds
      BY <1>0, <1>8
    <3>2. CASE Kind[g.e] # "query"
      BY <3>1, <3>2, Literals DEF Before, DestructorBody
    <3>3. CASE Kind[g.e] = "query"
      BY <3>3, Literals DEF Before, Unlocked
    <3> QED
      BY <3>2, <3>3
  <2> QED
    BY <1>5, <1>8, <2>1
<1>10. /\ ShapeOK(f) /\ LockOK(t, f) /\ GrownOK(f) /\ CloseOK(f) /\ KidsOK(t, f) /\ TopicOK(f)
       /\ DropOK(t, f)
  BY <1>0 DEF FunctionOK
<1>11. /\ \A u \in Threads \ {t} : Funs(u)' = Funs(u)
       /\ Funs(t)' = {g} \cup (Funs(t) \ {f})
  BY <1>0, <1>1, <1>4, <1>8, TopGoes DEF At
<1>12. Lives(f, g)
  BY <1>5, <1>6, <1>8 DEF Lives
<1>13. \A h \in Funs(t) : \E k \in Funs(t)' : Lives(h, k)
  BY <1>11, <1>12 DEF Lives
<1>14. /\ \A d : Holders(d)' = Holders(d)
       /\ \A x : Grown(x)' <=> Grown(x)
  BY <1>2 DEF Holders, Grown
<1>15. \A x : Past(x) => Past(x)'
  BY <1>2, <1>11, <1>13, PastStays
<1>16. /\ ShapeOK(g)' /\ LockOK(t, g)' /\ MakeOK(t, g)' /\ CountOK(t, g)' /\ TopicOK(g)'
       /\ DropOK(t, g)'
  <2>1. Shaped(Kind[g.e], g.todo)
    <3>1. Shaped(Kind[f.e], f.todo)
      BY <1>6, <1>10 DEF ShapeOK
    <3> QED
      BY <1>0, <1>3, <1>8, <3>1, Shapes DEF StageFacts
  <2>2. ShapeOK(g)' /\ MakeOK(t, g)' /\ CountOK(t, g)'
    BY <1>5, <1>6, <1>8, <2>1 DEF ShapeOK, MakeOK, CountOK
  <2>3. LockOK(t, g)'
    BY <1>2, <1>6, <1>8, <1>10 DEF LockOK
  <2>4. TopicOK(g)'
    <3>1. "dependents" # stage
      BY DEF CopyStages
    <3> QED
      BY <1>5, <1>6, <1>8, <1>10, <1>14, <3>1 DEF TopicOK
  <2>5. DropOK(t, g)'
    BY <1>2, <1>8, <1>10, <1>11 DEF DropOK
  <2> QED
    BY <2>2, <2>3, <2>4, <2>5
<1>17. GrownOK(g)'
  <2>1. ASSUME NEW x \in rest, ~Grown(x)
        PROVE  FALSE
    <3>0. PICK u \in Threads : \E h \in Funs(u) : h.e = x /\ Making(h.todo)
      BY <1>0, <1>7, <2>1 DEF UsedInv, Known
    <3>1. PICK h \in Funs(u) : h.e = x /\ Making(h.todo)
      BY <3>0
    <3>2. CASE u = t
      <4>1. h = f \/ Inside(h.todo)
        BY <1>0, <3>1, <3>2
      <4>2. ~(Inside(h.todo) /\ Making(h.todo))
        <5>1. Stacks
          BY DEF TreeInv
        <5> QED
          BY <3>1, <5>1, OnFrames, FirstStages
      <4> QED
        BY <1>6, <3>1, <4>1, <4>2
    <3>3. CASE u # t
      BY <1>0, <1>7, <3>1, <3>3, CreatorsAway
    <3> QED
      BY <3>2, <3>3
  <2> QED
    BY <1>6, <1>8, <1>10, <1>14, <2>1 DEF GrownOK
<1>18. CloseOK(g)'
  <2>1. ASSUME NEW q \in rest, Kind[q] = "query"
        PROVE  status[q] # "closed"
    <3>1. stage = "queries"
      BY <1>3, <2>1 DEF KindsIn, CopyStages
    <3>2. q \in QueriesOf(f.e)
      BY <1>7, <2>1 DEF QueriesOf
    <3> QED
      BY <1>5, <1>6, <1>10, <3>1, <3>2 DEF CloseOK
  <2> QED
    BY <1>2, <1>5, <1>6, <1>8, <1>10, <2>1 DEF CloseOK
<1>19. QueryOK(t, g)'
  <2>1. Kind[f.e] # "query"
    BY <1>0, <1>6, <1>10, LoopsNotQuery
  <2> QED
    BY <1>8, <2>1 DEF QueryOK
<1>20. KidsOK(t, g)'
  <2> SUFFICES ASSUME NEW x \in born, Parent[x] = f.e
               PROVE  \/ Past(x)' \/ Has(todo, StageOf(Kind[x])) \/ x \in rest
                      \/ \E h \in Funs(t)' : h.e = x
    BY <1>2, <1>8 DEF KidsOK
  <2>1. x \in Entities /\ Kind[x] \in Kinds /\ f.e # Nobody
    BY <1>0, TreeAssumption DEF TreeInv, Typed
  <2>2. Kind[x] # "participant"
    BY <2>1, TreeAssumption
  <2>3. StageOf(Kind[x]) \in CopyStages /\ Kind[x] \in KindsIn(StageOf(Kind[x]))
    BY <2>1, <2>2 DEF StageOf, Kinds, CopyStages, KindsIn
  <2>4. CASE Past(x)
    BY <1>15, <2>4
  <2>5. CASE Has(f.todo, StageOf(Kind[x]))
    <3>1. CASE StageOf(Kind[x]) # stage
      <4>1. StageOf(Kind[x]) # "each"
        BY <2>3 DEF CopyStages
      <4> QED
        BY <1>5, <2>5, <3>1, <4>1
    <3>2. CASE StageOf(Kind[x]) = stage
      <4>1. CASE x \in members[f.e]
        BY <1>3, <2>3, <3>2, <4>1
      <4>2. CASE x \notin members[f.e]
        BY <1>15, <2>1, <4>2, MissingPast
      <4> QED
        BY <4>1, <4>2
    <3> QED
      BY <3>1, <3>2
  <2>6. CASE \E h \in Funs(t) : h.e = x
    BY <1>13, <2>6 DEF Lives
  <2> QED
    BY <1>6, <1>10, <2>4, <2>5, <2>6 DEF KidsOK
<1>21. FunctionOK(t, g)'
  BY <1>16, <1>17, <1>18, <1>19, <1>20 DEF FunctionOK
<1>22. FramesGo(t, f.e)
  <2>1. \A h \in Funs(t) : h # f => ~Making(h.todo) /\ ~Before(h)
    <3>1. Stacks
      BY DEF TreeInv
    <3> QED
      BY <1>0, <3>1, OnFrames, FirstStages
  <2>2. \A k \in Funs(t)' : k = g \/ (k \in Funs(t) /\ k # f)
    BY <1>11
  <2> QED
    BY <1>0, <1>6, <1>8, <1>9, <1>11, <1>13, <1>21, <2>1, <2>2 DEF FramesGo
<1>23. Touches(t, f.e)
  BY <1>0, <1>2, StillTouches DEF OnlyStack
<1> QED
  BY <1>0, <1>22, <1>23, TouchKeeps

-----------------------------------------------------------------------------
(* A step of thread t that decides the fate of e.                          *)
Turns(t, e) ==
    /\ UNCHANGED <<seen, members, nrDependents, holds>>
    /\ \A u \in Threads \ {t} : Funs(u)' = Funs(u)
    /\ \A x \in Entities : status[x] \in {"expired", "closed"} => status'[x] = status[x]
    /\ \A x \in Entities \ {e} : status'[x] = status[x] /\ (x \in born' <=> x \in born)
    /\ born \subseteq born'
    /\ \A x \in Entities : status'[x] = "unborn" => status[x] = "unborn" /\ x \notin born'

(* The functions of other threads are no reason against it.                *)
Spares(t, e) ==
    /\ \A u \in Threads \ {t} : \A x \in Entities : owner[x] = u => owner'[x] = u
    /\ \A u \in Threads \ {t} : \A g \in Funs(u) :
          /\ g.e = e =>
                \/ status'[e] = status[e] /\ (e \in born' => e \in born)
                \/ /\ ~Making(g.todo) /\ ~Inside(g.todo)
                   /\ status'[e] = "closed" /\ Kind[e] # "query"
          /\ Making(g.todo) /\ e \in {Parent[g.e], TopicOf[g.e]} /\ status'[e] = "closed" =>
                status[e] = "closed"
          /\ Inside(g.todo) /\ g.e = Parent[e] =>
                /\ Kind[e] = "query" /\ status'[e] = "closed" => status[e] = "closed"
                /\ e \in born' => e \in born
    /\ \A g \in Funs(t)' :
          \/ \E f \in Funs(t) : f.e = g.e /\ (Making(g.todo) => Making(f.todo))
          \/ \A u \in Threads \ {t} : \A h \in Funs(u) : h.e # g.e

LEMMA TurnsPast ==
    ASSUME NEW t \in Threads, NEW e, Turns(t, e),
           \A f \in Funs(t) : Inside(f.todo) /\ ~Has(f.todo, "unregister") =>
               f \in Funs(t)' \/ status'[f.e] \in {"closed", "expired"}
    PROVE  \A x \in Entities : Past(x) => Past(x)'
<1> USE DEF Turns
<1>1. ASSUME NEW x \in Entities, Parting(x)
      PROVE  Past(x)'
  <2>0. PICK u \in Threads :
            \E f \in Funs(u) : f.e = x /\ Inside(f.todo) /\ ~Has(f.todo, "unregister")
    BY <1>1 DEF Parting
  <2>1. PICK f \in Funs(u) : f.e = x /\ Inside(f.todo) /\ ~Has(f.todo, "unregister")
    BY <2>0
  <2>2. CASE f \in Funs(u)'
    BY <2>1, <2>2 DEF Past, Parting
  <2>3. CASE f \notin Funs(u)'
    BY <2>1, <2>3 DEF Past
  <2> QED
    BY <2>2, <2>3
<1>2. ASSUME NEW x \in Entities, status[x] \in {"closed", "expired"}
      PROVE  Past(x)'
  BY <1>2 DEF Past
<1> QED
  BY <1>1, <1>2 DEF Past

LEMMA OthersKeep ==
    ASSUME TreeInv, TreeInv', UsedInv, NEW t \in Threads, NEW e \in Entities,
           Turns(t, e), Spares(t, e), \A x \in Entities : Past(x) => Past(x)'
    PROVE  /\ \A u \in Threads \ {t} : \A f \in Funs(u) : FunctionOK(u, f)'
           /\ CountersOK'
<1> USE DEF Turns, Spares
<1>0. /\ \A u \in Threads : \A f \in Funs(u) : FunctionOK(u, f) /\ FrameOK(f) /\ f.e \in Entities
      /\ born \subseteq Entities /\ \A d : Holders(d)' = Holders(d)
  BY OnFrames DEF TreeInv, UsedInv, Typed, Holders
<1>1. \A x \in Entities : Grown(x) => Grown(x)'
  BY DEF Grown
<1>2. ASSUME NEW d
      PROVE  /\ Counted(d) \subseteq Counted(d)'
             /\ Cardinality(Counted(d)) <= Cardinality(Counted(d)')
             /\ Cardinality(Counted(d)) \in Nat /\ Cardinality(Counted(d)') \in Nat
  <2>1. \A x \in Dependents : x \in Entities
    BY Ranks
  <2>2. Counted(d) \subseteq Counted(d)'
    BY <1>1, <2>1 DEF Counted
  <2>3. IsFiniteSet(Counted(d)')
    <3>1. Counted(d)' \subseteq Dependents
      BY DEF Counted
    <3> QED
      BY <3>1, Finite, FS_Subset
  <2>4. /\ Cardinality(Counted(d)) <= Cardinality(Counted(d)')
        /\ Cardinality(Counted(d)) \in Nat /\ Cardinality(Counted(d)') \in Nat
    BY <2>2, <2>3, Finite, FS_Subset, FS_CardinalityType
  <2> QED
    BY <2>2, <2>4
<1>3. \A d : Cardinality(Holders(d)) \in Nat
  BY Finite
<1>4. ASSUME NEW u \in Threads \ {t}, NEW f \in Funs(u)
      PROVE  FunctionOK(u, f)'
  <2>1. /\ ShapeOK(f) /\ LockOK(u, f) /\ GrownOK(f) /\ MakeOK(u, f) /\ CloseOK(f)
        /\ QueryOK(u, f) /\ KidsOK(u, f) /\ TopicOK(f) /\ DropOK(u, f) /\ CountOK(u, f)
        /\ f.e \in Entities /\ FrameOK(f) /\ \A x \in f.rest : x \in Entities /\ Parent[x] = f.e
    BY <1>0 DEF FunctionOK, FrameOK, Frames
  <2>2. /\ status[f.e] = "expired" => status'[f.e] = "expired"
        /\ status'[f.e] = "expired" => status[f.e] = "expired"
    BY <2>1
  <2>3. ShapeOK(f)' /\ TopicOK(f)'
    BY <1>0, <2>1 DEF ShapeOK, TopicOK
  <2>4. LockOK(u, f)'
    BY <2>1 DEF LockOK
  <2>5. GrownOK(f)'
    BY <1>1, <2>1 DEF GrownOK
  <2>6. ASSUME NEW v \in Threads, NEW g \in Funs(v)', g.e = f.e,
               status'[f.e] = "expired" \/ (Making(f.todo) /\ Making(g.todo))
        PROVE  v = u
    <3>1. CASE v # t
      BY <2>1, <2>2, <2>6, <3>1 DEF MakeOK, DropOK
    <3>2. CASE v = t
      <4>1. \E h \in Funs(t) : h.e = g.e /\ (Making(g.todo) => Making(h.todo))
        BY <2>6, <3>2
      <4> QED
        BY <2>1, <2>2, <2>6, <3>2, <4>1 DEF MakeOK, DropOK
    <3> QED
      BY <3>1, <3>2
  <2>7. MakeOK(u, f)'
    <3> SUFFICES ASSUME Making(f.todo)
                 PROVE  MakeOK(u, f)'
      BY DEF MakeOK
    <3>1. status'[f.e] = status[f.e] /\ f.e \notin born'
      BY <2>1 DEF MakeOK
    <3>2. Parent[f.e] \in Entities /\ TopicOf[f.e] \in Entities
      BY <2>1, CallsAssumption, Ranks DEF MakeOK
    <3>3. /\ Has(f.todo, "handleParent") \/ status'[Parent[f.e]] # "closed"
          /\ Has(f.todo, "handleTopic") \/ status'[TopicOf[f.e]] # "closed"
      BY <2>1, <3>2 DEF MakeOK
    <3> QED
      BY <2>1, <2>6, <3>1, <3>3 DEF MakeOK
  <2>8. CloseOK(f)'
    <3> SUFFICES ASSUME Inside(f.todo)
                 PROVE  CloseOK(f)'
      BY DEF CloseOK
    <3>1. \A q \in Entities : Parent[q] = f.e /\ Kind[q] = "query" /\ status'[q] = "closed" =>
              status[q] = "closed"
      OBVIOUS
    <3>2. Has(f.todo, "queries") => \A q \in QueriesOf(f.e) : status'[q] # "closed"
      BY <2>1, <3>1 DEF CloseOK, QueriesOf
    <3>3. \A q \in f.rest : Kind[q] = "query" => status'[q] # "closed"
      BY <2>1, <3>1 DEF CloseOK
    <3> QED
      BY <2>1, <2>2, <3>2, <3>3 DEF CloseOK
  <2>9. QueryOK(u, f)'
    BY <2>1, <2>2 DEF QueryOK
  <2>10. KidsOK(u, f)'
    <3> SUFFICES ASSUME Inside(f.todo), NEW x \in born', Parent[x] = f.e
                 PROVE  \/ Past(x)' \/ Has(f.todo, StageOf(Kind[x])) \/ x \in f.rest
                        \/ \E h \in Funs(u) : h.e = x
      BY DEF KidsOK
    <3>1. x \in Entities /\ x \in born
      BY DEF TreeInv, Typed
    <3> QED
      BY <2>1, <3>1 DEF KidsOK
  <2>11. CountOK(u, f)'
    <3> SUFFICES ASSUME f.todo[1] \in {"decr", "incr"}
                 PROVE  /\ Cardinality(Holders(TopicOf[f.e])') <= seen'[u]
                        /\ seen'[u] <= Cardinality(Counted(TopicOf[f.e])')
      BY DEF CountOK
    <3>0. PICK d : d = TopicOf[f.e]
      OBVIOUS
    <3>1. Cardinality(Holders(d)) <= seen[u] /\ seen[u] <= Cardinality(Counted(d))
      BY <2>1, <3>0 DEF CountOK
    <3>2. seen[u] \in 0 .. MaxDependents
      BY DEF TreeInv, Typed
    <3>3. Cardinality(Holders(d)') <= seen'[u] /\ seen'[u] <= Cardinality(Counted(d)')
      BY <1>0, <1>2, <3>1, <3>2, MaxAssumption
    <3> QED
      BY <3>0, <3>3
  <2>12. DropOK(u, f)'
    <3> SUFFICES ASSUME status'[f.e] = "expired", NEW v \in Threads, NEW g \in Funs(v)',
                        g.e = f.e
                 PROVE  v = u
      BY DEF DropOK
    <3> QED
      BY <2>6
  <2> QED
    BY <2>3, <2>4, <2>5, <2>7, <2>8, <2>9, <2>10, <2>11, <2>12 DEF FunctionOK
<1>5. CountersOK'
  <2> SUFFICES ASSUME NEW d \in Entities
               PROVE  /\ Cardinality(Holders(d)') <= nrDependents'[d]
                      /\ nrDependents'[d] <= Cardinality(Counted(d)')
    BY DEF CountersOK
  <2>1. /\ Cardinality(Holders(d)) <= nrDependents[d]
        /\ nrDependents[d] <= Cardinality(Counted(d))
    BY DEF UsedInv, CountersOK
  <2>2. nrDependents[d] \in 0 .. MaxDependents
    BY DEF TreeInv, Typed
  <2> QED
    BY <1>0, <1>2, <2>1, <2>2, MaxAssumption
<1> QED
  BY <1>4, <1>5

(* What is known of the entities, if no constructor ends that has made its *)
(* entity known.                                                           *)
LEMMA KnownKeeps ==
    ASSUME TreeInv, UsedInv, NEW t \in Threads, NEW e \in Entities, Turns(t, e),
           born' \subseteq Entities,
           \A f \in Funs(t) : Making(f.todo) /\ ~Has(f.todo, "register") => Grown(f.e)'
    PROVE  Known'
<1> USE DEF Turns
<1>1. \A x \in born' \cup holds' : status'[x] # "unborn"
  <2>1. holds \subseteq Entities
    BY Ranks DEF TreeInv, Typed
  <2> QED
    BY <2>1 DEF UsedInv, Known
<1>2. ASSUME NEW p \in Entities, NEW x \in members'[p], ~Grown(x)'
      PROVE  \E u \in Threads : \E f \in Funs(u)' :
                 f.e = x /\ Making(f.todo) /\ ~Has(f.todo, "register")
  <2>1. x \in members[p] /\ x \in Entities
    BY DEF TreeInv, Typed
  <2>2. ~Grown(x)
    BY <1>2, <2>1 DEF Grown
  <2>3. PICK u \in Threads : \E f \in Funs(u) :
                                 f.e = x /\ Making(f.todo) /\ ~Has(f.todo, "register")
    BY <2>1, <2>2 DEF UsedInv, Known
  <2>4. u # t
    BY <1>2, <2>3
  <2> QED
    BY <2>3, <2>4
<1> QED
  BY <1>1, <1>2 DEF Known

-----------------------------------------------------------------------------
(* No exception ends a close() that has had an effect.                     *)
LEMMA RaisesHarmless ==
    ASSUME TreeInv, UsedInv, NEW t \in Threads, Throws(t)
    PROVE  /\ \A f \in Funs(t) : Inside(f.todo) => Harmless(Kind[f.e], f.todo)
           /\ \A f \in Funs(t) : Making(f.todo) => Has(f.todo, "register")
           /\ Self(t) \in Entities
<1>0. PICK stage \in {"check", "lock", "dependents", "listener", "readDecr", "handleParent",
                     "handleTopic", "create"} :
        /\ At(t, stage)
        /\ stage = "readDecr" => Kind[Self(t)] = "reader" /\ Self(t) \notin holds
        /\ stage \in {"check", "lock"} => status[Self(t)] = "closed"
  BY DEF Throws
<1>1. PICK f : f = Innermost(t) /\ TopIs(t, f, stage)
  BY <1>0, Tops
<1> USE DEF TopIs
<1>2. ShapeOK(f) /\ CloseOK(f) /\ QueryOK(t, f) /\ FrameOK(f)
  BY <1>1 DEF FunctionOK
<1>3. Inside(f.todo) => StageFacts(Kind[f.e], f.todo)
  BY <1>1, <1>2, Shapes DEF ShapeOK
<1>4. Inside(f.todo) => Harmless(Kind[f.e], f.todo)
  <2> SUFFICES ASSUME Inside(f.todo)
               PROVE  Harmless(Kind[f.e], f.todo)
    OBVIOUS
  <2>1. stage \in {"dependents", "listener", "readDecr"}
    <3>1. stage \in InsideStages
      BY <1>1, StageKind
    <3> QED
      BY <3>1 DEF InsideStages
  <2>2. stage # "readDecr"
    BY <1>0, <1>1, <1>2, <1>3 DEF StageFacts, CloseOK
  <2> QED
    BY <1>1, <1>3, <2>1, <2>2 DEF StageFacts
<1>5. Making(f.todo) => Has(f.todo, "register")
  <2> SUFFICES ASSUME Making(f.todo)
               PROVE  Has(f.todo, "register")
    OBVIOUS
  <2>1. f.todo \in MakingOf(Kind[f.e]) /\ stage \in {"handleParent", "handleTopic", "create"}
    <3>1. stage \in MakingStages
      BY <1>1, StageKind
    <3> QED
      BY <1>2, <3>1 DEF ShapeOK, MakingStages
  <2> QED
    BY <1>1, <2>1, MakingShapes DEF MakingFacts
<1>6. ASSUME Kind[f.e] = "query"
      PROVE  FALSE
  <2>1. stage \notin {"check", "lock"}
    BY <1>0, <1>1, <1>2, <1>6 DEF QueryOK
  <2>2. Inside(f.todo)
    <3>1. ~Making(f.todo)
      BY <1>2, <1>6, FirstStages DEF Making, Endpoints, FrameOK
    <3>2. ~Before(f)
      <4>1. Before(f) => stage \in {"check", "lock", "unregister"}
        BY <1>1, <1>6, Literals DEF Before, Unlocked
      <4> QED
        BY <2>1, <4>1
    <3> QED
      BY <1>2, <3>1, <3>2 DEF FrameOK
  <2>3. Shaped("query", f.todo) /\ stage \in InsideStages
    BY <1>1, <1>2, <1>6, <2>2, StageKind DEF ShapeOK
  <2>4. stage \in {"dependents", "listener", "readDecr"}
    BY <2>3 DEF InsideStages
  <2>5. PICK p \in ClosingOf("query") : f.todo = p \/ f.todo[1] = "each"
    BY <2>3 DEF Shaped
  <2> QED
    BY <1>1, <2>4, <2>5 DEF ClosingOf
<1>7. ASSUME NEW h \in Funs(t), h # f
      PROVE  Harmless(Kind[h.e], h.todo) /\ ~Making(h.todo)
  <2>1. /\ Inside(h.todo) /\ h.todo[1] = "each" /\ Rank(h.e) < Rank(f.e)
        /\ ShapeOK(h) /\ FrameOK(h) /\ h.e \in Entities /\ Kind[h.e] \in Kinds
        /\ h.todo \in Seq(Stages) /\ h.todo # << >>
    BY <1>1, <1>7, OnFrames DEF TreeInv, UsedInv, FunctionOK
  <2>2. Kind[h.e] # "reader"
    <3>1. Kind[f.e] \in Kinds \ {"query"} => Rank(f.e) <= 2
      BY DEF Kinds, Rank
    <3>2. Kind[h.e] = "reader" => Rank(h.e) = 2
      BY DEF Rank
    <3>3. Rank(f.e) \in Int /\ Rank(h.e) \in Int
      BY <1>1, <2>1, Ranks
    <3> QED
      BY <1>1, <1>6, <2>1, <3>1, <3>2, <3>3
  <2>3. StageFacts(Kind[h.e], h.todo)
    BY <2>1, Shapes DEF ShapeOK
  <2> QED
    BY <2>1, <2>2, <2>3, FirstStages DEF StageFacts
<1> QED
  BY <1>1, <1>4, <1>5, <1>7

(* Read conditions are in readers.                                         *)
LEMMA QueriesInReaders ==
    ASSUME NEW x \in Entities, Kind[x] # "reader"
    PROVE  QueriesOf(x) = {}
  BY TreeAssumption DEF QueriesOf, Container

(* An exception.                                                           *)
LEMMA RaiseKeeps ==
    ASSUME TreeInv, TreeInv', UsedInv, NEW t \in Threads, Throws(t)
    PROVE  UsedInv'
<1>1. /\ stack' = [stack EXCEPT ![t] = << >>]
      /\ owner' = [e \in Entities |-> IF owner[e] = t THEN Nobody ELSE owner[e]]
      /\ UNCHANGED <<seen, status, born, enabled, members, nrDependents, holds>>
  BY DEF Throws, Raise
<1>2. /\ \A f \in Funs(t) : Inside(f.todo) => Harmless(Kind[f.e], f.todo)
      /\ \A f \in Funs(t) : Making(f.todo) => Has(f.todo, "register")
  BY RaisesHarmless
<1>0. PICK e \in Entities : e = Self(t)
  BY RaisesHarmless
<1>3. Funs(t)' = {} /\ \A u \in Threads \ {t} : Funs(u)' = Funs(u)
  BY <1>1 DEF Funs, TreeInv, Stacks
<1>4. Turns(t, e) /\ born' \subseteq Entities
  <2>1. \A x \in born : status[x] # "unborn"
    BY DEF UsedInv, Known
  <2> QED
    BY <1>1, <1>3, <2>1 DEF Turns, TreeInv, Typed
<1>5. Spares(t, e)
  <2>1. \A u \in Threads \ {t} : \A x \in Entities : owner[x] = u => owner'[x] = u
    BY <1>1
  <2> QED
    BY <1>1, <1>3, <2>1 DEF Spares
<1>6. \A f \in Funs(t) : ~(Inside(f.todo) /\ ~Has(f.todo, "unregister"))
  BY <1>2 DEF Harmless
<1>7. \A x \in Entities : Past(x) => Past(x)'
  BY <1>4, <1>6, TurnsPast
<1>8. CountersOK' /\ \A u \in Threads : \A f \in Funs(u)' : FunctionOK(u, f)'
  <2>1. CountersOK' /\ \A u \in Threads \ {t} : \A f \in Funs(u) : FunctionOK(u, f)'
    BY <1>4, <1>5, <1>7, OthersKeep
  <2> QED
    BY <1>3, <2>1
<1>9. Known'
  BY <1>2, <1>4, KnownKeeps
<1>10. Fresh'
  <2> SUFFICES ASSUME NEW x \in Entities, owner'[x] = Nobody,
                      \/ x \in born' /\ status'[x] = "open"
                      \/ status'[x] # "closed" /\ \E u \in Threads : \E f \in Funs(u)' :
                                                      f.e = x /\ Before(f)
               PROVE  Intact(x)'
    BY DEF Fresh
  <2>1. Intact(x)
    <3>1. CASE owner[x] = Nobody
      <4>1. \/ x \in born /\ status[x] = "open"
            \/ status[x] # "closed" /\ \E u \in Threads : \E f \in Funs(u) :
                                            f.e = x /\ Before(f)
        BY <1>1, <1>3
      <4> QED
        BY <3>1, <4>1 DEF UsedInv, Fresh
    <3>2. CASE owner[x] # Nobody
      <4>1. owner[x] = t
        BY <1>1, <3>2
      <4>2. PICK f \in Funs(t) : f.e = x /\ Inside(f.todo)
        BY <3>2, <4>1, HasFunction
      <4>3. CloseOK(f) /\ Harmless(Kind[x], f.todo)
        BY <1>2, <4>2 DEF UsedInv, FunctionOK
      <4>4. Kind[x] # "reader" => QueriesOf(x) = {}
        BY QueriesInReaders
      <4>5. x \in Dependents => x \in holds
        BY <4>2, <4>3 DEF CloseOK, Harmless, Dependents
      <4> QED
        BY <4>2, <4>3, <4>4, <4>5 DEF CloseOK, Harmless, Intact
    <3> QED
      BY <3>1, <3>2
  <2> QED
    BY <1>1, <2>1 DEF Intact
<1>11. KidsGone' /\ UsersGone'
  <2>1. \A d : Holders(d)' = Holders(d)
    BY <1>1 DEF Holders
  <2>2. born \subseteq Entities
    BY DEF TreeInv, Typed
  <2> QED
    BY <1>1, <1>7, <2>1, <2>2 DEF UsedInv, KidsGone, UsersGone
<1> QED
  BY <1>8, <1>9, <1>10, <1>11 DEF UsedInv

-----------------------------------------------------------------------------
(* What the mutex guards, when only e takes another turn.                  *)
LEMMA FreshKeeps ==
    ASSUME TreeInv, UsedInv, NEW t \in Threads, NEW e \in Entities, Turns(t, e),
           \A x \in Entities \ {e} : owner'[x] = owner[x],
           \A g \in Funs(t)' : Before(g) =>
               g.e = e \/ \E f \in Funs(t) : f.e = g.e /\ Before(f),
           Kind[e] = "query" /\ status'[e] = "closed" =>
               status[e] = "closed" \/ owner'[Parent[e]] # Nobody,
           /\ owner'[e] = Nobody
           /\ \/ e \in born' /\ status'[e] = "open"
              \/ status'[e] # "closed" /\ \E u \in Threads : \E f \in Funs(u)' :
                                              f.e = e /\ Before(f)
           => Intact(e)'
    PROVE  Fresh'
<1> USE DEF Turns
<1> SUFFICES ASSUME NEW x \in Entities, owner'[x] = Nobody,
                    \/ x \in born' /\ status'[x] = "open"
                    \/ status'[x] # "closed" /\ \E u \in Threads : \E f \in Funs(u)' :
                                                    f.e = x /\ Before(f)
             PROVE  Intact(x)'
  BY DEF Fresh
<1>1. CASE x = e
  BY <1>1
<1>2. CASE x # e
  <2>1. \/ x \in born /\ status[x] = "open"
        \/ status[x] # "closed" /\ \E u \in Threads : \E f \in Funs(u) : f.e = x /\ Before(f)
    <3>1. CASE x \in born' /\ status'[x] = "open"
      BY <1>2, <3>1
    <3>2. CASE status'[x] # "closed" /\ \E u \in Threads : \E f \in Funs(u)' : f.e = x /\ Before(f)
      <4>0. PICK u \in Threads : \E f \in Funs(u)' : f.e = x /\ Before(f)
        BY <3>2
      <4>1. PICK f \in Funs(u)' : f.e = x /\ Before(f)
        BY <4>0
      <4>2. CASE u = t
        BY <1>2, <3>2, <4>1, <4>2
      <4>3. CASE u # t
        BY <1>2, <3>2, <4>1, <4>3
      <4> QED
        BY <4>2, <4>3
    <3> QED
      BY <3>1, <3>2
  <2>2. Intact(x)
    BY <1>2, <2>1 DEF UsedInv, Fresh
  <2>3. \A q \in QueriesOf(x) : status'[q] # "closed"
    <3> SUFFICES ASSUME NEW q \in QueriesOf(x), status'[q] = "closed"
                 PROVE  FALSE
      OBVIOUS
    <3>1. q \in Entities /\ Kind[q] = "query" /\ Parent[q] = x /\ status[q] # "closed"
      BY <2>2 DEF QueriesOf, Intact
    <3> QED
      BY <3>1
  <2> QED
    BY <1>2, <2>2, <2>3 DEF Intact
<1> QED
  BY <1>1, <1>2

(* A read condition that a thread closes, other threads let alone.         *)
LEMMA QueryCloser ==
    ASSUME TreeInv, UsedInv, NEW t \in Threads, NEW f \in Funs(t), Kind[f.e] = "query",
           status[f.e] # "expired"
    PROVE  /\ owner[Parent[f.e]] = t /\ Parent[f.e] \in Entities
           /\ \A u \in Threads : \A g \in Funs(u) :
                 /\ g.e = f.e => u = t
                 /\ g.e = Parent[f.e] /\ Inside(g.todo) =>
                       u = t /\ f.e \notin g.rest /\ ~Has(g.todo, "queries")
<1>1. ASSUME NEW u \in Threads, NEW g \in Funs(u), g.e = f.e
      PROVE  \E h \in Funs(u) : /\ h.e = Parent[f.e] /\ Inside(h.todo) /\ h.todo[1] = "each"
                              /\ f.e \notin h.rest /\ owner[Parent[f.e]] = u
  <2>1. QueryOK(u, g)
    BY DEF UsedInv, FunctionOK
  <2>2. PICK h \in Funs(u) : /\ h.e = Parent[f.e] /\ Inside(h.todo) /\ h.todo[1] = "each"
                           /\ f.e \notin h.rest
    BY <1>1, <2>1 DEF QueryOK
  <2>3. LockOK(u, h)
    BY DEF UsedInv, FunctionOK
  <2> QED
    BY <2>2, <2>3 DEF LockOK
<1>2. PICK h \in Funs(t) : /\ h.e = Parent[f.e] /\ Inside(h.todo) /\ h.todo[1] = "each"
                         /\ f.e \notin h.rest /\ owner[Parent[f.e]] = t
  BY <1>1
<1>3. Stacks
  BY DEF TreeInv
<1>4. /\ f.e \in Entities /\ h.todo \in Seq(Stages) /\ h.todo # << >> /\ h.e \in Entities
      /\ Kind[h.e] \in Kinds
  BY <1>3, OnFrames
<1>5. Kind[h.e] = "reader"
  BY <1>2, <1>4, TreeAssumption DEF Container
<1>6. ~Has(h.todo, "queries")
  <2>1. ShapeOK(h)
    BY DEF UsedInv, FunctionOK
  <2>2. Shaped(Kind[h.e], h.todo)
    BY <1>2, <2>1 DEF ShapeOK
  <2> QED
    BY <1>2, <1>4, <1>5, <2>2, Shapes DEF StageFacts
<1>7. ASSUME NEW u \in Threads, NEW g \in Funs(u), g.e = Parent[f.e], Inside(g.todo)
      PROVE  u = t /\ f.e \notin g.rest /\ ~Has(g.todo, "queries")
  <2>1. LockOK(u, g)
    BY DEF UsedInv, FunctionOK
  <2>2. u = t
    BY <1>2, <1>7, <2>1 DEF LockOK
  <2>3. g = h
    BY <1>2, <1>3, <1>7, <2>2, OnFrames
  <2> QED
    BY <1>2, <1>6, <2>2, <2>3
<1>8. ASSUME NEW u \in Threads, NEW g \in Funs(u), g.e = f.e
      PROVE  u = t
  BY <1>1, <1>2, <1>8
<1> QED
  BY <1>2, <1>4, <1>7, <1>8

(* The end of close().                                                     *)
LEMMA FinishKeeps ==
    ASSUME TreeInv, TreeInv', UsedInv, CreatesAlone, NEW t \in Threads,
           Delete(t) \/ CloseObject(t)
    PROVE  UsedInv'
<1>1. PICK stage \in {"delete", "closeObject"} : At(t, stage) /\ Finish(t)
  BY DEF Delete, CloseObject
<1>0. PICK f : f = Innermost(t) /\ TopIs(t, f, stage)
  BY <1>1, Tops
<1> USE DEF TopIs
<1>2. PICK e \in Entities : e = f.e
  BY <1>0
<1>3. /\ status' = [status EXCEPT ![e] = IF status[e] = "expired" THEN "expired" ELSE "closed"]
      /\ owner' = [owner EXCEPT ![e] = Nobody]
      /\ stack' = [stack EXCEPT ![t] = Tail(stack[t])]
      /\ UNCHANGED <<seen, born, enabled, members, nrDependents, holds>>
  BY <1>0, <1>1, <1>2 DEF Finish
<1>4. Inside(f.todo) /\ ~Making(f.todo) /\ ~Before(f) /\ f.rest = {}
  BY <1>0, StageKind DEF InsideStages
<1>5. /\ ShapeOK(f) /\ LockOK(t, f) /\ GrownOK(f) /\ CloseOK(f) /\ QueryOK(t, f) /\ KidsOK(t, f)
      /\ TopicOK(f) /\ DropOK(t, f)
  BY <1>0 DEF FunctionOK
<1>6. f.todo \in {<<"delete">>, <<"closeObject">>}
  <2>1. Shaped(Kind[f.e], f.todo)
    BY <1>4, <1>5 DEF ShapeOK
  <2> QED
    BY <1>0, <2>1, Shapes DEF StageFacts, Last3
<1>7. owner[e] = t /\ status[e] # "closed" /\ Grown(e) /\ status[e] # "unborn"
  <2>1. owner[e] = t /\ status[e] # "closed" /\ Grown(e)
    BY <1>2, <1>4, <1>5 DEF LockOK, GrownOK
  <2> QED
    BY <2>1 DEF UsedInv, Known, Grown
<1>8. /\ \A x \in Entities \ {e} : status'[x] = status[x] /\ owner'[x] = owner[x]
      /\ status'[e] = IF status[e] = "expired" THEN "expired" ELSE "closed"
      /\ owner'[e] = Nobody
  BY <1>3 DEF TreeInv, Typed
<1>9. /\ \A u \in Threads \ {t} : Funs(u)' = Funs(u)
      /\ Funs(t)' = Funs(t) \ {f}
  <2>1. Stacks /\ Busy(t)
    BY <1>1 DEF TreeInv, At
  <2>2. {Tail(stack[t])[i] : i \in 1 .. Len(Tail(stack[t]))} = Funs(t) \ {f}
    BY <1>0, <2>1, OnReturns
  <2>3. Funs(t)' = {Tail(stack[t])[i] : i \in 1 .. Len(Tail(stack[t]))}
    BY <1>3, <2>1, OnOthers
  <2>4. \A u \in Threads \ {t} : Funs(u)' = Funs(u)
    BY <1>3, <2>1, OnOthers
  <2> QED
    BY <2>2, <2>3, <2>4
<1>10. Turns(t, e) /\ born' \subseteq Entities
  <2>1. \A x \in born : status[x] # "unborn"
    BY DEF UsedInv, Known
  <2>2. \A x \in Entities : status'[x] = "unborn" => status[x] = "unborn" /\ x \notin born'
    BY <1>3, <1>8, <2>1
  <2> QED
    BY <1>3, <1>7, <1>8, <1>9, <2>2 DEF Turns, TreeInv, Typed
<1>11. ASSUME Kind[e] = "query", status'[e] = "closed"
       PROVE  /\ owner[Parent[e]] = t /\ Parent[e] \in Entities /\ Parent[e] # e
              /\ \A u \in Threads : \A g \in Funs(u) :
                    /\ g.e = e => u = t
                    /\ g.e = Parent[e] /\ Inside(g.todo) =>
                          u = t /\ e \notin g.rest /\ ~Has(g.todo, "queries")
  <2>1. status[e] # "expired"
    BY <1>8, <1>11
  <2>2. Parent[e] # e
    BY <1>11, TreeAssumption DEF Container
  <2> QED
    BY <1>0, <1>2, <1>11, <2>1, <2>2, QueryCloser
<1>12. Spares(t, e)
  <2>1. ASSUME NEW u \in Threads \ {t}, NEW x \in Entities, owner[x] = u
        PROVE  owner'[x] = u
    BY <1>7, <1>8, <2>1
  <2>2. ASSUME NEW u \in Threads \ {t}, NEW g \in Funs(u), g.e = e
        PROVE  /\ ~Making(g.todo) /\ ~Inside(g.todo)
               /\ status'[e] = "closed" /\ Kind[e] # "query"
    <3>1. ~Making(g.todo)
      <4>1. ASSUME Making(g.todo)
            PROVE  FALSE
        BY <1>0, <1>2, <2>2, <4>1, OnlyMaker
      <4> QED
        BY <4>1
    <3>2. ~Inside(g.todo)
      <4>1. LockOK(u, g)
        BY DEF UsedInv, FunctionOK
      <4> QED
        BY <1>7, <2>2, <4>1 DEF LockOK
    <3>3. status'[e] = "closed"
      BY <1>2, <1>5, <1>8, <2>2 DEF DropOK
    <3> QED
      BY <1>11, <2>2, <3>1, <3>2, <3>3
  <2>3. ASSUME NEW u \in Threads \ {t}, NEW g \in Funs(u), Making(g.todo)
        PROVE  e \notin {Parent[g.e], TopicOf[g.e]}
    BY <1>0, <1>2, <2>3, CreatorsAway
  <2>4. ASSUME NEW u \in Threads \ {t}, NEW g \in Funs(u), Inside(g.todo), g.e = Parent[e],
               Kind[e] = "query", status'[e] = "closed"
        PROVE  FALSE
    BY <1>11, <2>4
  <2> QED
    BY <1>3, <1>9, <2>1, <2>2, <2>3, <2>4 DEF Spares
<1>13. \A x \in Entities : Past(x) => Past(x)'
  <2>1. \A h \in Funs(t) : h \in Funs(t)' \/ status'[h.e] \in {"closed", "expired"}
    BY <1>2, <1>8, <1>9
  <2> QED
    BY <1>10, <2>1, TurnsPast
<1>14. CountersOK' /\ \A u \in Threads \ {t} : \A g \in Funs(u) : FunctionOK(u, g)'
  BY <1>10, <1>12, <1>13, OthersKeep
<1>15. \A d : Holders(d)' = Holders(d) /\ Counted(d)' = Counted(d)
  <2>1. \A d : Holders(d)' = Holders(d)
    BY <1>3 DEF Holders
  <2>2. \A x \in Entities :
            Grown(x)' \/ status'[x] = "closed" <=> Grown(x) \/ status[x] = "closed"
    BY <1>3, <1>7, <1>8 DEF Grown
  <2>3. Dependents \subseteq Entities
    BY Ranks
  <2> QED
    BY <1>3, <2>1, <2>2, <2>3 DEF Counted
<1>16. ASSUME NEW g \in Funs(t)'
       PROVE  FunctionOK(t, g)'
  <2>1. /\ g \in Funs(t) /\ g # f /\ g.e # e /\ Inside(g.todo) /\ g.todo[1] = "each"
        /\ Rank(g.e) < Rank(e)
    BY <1>0, <1>2, <1>9
  <2>2. /\ ShapeOK(g) /\ LockOK(t, g) /\ GrownOK(g) /\ CloseOK(g) /\ KidsOK(t, g)
        /\ TopicOK(g) /\ DropOK(t, g) /\ g.e \in Entities /\ ~Making(g.todo)
        /\ \A x \in g.rest : x \in Entities /\ Parent[x] = g.e
    <3>1. Stacks
      BY DEF TreeInv
    <3>2. FunctionOK(t, g) /\ FrameOK(g) /\ g.e \in Entities
      BY <2>1, <3>1, OnFrames DEF UsedInv
    <3> QED
      BY <2>1, <3>2, FirstStages DEF FunctionOK, FrameOK, Frames
  <2>3. ShapeOK(g)' /\ LockOK(t, g)' /\ MakeOK(t, g)' /\ TopicOK(g)'
    BY <1>8, <1>15, <2>1, <2>2 DEF ShapeOK, LockOK, MakeOK, TopicOK
  <2>4. GrownOK(g)'
    <3>1. \A x \in Entities : Grown(x) => Grown(x)'
      BY <1>3, <1>8 DEF Grown
    <3> QED
      BY <2>2, <3>1 DEF GrownOK
  <2>5. CloseOK(g)'
    <3>1. \A q \in Entities : Parent[q] = g.e /\ Kind[q] = "query" /\ status'[q] = "closed" =>
              \/ status[q] = "closed"
              \/ q \notin g.rest /\ ~Has(g.todo, "queries")
      BY <1>8, <1>11, <2>1
    <3>2. Has(g.todo, "queries") => \A q \in QueriesOf(g.e) : status'[q] # "closed"
      BY <2>1, <2>2, <3>1 DEF CloseOK, QueriesOf
    <3>3. \A q \in g.rest : Kind[q] = "query" => status'[q] # "closed"
      BY <2>1, <2>2, <3>1 DEF CloseOK
    <3> QED
      BY <1>3, <1>8, <2>1, <2>2, <3>2, <3>3 DEF CloseOK
  <2>6. QueryOK(t, g)' /\ CountOK(t, g)'
    <3>1. Kind[g.e] # "query"
      BY <2>1, <2>2, LoopsNotQuery
    <3> QED
      BY <2>1, <3>1 DEF QueryOK, CountOK
  <2>7. KidsOK(t, g)'
    <3> SUFFICES ASSUME NEW x \in born, Parent[x] = g.e
                 PROVE  \/ Past(x)' \/ Has(g.todo, StageOf(Kind[x])) \/ x \in g.rest
                        \/ \E h \in Funs(t)' : h.e = x
      BY <1>3 DEF KidsOK
    <3>1. x \in Entities
      BY DEF TreeInv, Typed
    <3>2. CASE \E h \in Funs(t) : h.e = x
      <4>1. CASE x = e
        BY <1>8, <4>1 DEF Past
      <4>2. CASE x # e
        BY <1>2, <1>9, <3>2, <4>2
      <4> QED
        BY <4>1, <4>2
    <3> QED
      BY <1>13, <2>1, <2>2, <3>1, <3>2 DEF KidsOK
  <2>8. DropOK(t, g)'
    <3> SUFFICES ASSUME status[g.e] = "expired", NEW u \in Threads, NEW h \in Funs(u)', h.e = g.e
                 PROVE  u = t
      BY <1>8, <2>1, <2>2 DEF DropOK
    <3> QED
      BY <1>9, <2>2 DEF DropOK
  <2> QED
    BY <2>3, <2>4, <2>5, <2>6, <2>7, <2>8 DEF FunctionOK
<1>17. Known'
  <2>1. \A h \in Funs(t) : ~Making(h.todo)
    <3>1. Stacks
      BY DEF TreeInv
    <3> QED
      BY <1>0, <1>4, <3>1, OnFrames, FirstStages
  <2> QED
    BY <1>10, <2>1, KnownKeeps
<1>18. Fresh'
  <2>1. \A g \in Funs(t)' : Before(g) => g.e = e \/ \E h \in Funs(t) : h.e = g.e /\ Before(h)
    BY <1>9
  <2>2. Kind[e] = "query" /\ status'[e] = "closed" =>
            status[e] = "closed" \/ owner'[Parent[e]] # Nobody
    BY <1>8, <1>11, TreeAssumption
  <2>3. ~(\/ e \in born' /\ status'[e] = "open"
          \/ status'[e] # "closed" /\ \E u \in Threads : \E g \in Funs(u)' : g.e = e /\ Before(g))
    <3> SUFFICES ASSUME status[e] = "expired", NEW u \in Threads, NEW g \in Funs(u)', g.e = e
                 PROVE  FALSE
      BY <1>8
    <3>1. u = t
      BY <1>2, <1>5, <1>9 DEF DropOK
    <3> QED
      BY <1>0, <1>2, <1>9, <3>1
  <2> QED
    BY <1>8, <1>10, <2>1, <2>2, <2>3, FreshKeeps
<1>19. KidsGone'
  <2> SUFFICES ASSUME NEW x \in born, Parent[x] # Nobody, status'[Parent[x]] = "closed"
               PROVE  Past(x)'
    BY <1>3 DEF KidsGone
  <2>1. x \in Entities /\ Parent[x] \in Entities /\ Rank(Parent[x]) < Rank(x)
    BY Ranks DEF TreeInv, Typed
  <2>2. CASE Parent[x] # e
    BY <1>8, <1>13, <2>1, <2>2 DEF UsedInv, KidsGone
  <2>3. CASE Parent[x] = e
    <3>1. ~Has(f.todo, StageOf(Kind[x]))
      <4>1. Kind[x] \in Kinds /\ Kind[x] # "participant"
        BY <2>1, TreeAssumption
      <4>2. StageOf(Kind[x]) \notin {"delete", "closeObject"}
        BY <4>1 DEF StageOf, Kinds
      <4> QED
        BY <1>6, <4>2 DEF Has
    <3>2. ~(\E h \in Funs(t) : h.e = x)
      <4> SUFFICES ASSUME NEW h \in Funs(t), h.e = x
                   PROVE  FALSE
        OBVIOUS
      <4>1. Rank(x) \in Int /\ Rank(e) \in Int
        BY <2>1, Ranks
      <4>2. h = f \/ Rank(h.e) < Rank(e)
        BY <1>0, <1>2
      <4> QED
        BY <1>2, <2>1, <2>3, <4>1, <4>2
    <3> QED
      BY <1>2, <1>4, <1>5, <1>13, <2>1, <2>3, <3>1, <3>2 DEF KidsOK
  <2> QED
    BY <2>2, <2>3
<1>20. UsersGone'
  <2> SUFFICES ASSUME NEW d \in Entities, Kind[d] = "topic", status'[d] = "closed"
               PROVE  Holders(d) = {}
    BY <1>15 DEF UsersGone
  <2>1. CASE d # e
    BY <1>8, <2>1 DEF UsedInv, UsersGone
  <2>2. CASE d = e
    <3>1. ~Has(f.todo, "dependents")
      BY <1>6 DEF Has
    <3> QED
      BY <1>2, <1>4, <1>5, <2>2, <3>1 DEF TopicOK
  <2> QED
    BY <2>1, <2>2
<1> QED
  BY <1>14, <1>9, <1>16, <1>17, <1>18, <1>19, <1>20 DEF UsedInv

-----------------------------------------------------------------------------
(* The function of a thread that has but one.                              *)
LEMMA OnOne ==
    ASSUME TreeInv, NEW t \in Threads, NEW h, stack' = [stack EXCEPT ![t] = <<h>>]
    PROVE  Funs(t)' = {h} /\ \A u \in Threads \ {t} : Funs(u)' = Funs(u)
<1>1. Stacks
  BY DEF TreeInv
<1>2. /\ \A u \in Threads \ {t} : Funs(u)' = Funs(u)
      /\ Funs(t)' = {<<h>>[i] : i \in 1 .. Len(<<h>>)}
  BY <1>1, OnOthers
<1>3. {<<h>>[i] : i \in 1 .. Len(<<h>>)} = {h}
  OBVIOUS
<1> QED
  BY <1>2, <1>3

(* A function that has not begun says little.                              *)
LEMMA Begun ==
    ASSUME NEW t \in Threads, NEW e \in Entities, NEW h,
           h = Frame(e, Body(Kind[e])) \/ h = Frame(e, DestructorBody(Kind[e]))
    PROVE  /\ h.e = e /\ h.rest = {} /\ Before(h) /\ ~Inside(h.todo) /\ ~Making(h.todo)
           /\ h.todo[1] \in {"check", "lock", "unregister"}
           /\ h.todo[1] = "unregister" => Kind[e] = "query" /\ h # Frame(e, Body(Kind[e]))
           /\ /\ Grown(e)'
              /\ DropOK(t, h)'
              /\ Kind[e] = "query" => status'[e] = "expired"
              => FunctionOK(t, h)'
<1>1. h.e = e /\ h.rest = {} /\ Before(h) /\ FrameOK(h)
  <2>1. FrameOK(h)
    BY NewFrames
  <2>2. h.e = e /\ h.rest = {} /\ h.todo \in {Body(Kind[e]), DestructorBody(Kind[e])}
    BY DEF Frame
  <2> QED
    BY <2>1, <2>2 DEF Before
<1>2. ~Inside(h.todo) /\ ~Making(h.todo)
  BY <1>1, FirstStages
<1>3. /\ h.todo[1] \in {"check", "lock", "unregister"}
      /\ h.todo[1] = "unregister" => Kind[e] = "query" /\ h # Frame(e, Body(Kind[e]))
  <2>1. Kind[e] \in Kinds
    BY TreeAssumption
  <2>2. h.todo = Body(Kind[e]) \/ (h.todo = DestructorBody(Kind[e]) /\ h.todo # Body(Kind[e]))
    BY DEF Frame
  <2>3. CASE Kind[e] # "query"
    BY <2>1, <2>2, <2>3, Literals DEF DestructorBody
  <2>4. CASE Kind[e] = "query"
    BY <2>2, <2>4, Literals DEF Frame
  <2> QED
    BY <2>3, <2>4
<1>4. ASSUME Grown(e)', DropOK(t, h)', Kind[e] = "query" => status'[e] = "expired"
      PROVE  FunctionOK(t, h)'
  <2>1. /\ ShapeOK(h)' /\ LockOK(t, h)' /\ GrownOK(h)' /\ MakeOK(t, h)' /\ CloseOK(h)'
        /\ KidsOK(t, h)' /\ CountOK(t, h)' /\ TopicOK(h)'
    BY <1>1, <1>2, <1>3, <1>4
       DEF ShapeOK, LockOK, GrownOK, MakeOK, CloseOK, KidsOK, CountOK, TopicOK
  <2>2. QueryOK(t, h)'
    BY <1>1, <1>4 DEF QueryOK
  <2> QED
    BY <1>4, <2>1, <2>2 DEF FunctionOK
<1> QED
  BY <1>1, <1>2, <1>3, <1>4

(* A constructor at its end.                                               *)
LEMMA LastStages ==
    ASSUME TreeInv, UsedInv, NEW t \in Threads, NEW stage \in {"autoEnable", "enable"},
           At(t, stage)
    PROVE  \E f : /\ f = Innermost(t) /\ TopIs(t, f, stage) /\ Making(f.todo) /\ Funs(t) = {f}
                  /\ ~Inside(f.todo) /\ f.e \in Unborn /\ f.e \in Endpoints
                  /\ f.e \notin born /\ status[f.e] = "open" /\ f.e \in holds
                  /\ Parent[f.e] \in Entities /\ f.e \in members[Parent[f.e]]
                  /\ status[Parent[f.e]] # "closed" /\ Parent[f.e] # f.e
                  /\ QueriesOf(f.e) = {}
                  /\ \A u \in Threads \ {t} : \A g \in Funs(u) : g.e # f.e
<1>0. PICK f : f = Innermost(t) /\ TopIs(t, f, stage)
  BY Tops
<1> USE DEF TopIs
<1>1. Making(f.todo) /\ ~Inside(f.todo) /\ Funs(t) = {f}
  <2>1. Making(f.todo)
    BY <1>0, StageKind DEF MakingStages
  <2> QED
    BY <1>0, <2>1, FirstStages
<1>2. MakeOK(t, f) /\ ShapeOK(f)
  BY <1>0 DEF FunctionOK
<1>3. f.e \in Unborn /\ f.e \in Endpoints /\ f.e \notin born /\ status[f.e] = "open"
  BY <1>1, <1>2, CallsAssumption DEF MakeOK
<1>4. /\ ~Has(f.todo, "handleParent") /\ ~Has(f.todo, "incr") /\ ~Has(f.todo, "register")
  <2>1. f.todo \in MakingOf(Kind[f.e])
    BY <1>1, <1>2 DEF ShapeOK
  <2> QED
    BY <1>0, <2>1, MakingShapes DEF MakingFacts
<1>5. Parent[f.e] \in Entities /\ Parent[f.e] # f.e
  <2>1. Parent[f.e] \in Entities
    BY <1>3, Ranks
  <2>2. Kind[f.e] \in {"reader", "writer"} /\ Kind[Parent[f.e]] = Container[Kind[f.e]]
    BY <1>0, <1>3, TreeAssumption DEF Endpoints
  <2> QED
    BY <2>1, <2>2 DEF Container
<1>6. QueriesOf(f.e) = {}
  BY <1>3, CallsAssumption DEF QueriesOf
<1>7. \A u \in Threads \ {t} : \A g \in Funs(u) : g.e # f.e
  BY <1>0, <1>1, OnlyMaker
<1> QED
  BY <1>0, <1>1, <1>2, <1>3, <1>4, <1>5, <1>6, <1>7 DEF MakeOK

(* init() fails: the destructor takes over.                                *)
LEMMA DestroyKeeps ==
    ASSUME TreeInv, TreeInv', UsedInv, NEW t \in Threads,
           NEW stage \in {"autoEnable", "enable"}, At(t, stage), Destroy(t)
    PROVE  UsedInv'
<1>0. PICK f : /\ f = Innermost(t) /\ TopIs(t, f, stage) /\ Making(f.todo) /\ Funs(t) = {f}
               /\ ~Inside(f.todo) /\ f.e \in Unborn /\ f.e \in Endpoints
               /\ f.e \notin born /\ status[f.e] = "open" /\ f.e \in holds
               /\ Parent[f.e] \in Entities /\ f.e \in members[Parent[f.e]]
               /\ status[Parent[f.e]] # "closed" /\ Parent[f.e] # f.e
               /\ QueriesOf(f.e) = {}
               /\ \A u \in Threads \ {t} : \A g \in Funs(u) : g.e # f.e
  BY LastStages
<1>1. PICK e \in Entities : e = f.e /\ e = Self(t)
  BY <1>0 DEF TopIs
<1>2. PICK h : h = Frame(e, DestructorBody(Kind[e]))
  OBVIOUS
<1>3. /\ stack' = [stack EXCEPT ![t] = <<h>>]
      /\ status' = [status EXCEPT ![e] = "expired"]
      /\ UNCHANGED <<seen, owner, born, members, nrDependents, holds, alive>>
  BY <1>0, <1>1, <1>2 DEF Destroy
<1>4. /\ \A x \in Entities \ {e} : status'[x] = status[x]
      /\ status'[e] = "expired"
  BY <1>3 DEF TreeInv, Typed
<1>5. Funs(t)' = {h} /\ \A u \in Threads \ {t} : Funs(u)' = Funs(u)
  BY <1>3, OnOne
<1>6. /\ h.e = e /\ Before(h) /\ ~Making(h.todo) /\ ~Inside(h.todo)
      /\ Grown(e)' /\ DropOK(t, h)' => FunctionOK(t, h)'
  BY <1>2, <1>4, Begun
<1>7. Turns(t, e) /\ born' \subseteq Entities
  <2>1. \A x \in born : status[x] # "unborn"
    BY DEF UsedInv, Known
  <2>2. \A x \in Entities : status'[x] = "unborn" => status[x] = "unborn" /\ x \notin born'
    BY <1>3, <1>4, <2>1
  <2> QED
    BY <1>0, <1>1, <1>3, <1>4, <1>5, <2>2 DEF Turns, TreeInv, Typed
<1>8. Spares(t, e)
  BY <1>0, <1>1, <1>3, <1>4, <1>5, <1>6 DEF Spares
<1>9. \A x \in Entities : Past(x) => Past(x)'
  BY <1>0, <1>7, TurnsPast
<1>10. CountersOK' /\ \A u \in Threads \ {t} : \A g \in Funs(u) : FunctionOK(u, g)'
  BY <1>7, <1>8, <1>9, OthersKeep
<1>11. Grown(e)'
  BY <1>4 DEF Grown
<1>12. FunctionOK(t, h)'
  <2>1. DropOK(t, h)'
    BY <1>0, <1>1, <1>5, <1>6 DEF DropOK
  <2> QED
    BY <1>6, <1>11, <2>1
<1>13. Known'
  BY <1>0, <1>1, <1>7, <1>11, KnownKeeps
<1>14. Fresh'
  <2>1. Intact(e)'
    BY <1>0, <1>1, <1>3, <1>4 DEF Intact
  <2>2. Kind[e] # "query"
    BY <1>0, <1>1 DEF Endpoints
  <2> QED
    BY <1>3, <1>5, <1>6, <1>7, <2>1, <2>2, FreshKeeps
<1>15. KidsGone'
  <2>1. born \subseteq Entities
    BY DEF TreeInv, Typed
  <2>2. \A x \in born : Parent[x] # Nobody => Parent[x] \in Entities
    BY <2>1, Ranks
  <2> QED
    BY <1>3, <1>4, <1>9, <2>1, <2>2 DEF UsedInv, KidsGone
<1>16. UsersGone'
  <2>1. \A d : Holders(d)' = Holders(d)
    BY <1>3 DEF Holders
  <2> QED
    BY <1>4, <2>1 DEF UsedInv, UsersGone
<1> QED
  BY <1>5, <1>10, <1>12, <1>13, <1>14, <1>15, <1>16 DEF UsedInv

(* The constructor returns.                                                *)
LEMMA EnableKeeps ==
    ASSUME TreeInv, TreeInv', UsedInv, CreatesAlone, NEW t \in Threads, Enable(t), ~Destroy(t)
    PROVE  UsedInv'
<1>1. At(t, "enable") /\ stack' = [stack EXCEPT ![t] = << >>] /\ born' = born \cup {Self(t)}
      /\ UNCHANGED <<seen, owner, status, members, nrDependents, holds, alive>>
  BY DEF Enable
<1>0. PICK f : /\ f = Innermost(t) /\ TopIs(t, f, "enable") /\ Making(f.todo) /\ Funs(t) = {f}
               /\ ~Inside(f.todo) /\ f.e \in Unborn /\ f.e \in Endpoints
               /\ f.e \notin born /\ status[f.e] = "open" /\ f.e \in holds
               /\ Parent[f.e] \in Entities /\ f.e \in members[Parent[f.e]]
               /\ status[Parent[f.e]] # "closed" /\ Parent[f.e] # f.e
               /\ QueriesOf(f.e) = {}
               /\ \A u \in Threads \ {t} : \A g \in Funs(u) : g.e # f.e
  BY <1>1, LastStages
<1>2. PICK e \in Entities : e = f.e /\ e = Self(t)
  BY <1>0 DEF TopIs
<1>3. born' = born \cup {e} /\ born \subseteq Entities
  BY <1>1, <1>2 DEF TreeInv, Typed
<1>4. Funs(t)' = {} /\ \A u \in Threads \ {t} : Funs(u)' = Funs(u)
  BY <1>1 DEF Funs, TreeInv, Stacks
<1>5. Turns(t, e) /\ born' \subseteq Entities
  <2>1. \A x \in born : status[x] # "unborn"
    BY DEF UsedInv, Known
  <2> QED
    BY <1>0, <1>1, <1>2, <1>3, <1>4, <2>1 DEF Turns
<1>6. Spares(t, e)
  <2>1. \A u \in Threads \ {t} : \A g \in Funs(u) : g.e # Parent[e] /\ g.e # e
    BY <1>0, <1>2, CreatorsAway
  <2> QED
    BY <1>1, <1>4, <2>1 DEF Spares
<1>7. \A x \in Entities : Past(x) => Past(x)'
  BY <1>0, <1>5, TurnsPast
<1>8. CountersOK' /\ \A u \in Threads \ {t} : \A g \in Funs(u) : FunctionOK(u, g)'
  BY <1>5, <1>6, <1>7, OthersKeep
<1>9. Known'
  <2>1. Grown(e)'
    BY <1>3 DEF Grown
  <2> QED
    BY <1>0, <1>2, <1>5, <2>1, KnownKeeps
<1>10. Fresh'
  <2>1. Intact(e)'
    BY <1>0, <1>1, <1>2 DEF Intact
  <2>2. Kind[e] # "query"
    BY <1>0, <1>2 DEF Endpoints
  <2> QED
    BY <1>1, <1>4, <1>5, <2>1, <2>2, FreshKeeps
<1>11. KidsGone' /\ UsersGone'
  <2>1. \A d : Holders(d)' = Holders(d)
    BY <1>1 DEF Holders
  <2> QED
    BY <1>0, <1>1, <1>2, <1>3, <1>7, <2>1 DEF UsedInv, KidsGone, UsersGone
<1> QED
  BY <1>4, <1>8, <1>9, <1>10, <1>11 DEF UsedInv

(* No thread calls close() of a read condition itself.                     *)
NoQueryCloses == \A t \in Threads : \A e \in MayClose[t] : Kind[e] # "query"

LEMMA CallKeeps ==
    ASSUME TreeInv, TreeInv', UsedInv, NoQueryCloses, NEW t \in Threads, NEW e \in Entities,
           Close(t, e)
    PROVE  UsedInv'
<1>1. PICK h : h = Frame(e, Body(Kind[e]))
  OBVIOUS
<1>2. /\ ~Busy(t) /\ e \in MayClose[t] \cap born /\ status[e] # "expired"
      /\ stack' = [stack EXCEPT ![t] = <<h>>]
      /\ UNCHANGED <<seen, owner, status, born, enabled, members, nrDependents, holds, alive>>
  BY <1>1 DEF Close
<1>3. Funs(t) = {}
  BY <1>2, OnFrames DEF Busy, TreeInv
<1>4. Funs(t)' = {h} /\ \A u \in Threads \ {t} : Funs(u)' = Funs(u)
  BY <1>2, OnOne
<1>5. FunctionOK(t, h)'
  <2>1. Grown(e)'
    BY <1>2 DEF Grown
  <2>2. DropOK(t, h)'
    <3>1. h.e = e
      BY <1>1, Begun
    <3> QED
      BY <1>2, <3>1 DEF DropOK
  <2>3. Kind[e] # "query"
    BY <1>2 DEF NoQueryCloses
  <2> QED
    BY <1>1, <2>1, <2>2, <2>3, Begun
<1>6. h.e = e /\ ~Making(h.todo)
  BY <1>1, Begun
<1>7. FramesGo(t, e)
  BY <1>2, <1>3, <1>4, <1>5, <1>6 DEF FramesGo
<1>8. Touches(t, e)
  BY <1>2, StillTouches DEF OnlyStack
<1> QED
  BY <1>7, <1>8, TouchKeeps

(* Nothing is in progress for what has no constructor running.             *)
LEMMA CreateKeeps ==
    ASSUME TreeInv, TreeInv', UsedInv, NEW t \in Threads, NEW e \in Entities, Create(t, e)
    PROVE  UsedInv'
<1>1. PICK h : h = Frame(e, ConstructorBody(Kind[e]))
  OBVIOUS
<1>2. /\ ~Busy(t) /\ e \in MayCreate[t] /\ status[e] = "unborn"
      /\ status' = [status EXCEPT ![e] = "open"]
      /\ stack' = [stack EXCEPT ![t] = <<h>>]
      /\ UNCHANGED <<seen, owner, born, enabled, members, nrDependents, holds, alive>>
  BY <1>1 DEF Create
<1>3. /\ status'[e] = "open"
      /\ \A x \in Entities \ {e} : status'[x] = status[x]
  BY <1>2 DEF TreeInv, Typed
<1>4. Funs(t) = {}
  BY <1>2, OnFrames DEF Busy, TreeInv
<1>5. Funs(t)' = {h} /\ \A u \in Threads \ {t} : Funs(u)' = Funs(u)
  BY <1>2, OnOne
<1>6. e \in Unborn /\ Kind[e] \in {"reader", "writer"} /\ e \in Endpoints
  BY <1>2, CallsAssumption DEF Endpoints
<1>7. e \notin born /\ e \notin holds
  BY <1>2 DEF UsedInv, Known
<1>8. \A u \in Threads : \A g \in Funs(u) : g.e # e
  <2> SUFFICES ASSUME NEW u \in Threads, NEW g \in Funs(u), g.e = e
               PROVE  FALSE
    OBVIOUS
  <2>1. FunctionOK(u, g)
    BY DEF UsedInv
  <2>2. Making(g.todo)
    BY <1>2, <1>7, <2>1 DEF FunctionOK, GrownOK, Grown
  <2> QED
    BY <1>2, <2>1, <2>2 DEF FunctionOK, MakeOK
<1>9. h.e = e /\ h.rest = {} /\ h.todo = ConstructorBody(Kind[e])
  BY <1>1 DEF Frame
<1>10. /\ h.todo \in MakingOf(Kind[e]) /\ Has(h.todo, "handleParent")
       /\ Has(h.todo, "handleTopic") /\ Has(h.todo, "incr") /\ Has(h.todo, "register")
       /\ h.todo[1] = "handleParent"
  <2>1. ConstructorBody(Kind[e])[1] = "handleParent"
    BY DEF ConstructorBody
  <2> QED
    BY <1>6, <1>9, <2>1, Started
<1>11. FrameOK(h) /\ ~Inside(h.todo) /\ ~Before(h) /\ Making(h.todo)
  <2>1. FrameOK(h)
    BY <1>1, <1>6, NewFrames
  <2>2. Making(h.todo)
    BY <1>6, <1>9, Constructors
  <2> QED
    BY <2>1, <2>2, FirstStages
<1>12. FunctionOK(t, h)'
  <2>1. MakeOK(t, h)'
    BY <1>2, <1>3, <1>5, <1>6, <1>7, <1>8, <1>9, <1>10 DEF MakeOK
  <2>2. /\ ShapeOK(h)' /\ LockOK(t, h)' /\ GrownOK(h)' /\ CloseOK(h)'
        /\ QueryOK(t, h)' /\ KidsOK(t, h)' /\ CountOK(t, h)' /\ TopicOK(h)' /\ DropOK(t, h)'
    BY <1>3, <1>6, <1>9, <1>10, <1>11
       DEF ShapeOK, LockOK, GrownOK, CloseOK, QueryOK, KidsOK, CountOK, TopicOK, DropOK
  <2> QED
    BY <2>1, <2>2 DEF FunctionOK
<1>13. Turns(t, e) /\ born' \subseteq Entities
  <2>1. \A x \in born : status[x] # "unborn"
    BY DEF UsedInv, Known
  <2> QED
    BY <1>2, <1>3, <1>5, <2>1 DEF Turns, TreeInv, Typed
<1>14. Spares(t, e)
  <2>1. Kind[e] # "query"
    BY <1>6
  <2> QED
    BY <1>2, <1>3, <1>5, <1>8, <1>9, <2>1 DEF Spares
<1>15. \A x \in Entities : Past(x) => Past(x)'
  BY <1>4, <1>13, TurnsPast
<1>16. CountersOK' /\ \A u \in Threads \ {t} : \A g \in Funs(u) : FunctionOK(u, g)'
  BY <1>13, <1>14, <1>15, OthersKeep
<1>17. Known'
  BY <1>4, <1>13, KnownKeeps
<1>18. Fresh'
  <2>1. ~\E u \in Threads : \E g \in Funs(u)' : g.e = e /\ Before(g)
    BY <1>5, <1>8, <1>11
  <2> QED
    BY <1>2, <1>5, <1>6, <1>7, <1>11, <1>13, <2>1, FreshKeeps
<1>19. KidsGone'
  <2>1. \A x \in born : Parent[x] # Nobody => Parent[x] \in Entities
    BY Ranks DEF TreeInv, Typed
  <2> QED
    BY <1>2, <1>3, <1>13, <1>15, <2>1 DEF UsedInv, KidsGone
<1>20. UsersGone'
  <2>1. \A d : Holders(d)' = Holders(d)
    BY <1>2 DEF Holders
  <2> QED
    BY <1>3, <2>1 DEF UsedInv, UsersGone
<1> QED
  BY <1>5, <1>12, <1>16, <1>17, <1>18, <1>19, <1>20 DEF UsedInv

LEMMA DropKeeps ==
    ASSUME TreeInv, TreeInv', UsedInv, NEW t \in Threads, NEW e \in Entities, Drop(t, e)
    PROVE  UsedInv'
<1>1. PICK h : h = Frame(e, DestructorBody(Kind[e]))
  OBVIOUS
<1>2. /\ ~Busy(t) /\ e \in born /\ status[e] = "open"
      /\ status' = [status EXCEPT ![e] = "expired"]
      /\ stack' = [stack EXCEPT ![t] = <<h>>]
      /\ UNCHANGED <<seen, owner, born, enabled, members, nrDependents, holds, alive>>
  BY <1>1 DEF Drop
<1>3. /\ status'[e] = "expired"
      /\ \A x \in Entities \ {e} : status'[x] = status[x]
  BY <1>2 DEF TreeInv, Typed
<1>4. Funs(t) = {}
  BY <1>2, OnFrames DEF Busy, TreeInv
<1>5. Funs(t)' = {h} /\ \A u \in Threads \ {t} : Funs(u)' = Funs(u)
  BY <1>2, OnOne
<1>6. \A u \in Threads : \A g \in Funs(u) : g.e # e
  BY DEF Drop, Funs
<1>7. h.e = e /\ ~Making(h.todo)
  BY <1>1, Begun
<1>8. FunctionOK(t, h)'
  <2>1. Grown(e)'
    BY <1>3 DEF Grown
  <2>2. DropOK(t, h)'
    BY <1>5, <1>6, <1>7 DEF DropOK
  <2> QED
    BY <1>1, <1>3, <2>1, <2>2, Begun
<1>9. Turns(t, e) /\ born' \subseteq Entities
  <2>1. \A x \in born : status[x] # "unborn"
    BY DEF UsedInv, Known
  <2> QED
    BY <1>2, <1>3, <1>5, <2>1 DEF Turns, TreeInv, Typed
<1>10. Spares(t, e)
  BY <1>2, <1>3, <1>5, <1>6, <1>7 DEF Spares
<1>11. \A x \in Entities : Past(x) => Past(x)'
  BY <1>4, <1>9, TurnsPast
<1>12. CountersOK' /\ \A u \in Threads \ {t} : \A g \in Funs(u) : FunctionOK(u, g)'
  BY <1>9, <1>10, <1>11, OthersKeep
<1>13. Known'
  BY <1>4, <1>9, KnownKeeps
<1>14. Fresh'
  <2>1. Intact(e)
    <3>1. owner[e] = Nobody
      <4>1. owner[e] # Nobody => owner[e] \in Threads /\ \E g \in Funs(owner[e]) : g.e = e
        BY HasFunction
      <4> QED
        BY <1>6, <4>1
    <3> QED
      BY <1>2, <3>1 DEF UsedInv, Fresh
  <2>2. Intact(e)'
    <3>1. \A q \in QueriesOf(e) : status[q] # "closed" => status'[q] # "closed"
      BY <1>3 DEF QueriesOf
    <3> QED
      BY <1>2, <1>3, <2>1, <3>1 DEF Intact
  <2> QED
    BY <1>2, <1>3, <1>5, <1>7, <1>9, <2>2, FreshKeeps
<1>15. KidsGone'
  <2>1. \A x \in born : Parent[x] # Nobody => Parent[x] \in Entities
    BY Ranks DEF TreeInv, Typed
  <2> QED
    BY <1>2, <1>3, <1>9, <1>11, <2>1 DEF UsedInv, KidsGone
<1>16. UsersGone'
  <2>1. \A d : Holders(d)' = Holders(d)
    BY <1>2 DEF Holders
  <2> QED
    BY <1>3, <2>1 DEF UsedInv, UsersGone
<1> QED
  BY <1>5, <1>8, <1>12, <1>13, <1>14, <1>15, <1>16 DEF UsedInv

(***************************************************************************)
(* The invariant of what is used.                                          *)
(***************************************************************************)
LEMMA UsedInit == Init /\ TreeInv => UsedInv
<1> SUFFICES ASSUME Init, TreeInv
             PROVE  UsedInv
  OBVIOUS
<1>1. \A t \in Threads : Funs(t) = {}
  <2> SUFFICES ASSUME NEW t \in Threads
               PROVE  Funs(t) = {}
    OBVIOUS
  <2>1. stack[t] = << >>
    BY DEF Init
  <2> QED
    BY <2>1, OnFrames DEF TreeInv
<1>2. /\ \A x \in Entities : /\ status[x] \in {"unborn", "open"}
                             /\ status[x] = "unborn" <=> x \in Unborn
                             /\ members[x] = {y \in Entities \ Unborn : Parent[y] = x}
                             /\ nrDependents[x] =
                                  Cardinality({y \in Dependents \ Unborn : TopicOf[y] = x})
      /\ born = Entities \ Unborn /\ holds = Dependents \ Unborn
  BY DEF Init
<1>3. Dependents \subseteq Entities
  BY Ranks
<1>4. Known
  BY <1>2, <1>3 DEF Known, Grown
<1>5. Fresh
  <2> SUFFICES ASSUME NEW x \in born
               PROVE  Intact(x)
    BY <1>1 DEF Fresh
  <2>1. Parent[x] # Nobody => Parent[x] \in Entities
    BY <1>2, Ranks
  <2> QED
    BY <1>2, <2>1 DEF Intact, QueriesOf
<1>6. KidsGone /\ UsersGone
  <2>1. \A x \in born : Parent[x] # Nobody => Parent[x] \in Entities
    BY <1>2, Ranks
  <2> QED
    BY <1>2, <2>1 DEF KidsGone, UsersGone
<1>7. CountersOK
  <2> SUFFICES ASSUME NEW d \in Entities
               PROVE  /\ Cardinality(Holders(d)) <= nrDependents[d]
                      /\ nrDependents[d] <= Cardinality(Counted(d))
    BY DEF CountersOK
  <2>1. Holders(d) = {y \in Dependents \ Unborn : TopicOf[y] = d}
    BY <1>2 DEF Holders
  <2>2. Counted(d) = {y \in Dependents \ Unborn : TopicOf[y] = d}
    BY <1>2, <1>3 DEF Counted, Grown
  <2>3. Cardinality(Holders(d)) \in Nat
    BY Finite
  <2> QED
    BY <1>2, <2>1, <2>2, <2>3
<1> QED
  BY <1>1, <1>4, <1>5, <1>6, <1>7 DEF UsedInv

LEMMA UsedStays ==
    ASSUME UsedInv, UNCHANGED vars
    PROVE  UsedInv'
<1>1. \A t : Funs(t)' = Funs(t)
  BY DEF Funs, vars
<1>2. (\A x : Past(x)' <=> Past(x)) /\ (\A x : Grown(x)' <=> Grown(x))
  BY <1>1 DEF Past, Parting, Grown, vars
<1>3. \A d : Holders(d)' = Holders(d) /\ Counted(d)' = Counted(d)
  BY <1>2 DEF Holders, Counted, vars
<1>4. \A t \in Threads : \A f \in Funs(t) : FunctionOK(t, f)'
  <2> SUFFICES ASSUME NEW t \in Threads, NEW f \in Funs(t)
               PROVE  FunctionOK(t, f)'
    OBVIOUS
  <2>1. FunctionOK(t, f)
    BY DEF UsedInv
  <2>2. ShapeOK(f)' /\ LockOK(t, f)' /\ GrownOK(f)' /\ CloseOK(f)'
    BY <1>2, <2>1 DEF FunctionOK, ShapeOK, LockOK, GrownOK, CloseOK, vars
  <2>3. MakeOK(t, f)' /\ QueryOK(t, f)' /\ DropOK(t, f)'
    BY <1>1, <2>1 DEF FunctionOK, MakeOK, QueryOK, DropOK, vars
  <2>4. KidsOK(t, f)'
    BY <1>1, <1>2, <2>1 DEF FunctionOK, KidsOK, vars
  <2>5. CountOK(t, f)' /\ TopicOK(f)'
    BY <1>3, <2>1 DEF FunctionOK, CountOK, TopicOK, vars
  <2> QED
    BY <2>2, <2>3, <2>4, <2>5 DEF FunctionOK
<1>5. Known' /\ KidsGone'
  BY <1>1, <1>2 DEF UsedInv, Known, KidsGone, vars
<1>6. Fresh'
  BY <1>1 DEF UsedInv, Fresh, Intact, vars
<1>7. UsersGone' /\ CountersOK'
  BY <1>3 DEF UsedInv, UsersGone, CountersOK, vars
<1> QED
  BY <1>1, <1>4, <1>5, <1>6, <1>7 DEF UsedInv

LEMMA UsedNext ==
    ASSUME TreeInv, TreeInv', UsedInv, CreatesAlone, NoQueryCloses, [Next]_vars
    PROVE  UsedInv'
<1>1. CASE UNCHANGED vars
  BY <1>1, UsedStays
<1>2. ASSUME NEW t \in Threads, Step(t)
      PROVE  UsedInv'
  <2>1. CASE Throws(t)
    BY <2>1, RaiseKeeps
  <2>2. CASE ~Throws(t) /\ Lock(t)
    BY <2>2, LockKeeps
  <2>3. CASE Copy(t)
    BY <2>3, CopyKeeps
  <2>4. CASE Each(t)
    BY <2>4, EachKeeps
  <2>5. CASE Unregister(t)
    BY <2>5, UnregisterKeeps
  <2>6. CASE Register(t)
    BY <2>6, RegisterKeeps
  <2>7. CASE Decr(t)
    BY <2>7, DecrKeeps
  <2>8. CASE Incr(t)
    BY <2>8, IncrKeeps
  <2>9. CASE Delete(t) \/ CloseObject(t)
    BY <2>9, FinishKeeps
  <2>10. CASE Enable(t)
    <3>1. CASE Destroy(t)
      BY <2>10, <3>1, DestroyKeeps DEF Enable
    <3>2. CASE ~Destroy(t)
      BY <2>10, <3>2, EnableKeeps
    <3> QED
      BY <3>1, <3>2
  <2>11. CASE AutoEnable(t) /\ Destroy(t)
    BY <2>11, DestroyKeeps DEF AutoEnable
  <2>12. CASE /\ ~Throws(t)
              /\ \/ Check(t) \/ EachDone(t) \/ HasDependents(t) \/ Listener(t) \/ ReadDecr(t)
                 \/ HandleParent(t) \/ HandleTopic(t) \/ CreateC(t) \/ ReadIncr(t)
                 \/ (AutoEnable(t) /\ ~Destroy(t))
    BY <2>12, LooksKeep
  <2> QED
    BY <1>2, <2>1, <2>2, <2>3, <2>4, <2>5, <2>6, <2>7, <2>8, <2>9, <2>10, <2>11, <2>12 DEF Step
<1>3. ASSUME NEW t \in Threads, NEW e \in Entities, Close(t, e) \/ Create(t, e) \/ Drop(t, e)
      PROVE  UsedInv'
  BY <1>3, CallKeeps, CreateKeeps, DropKeeps
<1> QED
  BY <1>1, <1>2, <1>3 DEF Next
(* What the invariant says of closed containers and closed topics.         *)
LEMMA UsedInvGives == TreeInv /\ UsedInv => UsedOutlives
<1> SUFFICES ASSUME TreeInv, UsedInv
             PROVE  UsedOutlives
  OBVIOUS
<1>1. ASSUME NEW x \in Entities, Parting(x)
      PROVE  Leaving(x)
  <2>0. PICK t \in Threads :
            \E f \in Funs(t) : f.e = x /\ Inside(f.todo) /\ ~Has(f.todo, "unregister")
    BY <1>1 DEF Parting
  <2>1. PICK f \in Funs(t) : f.e = x /\ Inside(f.todo) /\ ~Has(f.todo, "unregister")
    BY <2>0
  <2>2. Stacks /\ FunctionOK(t, f)
    BY DEF TreeInv, UsedInv
  <2>3. /\ Kind[f.e] \in Kinds /\ f.todo \in Seq(Stages) /\ f.todo # << >>
        /\ \A g \in Funs(t) : g.e = f.e => g = f
    BY <2>2, OnFrames
  <2>4. Shaped(Kind[f.e], f.todo)
    BY <2>1, <2>2 DEF FunctionOK, ShapeOK
  <2>5. StageFacts(Kind[f.e], f.todo)
    BY <2>3, <2>4, Shapes
  <2>6. f.todo[1] \in {"readDecr", "decr", "queries", "each", "delete", "closeObject"}
    BY <2>1, <2>5 DEF StageFacts
  <2>7. ~Doing(t, x, "unregister")
    <3> SUFFICES ASSUME NEW i \in 1 .. Len(stack[t]), stack[t][i].e = x,
                        NEW j \in 1 .. Len(stack[t][i].todo), stack[t][i].todo[j] = "unregister"
                 PROVE  FALSE
      BY DEF Doing
    <3>1. stack[t][i] = f
      BY <2>1, <2>3 DEF Funs
    <3> QED
      BY <2>1, <3>1 DEF Has
  <2>8. PICK i \in 1 .. Len(stack[t]) : stack[t][i] = f
    BY DEF Funs
  <2> QED
    BY <2>1, <2>6, <2>7, <2>8 DEF Leaving
<1>2. ParentOutlives
  <2> SUFFICES ASSUME NEW x \in born, Parent[x] # Nobody, status[Parent[x]] = "closed"
               PROVE  status[x] \in {"closed", "expired"} \/ Leaving(x)
    BY DEF ParentOutlives
  <2>1. x \in Entities
    BY DEF TreeInv, Typed
  <2> QED
    BY <1>1, <2>1 DEF UsedInv, KidsGone, Past
<1>3. TopicOutlives
  <2> SUFFICES ASSUME NEW x \in holds, Kind[TopicOf[x]] = "topic", status[TopicOf[x]] = "closed"
               PROVE  FALSE
    BY DEF TopicOutlives
  <2>1. TopicOf[x] \in Entities
    BY Ranks DEF TreeInv, Typed
  <2>2. Holders(TopicOf[x]) = {}
    BY <2>1 DEF UsedInv, UsersGone
  <2> QED
    BY <2>2 DEF Holders
<1> QED
  BY <1>2, <1>3 DEF UsedOutlives

-----------------------------------------------------------------------------
(* The entities whose functions a thread can be in.                        *)
Reach(t) == UNION {Within(e) : e \in MayClose[t] \cup MayDrop[t] \cup MayCreate[t]}

(* What a thread creates it alone uses: no other thread closes, drops or   *)
(* creates its parent or its topic, what contains them, or another         *)
(* dependent of its topic.                                                 *)
CreatorsOwn ==
    \A t, u \in Threads : t # u => \A e \in MayCreate[t] :
        /\ Reach(u) \cap {Parent[e], TopicOf[e]} = {}
        /\ \A x \in Reach(u) \cap Dependents : x # e => TopicOf[x] # TopicOf[e]

Follows(t, f) == f.e \in Reach(t) /\ (Making(f.todo) => f.e \in MayCreate[t])

ReachInv == \A t \in Threads : \A f \in Funs(t) : Follows(t, f)

(* A thread that closes an entity closes what is in it.                    *)
LEMMA ReachDown ==
    ASSUME NEW t \in Threads, NEW x \in Reach(t), NEW y \in Entities, Parent[y] = x
    PROVE  y \in Reach(t)
<1>1. PICK e \in MayClose[t] \cup MayDrop[t] \cup MayCreate[t] : x \in Within(e)
  BY DEF Reach
<1>2. e \in Entities
  BY CallsAssumption DEF Endpoints
<1>3. x \in Entities /\ e \in {x, Above[x], Above[Above[x]], Above[Above[Above[x]]]}
  BY <1>1 DEF Within
<1>4. \A z \in Entities \cup {Nobody} :
          /\ Above[z] = IF z = Nobody THEN Nobody ELSE Parent[z]
          /\ Above[z] \in Entities \cup {Nobody}
  BY TreeAssumption DEF Above
<1>5. Nobody \notin Entities
  BY TreeAssumption
<1>6. Above[y] = x
  BY <1>4, <1>5
<1>7. \A z \in Entities : Above[z] # Nobody => Above[z] \in Entities /\ Rank(Above[z]) < Rank(z)
  BY <1>4, <1>5, Ranks
<1>8. e # Above[Above[Above[x]]]
  <2> SUFFICES ASSUME e = Above[Above[Above[x]]]
               PROVE  FALSE
    OBVIOUS
  <2>1. Above[Nobody] = Nobody
    BY <1>4
  <2>2. Above[Above[x]] # Nobody /\ Above[x] # Nobody
    BY <1>2, <1>5, <2>1
  <2>3. /\ Above[x] \in Entities /\ Rank(Above[x]) < Rank(x) /\ Rank(x) < Rank(y)
        /\ Above[Above[x]] \in Entities /\ Rank(Above[Above[x]]) < Rank(Above[x])
        /\ Rank(e) < Rank(Above[Above[x]])
    BY <1>2, <1>3, <1>5, <1>6, <1>7, <2>2
  <2>4. /\ Rank(e) \in 0 .. 3 /\ Rank(Above[Above[x]]) \in 0 .. 3 /\ Rank(Above[x]) \in 0 .. 3
        /\ Rank(x) \in 0 .. 3 /\ Rank(y) \in 0 .. 3
    BY <1>2, <1>3, <2>3, Ranks
  <2> QED
    BY <2>3, <2>4
<1>9. y \in Within(e)
  BY <1>3, <1>6, <1>8 DEF Within
<1> QED
  BY <1>1, <1>9 DEF Reach

LEMMA ReachHas ==
    ASSUME NEW t \in Threads, NEW e \in MayClose[t] \cup MayDrop[t] \cup MayCreate[t]
    PROVE  e \in Reach(t)
<1>1. e \in Entities
  BY CallsAssumption DEF Endpoints
<1>2. e \in Within(e)
  BY <1>1 DEF Within
<1> QED
  BY <1>2 DEF Reach

LEMMA ReachStep ==
    ASSUME ReachInv, NEW t \in Threads, \A u \in Threads \ {t} : Funs(u)' = Funs(u),
           \A g \in Funs(t)' : g \in Funs(t) \/ Follows(t, g)
    PROVE  ReachInv'
<1> SUFFICES ASSUME NEW u \in Threads, NEW g \in Funs(u)'
             PROVE  Follows(u, g)
  BY DEF ReachInv, Follows, Reach
<1> QED
  BY DEF ReachInv

(* A function that begins.                                                 *)
LEMMA ReachBegins ==
    ASSUME TreeInv, ReachInv, NEW t \in Threads, NEW e \in Reach(t), NEW h,
           \/ h = Frame(e, Body(Kind[e])) \/ h = Frame(e, DestructorBody(Kind[e]))
           \/ h = Frame(e, ConstructorBody(Kind[e])) /\ e \in MayCreate[t],
           stack' = [stack EXCEPT ![t] = <<h>>]
    PROVE  ReachInv'
<1>1. h.e = e
  BY DEF Frame
<1>2. e \in Entities
  BY DEF Reach, Within
<1>3. Follows(t, h)
  BY <1>1, <1>2, Begun DEF Follows
<1>4. Funs(t)' = {h} /\ \A u \in Threads \ {t} : Funs(u)' = Funs(u)
  BY OnOne
<1> QED
  BY <1>3, <1>4, ReachStep

(* A function that goes on.                                                *)
LEMMA ReachGoes ==
    ASSUME TreeInv, ReachInv, NEW t \in Threads, Busy(t), NEW g \in Frames, GoOn(t, g),
           g.e = Self(t), Making(g.todo) => Making(Innermost(t).todo)
    PROVE  ReachInv'
<1>1. Innermost(t) \in Funs(t) /\ Innermost(t).e = Self(t)
  BY OnTop DEF TreeInv
<1>2. Follows(t, g)
  BY <1>1 DEF ReachInv, Follows
<1>3. /\ \A u \in Threads \ {t} : Funs(u)' = Funs(u)
      /\ Funs(t)' = {g} \cup (Funs(t) \ {Innermost(t)})
  BY TopGoes
<1> QED
  BY <1>2, <1>3, ReachStep

LEMMA ReachAdvances ==
    ASSUME TreeInv, ReachInv, NEW t \in Threads, NEW stage \in Stages \ Last3, At(t, stage),
           Advance(t)
    PROVE  ReachInv'
<1>1. PICK f : f = Innermost(t)
  OBVIOUS
<1>2. PICK g : g = [f EXCEPT !.todo = Tail(f.todo)]
  OBVIOUS
<1>3. /\ Busy(t) /\ FrameOK(f) /\ f.todo[1] = stage /\ f.e = Self(t)
  BY <1>1, Staged DEF TreeInv, Innermost, Self
<1>4. FrameOK(g) /\ g.e = f.e /\ (Making(g.todo) => Making(f.todo))
  BY <1>2, <1>3, FrameAdvances
<1>5. g \in Frames
  BY <1>4 DEF FrameOK
<1>6. GoOn(t, g)
  BY <1>1, <1>2 DEF Advance
<1> QED
  BY <1>1, <1>3, <1>4, <1>5, <1>6, ReachGoes

LEMMA ReachEnds ==
    ASSUME TreeInv, ReachInv, NEW t \in Threads, stack' = [stack EXCEPT ![t] = << >>]
    PROVE  ReachInv'
<1>1. /\ \A u \in Threads \ {t} : Funs(u)' = Funs(u)
      /\ Funs(t)' = {(<< >>)[i] : i \in 1 .. Len(<< >>)}
  BY OnOthers DEF TreeInv
<1>2. Funs(t)' = {}
  BY <1>1
<1> QED
  BY <1>1, <1>2, ReachStep
(* The loops over a copied set.                                            *)
LEMMA ReachCopies ==
    ASSUME TreeInv, UsedInv, ReachInv, NEW t \in Threads, Copy(t)
    PROVE  ReachInv'
<1>1. PICK stage \in CopyStages :
        /\ At(t, stage)
        /\ GoOn(t, [Innermost(t) EXCEPT
                       !.todo = <<"each">> \o Tail(Innermost(t).todo),
                       !.rest = {x \in members[Self(t)] : Kind[x] \in KindsIn(stage)}])
  BY DEF Copy, CopyStages
<1>2. PICK f : f = Innermost(t) /\ TopIs(t, f, stage)
  BY <1>1, Tops
<1>3. PICK todo, rest, g :
        /\ todo = <<"each">> \o Tail(f.todo)
        /\ rest = {x \in members[f.e] : Kind[x] \in KindsIn(stage)}
        /\ g = [f EXCEPT !.todo = todo, !.rest = rest]
  OBVIOUS
<1>4. Tail(f.todo) \in Seq(Stages)
  BY <1>2, HeadTailProperties DEF TopIs
<1>5. todo \in Seq(Stages) /\ todo # << >> /\ todo[1] = "each"
  BY <1>3, <1>4, EachThen
<1>6. rest \subseteq Entities
  BY <1>2, <1>3 DEF TopIs, TreeInv, Typed
<1>7. g \in Frames /\ g.e = f.e /\ g.todo = todo
  BY <1>2, <1>3, <1>5, <1>6 DEF Frames, TopIs
<1>8. ~Making(todo)
  <2>1. 1 \in 1 .. Len(todo)
    BY <1>5, EmptySeq
  <2>2. ~(todo[1] \in MakingStages)
    BY <1>5 DEF MakingStages
  <2> QED
    BY <2>1, <2>2, ElementOfSeq DEF Making, Ends
<1>9. GoOn(t, g) /\ Busy(t) /\ f.e = Self(t)
  BY <1>1, <1>2, <1>3 DEF TopIs, At
<1> QED
  BY <1>7, <1>8, <1>9, ReachGoes

LEMMA ReachEaches ==
    ASSUME TreeInv, UsedInv, ReachInv, NEW t \in Threads, Each(t)
    PROVE  ReachInv'
<1>0. PICK f : f = Innermost(t) /\ TopIs(t, f, "each")
  BY Tops DEF Each
<1> USE DEF TopIs
<1>1. Busy(t)
  BY DEF Each, At
<1>2. PICK x \in f.rest :
        LET next == [f EXCEPT !.rest = f.rest \ {x}]
        IN  IF status[x] = "expired" THEN GoOn(t, next)
            ELSE stack' = [stack EXCEPT ![t] =
                               <<Frame(x, Body(Kind[x]))>> \o (<<next>> \o Tail(stack[t]))]
  BY <1>0 DEF Each
<1>3. PICK g : g = [f EXCEPT !.rest = f.rest \ {x}]
  OBVIOUS
<1>4. g \in Frames /\ g.e = f.e /\ g.todo = f.todo
  BY <1>0, <1>3 DEF Frames
<1>5. x \in Entities /\ Parent[x] = f.e
  BY <1>0 DEF FrameOK, Frames
<1>6. Follows(t, f) /\ Follows(t, g)
  BY <1>0, <1>4 DEF ReachInv, Follows
<1>7. CASE GoOn(t, g)
  BY <1>0, <1>1, <1>4, <1>7, ReachGoes
<1>8. CASE stack' = [stack EXCEPT ![t] =
                         <<Frame(x, Body(Kind[x]))>> \o (<<g>> \o Tail(stack[t]))]
  <2>1. PICK h : h = Frame(x, Body(Kind[x]))
    OBVIOUS
  <2>2. FrameOK(h) /\ h.e = x /\ ~Making(h.todo)
    BY <1>5, <2>1, NewFrames, Begun
  <2>3. PICK s, r : s = <<g>> \o Tail(stack[t]) /\ r = <<h>> \o s
    OBVIOUS
  <2>4. stack' = [stack EXCEPT ![t] = r] /\ Stacks
    BY <1>8, <2>1, <2>3 DEF TreeInv
  <2>5. {s[i] : i \in 1 .. Len(s)} = {g} \cup (Funs(t) \ {f})
    <3>1. LET q == <<g>> \o Tail(stack[t])
          IN  {q[i] : i \in 1 .. Len(q)} = {g} \cup (Funs(t) \ {Innermost(t)})
      BY <1>1, <1>4, <2>4, OnGoesOn
    <3>2. f = Innermost(t)
      BY <1>0
    <3> QED
      BY <2>3, <3>1, <3>2
  <2>6. StackOK(stack[t]) /\ stack[t] # << >> /\ stack[t] \in Seq(Frames)
    BY <1>1, <2>4 DEF Stacks, Busy, StackOK
  <2>7. s \in Seq(Frames) /\ h \in Frames
    BY <1>4, <2>2, <2>3, <2>6, TopReplaced DEF FrameOK
  <2>8. {r[i] : i \in 1 .. Len(r)} = {h} \cup {s[i] : i \in 1 .. Len(s)}
    <3>1. {(<<h>> \o s)[i] : i \in 1 .. Len(<<h>> \o s)} = {h} \cup {s[i] : i \in 1 .. Len(s)}
      BY <2>7, OnCalls
    <3> QED
      BY <2>3, <3>1
  <2>9. /\ \A u \in Threads \ {t} : Funs(u)' = Funs(u)
        /\ Funs(t)' = {r[i] : i \in 1 .. Len(r)}
    BY <2>4, OnOthers
  <2>10. x \in Reach(t)
    BY <1>5, <1>6, ReachDown DEF Follows
  <2>11. Follows(t, h)
    BY <2>2, <2>10 DEF Follows
  <2>12. Funs(t)' = {h, g} \cup (Funs(t) \ {f})
    BY <2>5, <2>8, <2>9
  <2> QED
    BY <1>6, <2>9, <2>11, <2>12, ReachStep
<1> QED
  BY <1>2, <1>3, <1>7, <1>8

(* An endpoint that init() destroys.                                       *)
LEMMA ReachDestroys ==
    ASSUME TreeInv, ReachInv, NEW t \in Threads, Busy(t), Destroy(t)
    PROVE  ReachInv'
<1>1. CASE stack' = [stack EXCEPT ![t] = << >>]
  BY <1>1, ReachEnds
<1>2. CASE stack' = [stack EXCEPT ![t] = <<Frame(Self(t), DestructorBody(Kind[Self(t)]))>>]
  <2>1. Innermost(t) \in Funs(t) /\ Innermost(t).e = Self(t)
    BY OnTop DEF TreeInv
  <2>2. Self(t) \in Reach(t)
    BY <2>1 DEF ReachInv, Follows
  <2> QED
    BY <1>2, <2>2, ReachBegins
<1> QED
  BY <1>1, <1>2 DEF Destroy

LEMMA ReachNext ==
    ASSUME TreeInv, UsedInv, ReachInv, [Next]_vars
    PROVE  ReachInv'
<1>1. CASE UNCHANGED vars
  <2>1. \A t \in Threads : Funs(t)' = Funs(t)
    BY <1>1 DEF Funs, vars
  <2> QED
    BY <2>1 DEF ReachInv, Follows, Reach
<1>2. ASSUME NEW t \in Threads, Step(t)
      PROVE  ReachInv'
  <2>1. CASE Simple(t)
    <3>1. CASE Raise(t)
      BY <3>1, ReachEnds DEF Raise
    <3>2. ASSUME Advance(t), NEW stage \in Stages \ Last3, At(t, stage)
          PROVE  ReachInv'
      BY <3>2, ReachAdvances
    <3> QED
      BY <2>1, <3>1, <3>2, SimpleSteps
  <2>2. CASE Lock(t)
    <3>1. At(t, "lock") /\ "lock" \in Stages \ Last3 /\ (Raise(t) \/ Advance(t))
      BY <2>2 DEF Lock, Stages, Last3
    <3> QED
      BY <3>1, ReachAdvances, ReachEnds DEF Raise
  <2>3. CASE Copy(t)
    BY <2>3, ReachCopies
  <2>4. CASE Each(t)
    BY <2>4, ReachEaches
  <2>5. CASE Delete(t) \/ CloseObject(t)
    <3>1. Busy(t) /\ stack' = [stack EXCEPT ![t] = Tail(@)] /\ Stacks
      BY <2>5 DEF Delete, CloseObject, Finish, At, TreeInv
    <3>2. PICK r : r = Tail(stack[t])
      OBVIOUS
    <3>3. stack' = [stack EXCEPT ![t] = r]
      BY <3>1, <3>2
    <3>4. {r[i] : i \in 1 .. Len(r)} = Funs(t) \ {Innermost(t)}
      BY <3>1, <3>2, OnReturns
    <3>5. /\ \A u \in Threads \ {t} : Funs(u)' = Funs(u)
          /\ Funs(t)' = {r[i] : i \in 1 .. Len(r)}
      <4>1. Stacks
        BY DEF TreeInv
      <4> QED
        BY <3>3, <4>1, OnOthers
    <3> QED
      BY <3>4, <3>5, ReachStep
  <2>6. CASE AutoEnable(t)
    <3>1. At(t, "autoEnable") /\ "autoEnable" \in Stages \ Last3 /\ (Destroy(t) \/ Advance(t))
      BY <2>6 DEF AutoEnable, Stages, Last3
    <3> QED
      BY <3>1, ReachAdvances, ReachDestroys DEF At
  <2>7. CASE Enable(t)
    <3>1. Busy(t) /\ (Destroy(t) \/ stack' = [stack EXCEPT ![t] = << >>])
      BY <2>7 DEF Enable, At
    <3> QED
      BY <3>1, ReachDestroys, ReachEnds
  <2> QED
    BY <1>2, <2>1, <2>2, <2>3, <2>4, <2>5, <2>6, <2>7 DEF Step, Simple
<1>3. ASSUME NEW t \in Threads, NEW e \in Entities, Close(t, e) \/ Create(t, e) \/ Drop(t, e)
      PROVE  ReachInv'
  <2>1. CASE Close(t, e)
    <3>1. stack' = [stack EXCEPT ![t] = <<Frame(e, Body(Kind[e]))>>] /\ e \in MayClose[t]
      BY <2>1 DEF Close
    <3> QED
      BY <3>1, ReachHas, ReachBegins
  <2>2. CASE Create(t, e)
    <3>1. /\ stack' = [stack EXCEPT ![t] = <<Frame(e, ConstructorBody(Kind[e]))>>]
          /\ e \in MayCreate[t]
      BY <2>2 DEF Create
    <3> QED
      BY <3>1, ReachHas, ReachBegins
  <2>3. CASE Drop(t, e)
    <3>1. stack' = [stack EXCEPT ![t] = <<Frame(e, DestructorBody(Kind[e]))>>] /\ e \in MayDrop[t]
      BY <2>3 DEF Drop
    <3> QED
      BY <3>1, ReachHas, ReachBegins
  <2> QED
    BY <1>3, <2>1, <2>2, <2>3
<1> QED
  BY <1>1, <1>2, <1>3 DEF Next

LEMMA ReachInit == Init /\ TreeInv => ReachInv
<1> SUFFICES ASSUME Init, TreeInv, NEW t \in Threads
             PROVE  Funs(t) = {}
  BY DEF ReachInv
<1>1. stack[t] = << >>
  BY DEF Init
<1> QED
  BY <1>1, OnFrames DEF TreeInv

LEMMA OwnersAlone ==
    ASSUME CreatorsOwn, TreeInv, UsedInv, ReachInv
    PROVE  CreatesAlone
<1> SUFFICES ASSUME NEW t \in Threads, NEW u \in Threads, t # u,
                    NEW stage \in MakingStages, At(t, stage)
             PROVE  /\ \A f \in Funs(u) : f.e \notin {Parent[Self(t)], TopicOf[Self(t)]}
                    /\ stage = "incr" /\ (At(u, "incr") \/ At(u, "decr")) =>
                          TopicOf[Self(u)] # TopicOf[Self(t)]
  BY DEF CreatesAlone
<1>1. PICK f : f = Innermost(t) /\ TopIs(t, f, stage)
  BY Tops
<1>2. Making(f.todo)
  BY <1>1, StageKind
<1>3. f \in Funs(t) /\ f.e = Self(t)
  BY <1>1 DEF TopIs
<1>4. Self(t) \in MayCreate[t]
  BY <1>2, <1>3 DEF ReachInv, Follows
<1>5. \A g \in Funs(u) : g.e \in Reach(u)
  BY DEF ReachInv, Follows
<1>6. /\ Reach(u) \cap {Parent[Self(t)], TopicOf[Self(t)]} = {}
      /\ \A x \in Reach(u) \cap Dependents : x # Self(t) => TopicOf[x] # TopicOf[Self(t)]
  BY <1>4 DEF CreatorsOwn
<1>7. ASSUME NEW s \in {"incr", "decr"}, At(u, s)
      PROVE  TopicOf[Self(u)] # TopicOf[Self(t)]
  <2>1. PICK g : g = Innermost(u) /\ TopIs(u, g, s)
    BY <1>7, Tops
  <2>2. g \in Funs(u) /\ g.e = Self(u) /\ FrameOK(g) /\ g.todo[1] = s
    BY <2>1 DEF TopIs
  <2>3. g.e \in Dependents
    BY <2>2, FirstStages, Ranks DEF MakingStages, Decrements
  <2>4. g.e # f.e
    BY <1>2, <1>3, <2>2, OnlyMaker
  <2> QED
    BY <1>3, <1>5, <1>6, <2>2, <2>3, <2>4
<1> QED
  BY <1>5, <1>6, <1>7
(* Nothing closes before what uses it, whichever threads close what, if no *)
(* thread closes a read condition by hand and constructors run alone       *)
(* (CreatesAlone): while one runs, no other thread is in a function of its *)
(* parent or its topic, nor changes the counter it increments.             *)
THEOREM UsedOutlivesAlone ==
    ASSUME NoQueryCloses
    PROVE  Spec /\ []CreatesAlone => []UsedOutlives
<1>1. Init /\ TreeInv => UsedInv
  BY UsedInit
<1>2. TreeInv /\ TreeInv' /\ UsedInv /\ CreatesAlone /\ [Next]_vars => UsedInv'
  BY UsedNext
<1>3. TreeInv /\ UsedInv => UsedOutlives
  BY UsedInvGives
<1> QED
  BY <1>1, <1>2, <1>3, TreeInvariant, PTL DEF Spec

(* The same of what the application may call, with nothing about what runs *)
(* when: a parent and a topic outlive what uses them if a thread creates   *)
(* an endpoint only of a parent and a topic that it alone uses.            *)
THEOREM WhatIsUsedOutlives ==
    ASSUME NoQueryCloses, CreatorsOwn
    PROVE  Spec => []UsedOutlives
<1>1. Init /\ TreeInv => UsedInv /\ ReachInv
  BY UsedInit, ReachInit
<1>2. TreeInv /\ TreeInv' /\ UsedInv /\ ReachInv /\ [Next]_vars => UsedInv' /\ ReachInv'
  BY UsedNext, ReachNext, OwnersAlone
<1>3. TreeInv /\ UsedInv => UsedOutlives
  BY UsedInvGives
<1> QED
  BY <1>1, <1>2, <1>3, TreeInvariant, PTL DEF Spec

=============================================================================
