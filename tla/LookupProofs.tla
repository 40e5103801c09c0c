---------------------------- MODULE LookupProofs ----------------------------
(***************************************************************************)
(* Proofs about EntityLookup: every other action keeps the invariant       *)
(* LookupInv of LookupStacks, too, hence types are kept and lookups are    *)
(* exact. The last theorem is about the lookups and the tree of EntityTree *)
(* together.                                                               *)
(***************************************************************************)
EXTENDS MCFinding, LookupStacks, EntityTreeProofs

(* What is closed, or being closed, is known to a lookup.                  *)
BeingClosedNow(o) ==
    \/ fate[o] = "closed"
    \/ \E d \in Callers : \E f \in FramesOf(frames[d]) : f.op = "close" /\ f.self = o

LEMMA ClosedIsKnown ==
    ASSUME LookupInv, NEW c \in Callers, InCall(c), NEW f, f = Top(c), f.op # "close",
           NEW o \in Objects, BeingClosedNow(o)
    PROVE  o \in closing[c]
<1>1. CallTypes /\ CallStacks /\ Closings
  BY DEF LookupInv
<1> DEFINE b == BaseOf(frames[c])
<1>2. b = BaseOf(frames[c])
  OBVIOUS
<1> HIDE DEF b
<1>3. b.op # "close"
  BY <1>1, <1>2, BaseFacts
<1> QED
  BY <1>1, <1>2, <1>3 DEF Closings, ClosingIsKnown, BeingClosedNow

(* What a search looks at is in the container that it was asked to look    *)
(* into.                                                                   *)
LEMMA LooksAtIts ==
    ASSUME LookupInv, NEW c \in Callers, InCall(c), NEW f, f = Top(c), f.op # "contains",
           f.todo[1] \in {"test", "name"}, NEW a, a = AskOf(BaseOf(frames[c]))
    PROVE  /\ f.op \in DOMAIN Seeks /\ f.op # "close" /\ f.op # "find_topic_description"
           /\ f.ref \in Objects /\ c \in refs[f.ref]
           /\ Holder[f.ref] = f.self /\ SetSort(Sort[f.ref]) = Seeks[f.op]
           /\ a.on = f.self /\ a.op # "contains" /\ a.op # "close"
           /\ f.op = "find_datareaders" => a.op = "find_datareaders"
           /\ \A o \in closing[c] : Holder[o] = f.self => Reason(a, closing[c])
<1>1. /\ CallTypes /\ CallStacks /\ f \in CallFrames /\ FrameShape(f) /\ TokensOf(c, f, refs) /\ RightFrame(f)
  BY TopKnows
<1>2. f.op \in DOMAIN Seeks /\ f.ref \in Objects /\ f.ref # None
  BY <1>1, LookupLooks
<1>3. f.op # "close" /\ f.op # "find_topic_description"
  BY <1>2, SeeksFacts
<1> DEFINE b == BaseOf(frames[c])
<1>4. b = BaseOf(frames[c])
  OBVIOUS
<1>5. a.on = b.self /\ a.op = b.op
  BY DEF AskOf
<1> HIDE DEF b
<1>6. /\ b.op # "close" /\ b.self = f.self /\ b.op \in {f.op, "find_topic_description"}
      /\ b = f \/ WithinTwice(f, b)
  BY <1>1, <1>2, <1>3, <1>4, BaseFacts
<1>7. f.op = "find_datareaders" => b.op = "find_datareaders"
  BY <1>6 DEF WithinTwice
<1>8. c \in refs[f.ref]
  BY <1>1, <1>2, <1>3 DEF TokensOf, Tokens
<1>9. Holder[f.ref] = f.self /\ SetSort(Sort[f.ref]) = Seeks[f.op]
  BY <1>1, <1>2 DEF RightFrame
<1>10. a.on = f.self /\ a.op # "contains" /\ a.op # "close"
  BY <1>2, <1>3, <1>5, <1>6
<1>11. \A o \in closing[c] : Holder[o] = f.self => Reason(a, closing[c])
  BY <1>10 DEF Reason
<1> QED
  BY <1>2, <1>3, <1>5, <1>7, <1>8, <1>9, <1>10, <1>11

LEMMA JudgeKeeps ==
    ASSUME LookupInv, NEW c \in Callers, InCall(c), NEW f, f = Top(c), f.op # "contains",
           f.todo[1] \in {"test", "name"}, NEW g, Judgement(f, g),
           frames' = [frames EXCEPT ![c] = <<g>> \o Tail(@)],
           Aside, Still, locked' = locked, called' = called
    PROVE  LookupInv'
<1>1. /\ CallTypes /\ f \in CallFrames /\ FrameShape(f) /\ TokensOf(c, f, refs) /\ RightFrame(f)
      /\ KeepsSet(c, f, setsHeld, listed)
  BY TopKnows
<1>2. /\ Continues(f, g) /\ g.todo = <<"release", "each", "return">>
      /\ g.rest = f.rest /\ g.ref = None /\ g.key = None
  BY <1>1, JudgementIs
<1>3. \/ Label[f.ref] # f.for /\ g.found = f.found /\ g.loose = {f.ref}
      \/ /\ Label[f.ref] = f.for /\ f.op = "find_datareaders"
         /\ g.found = f.found \cup {f.ref} /\ g.loose = {}
      \/ /\ Label[f.ref] = f.for /\ f.op # "find_datareaders"
         /\ g.found = {f.ref} /\ g.loose = f.found
  BY <1>1, JudgementIs
<1>4. /\ f.op \in DOMAIN Seeks /\ f.op # "close" /\ f.ref \in Objects
      /\ Holder[f.ref] = f.self /\ SetSort(Sort[f.ref]) = Seeks[f.op]
  <2> DEFINE a == AskOf(BaseOf(frames[c]))
  <2>1. a = AskOf(BaseOf(frames[c]))
    OBVIOUS
  <2> HIDE DEF a
  <2> QED
    BY <2>1, LooksAtIts
<1>5. g.op = f.op /\ g.self = f.self /\ g.for = f.for
  BY <1>2 DEF Continues
<1>6. f.loose = {} /\ f.key = None /\ f.ref # None /\ f.found \subseteq Objects /\ None \notin Objects
  BY <1>1, LookupLooks, Ops, LookupAssumption
<1>7. Tokens(g) = Tokens(f)
  BY <1>2, <1>3, <1>4, <1>6 DEF Tokens
<1>8. TokensOf(c, g, refs)
  <2>1. f.op # "close" /\ f.op # "contains"
    BY <1>4
  <2>2. /\ \A o \in Tokens(f) : c \in refs[o]
        /\ f.rest \cap f.found = {} /\ f.ref \notin f.found /\ f.ref \notin f.rest
    BY <1>1, <2>1 DEF TokensOf
  <2>3. g.found \cap g.loose = {} /\ g.rest \cap (g.found \cup g.loose) = {}
    BY <1>2, <1>3, <1>6, <2>2
  <2>4. g.ref \notin g.found \cup g.loose \cup g.rest
    <3>1. f.rest \subseteq Objects
      BY <1>1, Ops
    <3> QED
      BY <1>2, <1>3, <1>4, <1>6, <3>1
  <2> QED
    BY <1>7, <2>2, <2>3, <2>4 DEF TokensOf
<1>9. RightFrame(g)
  <2>1. AskOf(g) = AskOf(f) /\ AskOf(f).op = f.op /\ AskOf(f).for = f.for /\ AskOf(f).on = f.self
    BY <1>5 DEF AskOf
  <2>2. f.op # "contains" /\ f.op # "find_topic_description"
    BY <1>4, SeeksFacts
  <2>3. Label[f.ref] = f.for => IsAbout(AskOf(f), f.ref)
    BY <1>4, <2>1, <2>2 DEF IsAbout
  <2>4. \A x \in g.found : IsAbout(AskOf(g), x)
    <3>1. \A x \in f.found : IsAbout(AskOf(f), x)
      BY <1>1, <1>4 DEF RightFrame
    <3> QED
      BY <1>3, <2>1, <2>3, <3>1
  <2>5. \A x \in g.rest \cup ({g.ref} \ {None}) : Holder[x] = g.self /\ SetSort(Sort[x]) = Seeks[g.op]
    BY <1>1, <1>2, <1>4, <1>5 DEF RightFrame
  <2>6. \A x \in g.loose : SeenEnough(g, x)
    BY <1>3, <1>4, <1>5, <2>2 DEF SeenEnough
  <2> QED
    BY <2>4, <2>5, <2>6 DEF RightFrame
<1>10. KeepsSet(c, g, setsHeld, listed)
  BY <1>5 DEF KeepsSet
<1>11. \A op, x : InView(op, f, x) => InView(op, g, x)
  <2>1. f.found # {} => g.found # {}
    BY <1>3
  <2> QED
    BY <1>2, <1>5, <1>7, <2>1 DEF InView
<1>12. f.todo \notin Leaving2 /\ g.todo \notin Leaving2
  <2>1. \A q \in Leaving2 : q[1] \in {"release", "unwind"}
    BY LeavingStages
  <2>2. f.todo \notin Leaving2
    BY <2>1
  <2>3. g.todo \notin Leaving2
    <3> DEFINE w == <<"release", "each", "return">>
    <3>1. w[2] = "each" /\ Len(w) = 3
      OBVIOUS
    <3>2. w \notin Leaving2
      <4>1. Len(<<"release", "unwind">>) = 2 /\ Len(<<"unwind">>) = 1
        OBVIOUS
      <4> HIDE DEF w
      <4> QED
        BY <3>1, <4>1 DEF Leaving2
    <3> QED
      BY <1>2, <3>2
  <2> QED
    BY <2>2, <2>3
<1>13. StepsOn(c, g)
  BY <1>2, HandsOn
<1>14. /\ Top(c).op # "close" /\ g.key = Top(c).key /\ (g.todo \in Leaving2 <=> Top(c).todo \in Leaving2)
       /\ \A op, x : InView(op, Top(c), x) => InView(op, g, x)
  BY <1>2, <1>4, <1>6, <1>11, <1>12
<1>15. locked' \in [Objects -> Callers \cup {None}]
  BY <1>1 DEF CallTypes
<1> QED
  BY <1>8, <1>9, <1>10, <1>13, <1>14, <1>15, LookupAdvances

(* Judge() is a judgement.                                                 *)
LEMMA JudgeIs ==
    ASSUME NEW c \in Callers, Judge(c), NEW f, f = Top(c), f \in CallFrames
    PROVE  \E g : Judgement(f, g) /\ frames' = [frames EXCEPT ![c] = <<g>> \o Tail(@)]
<1> DEFINE h == JudgedFrame(f)
           j == [Done(Top(c)) EXCEPT !.todo = <<"release">> \o @, !.ref = None]
<1>0. Top(c) = f /\ j.op = f.op
  BY DEF CallFrames, Done
<1>h. j = h
  BY <1>0 DEF JudgedFrame
<1>1. IF Label[f.ref] # f.for THEN frames' = [frames EXCEPT ![c] = <<[j EXCEPT !.loose = {f.ref}]>> \o Tail(@)]
      ELSE IF j.op = "find_datareaders"
           THEN frames' = [frames EXCEPT ![c] = <<[j EXCEPT !.found = @ \cup {f.ref}]>> \o Tail(@)]
      ELSE frames' = [frames EXCEPT ![c] = <<[j EXCEPT !.found = {f.ref}, !.loose = f.found]>> \o Tail(@)]
  BY <1>0 DEF Judge, SetTop, Matches
<1> HIDE DEF j
<1>2. CASE Label[f.ref] # f.for
  <2> DEFINE g == [h EXCEPT !.loose = {f.ref}]
  <2>1. Judgement(f, g)
    BY <1>2 DEF Judgement
  <2>2. frames' = [frames EXCEPT ![c] = <<g>> \o Tail(@)]
    BY <1>1, <1>2, <1>h
  <2> HIDE DEF g
  <2> QED
    BY <2>1, <2>2
<1>3. CASE Label[f.ref] = f.for /\ f.op = "find_datareaders"
  <2> DEFINE g == [h EXCEPT !.found = @ \cup {f.ref}]
  <2>1. Judgement(f, g)
    BY <1>3 DEF Judgement
  <2>2. frames' = [frames EXCEPT ![c] = <<g>> \o Tail(@)]
    BY <1>0, <1>1, <1>3, <1>h
  <2> HIDE DEF g
  <2> QED
    BY <2>1, <2>2
<1>4. CASE Label[f.ref] = f.for /\ f.op # "find_datareaders"
  <2> DEFINE g == [h EXCEPT !.found = {f.ref}, !.loose = f.found]
  <2>1. Judgement(f, g)
    BY <1>4 DEF Judgement
  <2>2. frames' = [frames EXCEPT ![c] = <<g>> \o Tail(@)]
    BY <1>0, <1>1, <1>4, <1>h
  <2> HIDE DEF g
  <2> QED
    BY <2>1, <2>2
<1> QED
  BY <1>2, <1>3, <1>4

NamedFrame(f) == [f EXCEPT !.todo = <<"name">> \o Tail(@)]

LEMMA NamesKeeps ==
    ASSUME LookupInv, NEW c \in Callers, InCall(c), NEW f, f = Top(c), f.op # "contains",
           f.todo[1] = "test", Sort[f.ref] \in {"reader", "writer"}, NEW g, g = NamedFrame(f),
           frames' = [frames EXCEPT ![c] = <<g>> \o Tail(@)],
           Aside, Still, locked' = locked, called' = called
    PROVE  LookupInv'
<1>1. /\ CallTypes /\ f \in CallFrames /\ FrameShape(f) /\ TokensOf(c, f, refs) /\ RightFrame(f)
      /\ KeepsSet(c, f, setsHeld, listed)
  BY TopKnows
<1>2. Continues(f, g) /\ g.todo = <<"name", "each", "return">>
  <2>1. g = [f EXCEPT !.todo = <<"name">> \o Tail(@)]
    BY DEF NamedFrame
  <2> QED
    BY <1>1, <2>1, LookupNames
<1>3. SameFields(f, g) /\ g.rest = f.rest
  BY <1>1 DEF SameFields, CallFrames, NamedFrame
<1>4. f.op \in DOMAIN Seeks /\ f.op # "close" /\ f.loose = {}
  BY <1>1, LookupLooks, SeeksFacts
<1>5. g.op = f.op /\ g.self = f.self /\ g.for = f.for
  BY <1>2 DEF Continues
<1>6. /\ TokensOf(c, g, refs) /\ KeepsSet(c, g, setsHeld, listed)
      /\ \A op, x : InView(op, f, x) => InView(op, g, x) \/ x \in f.rest \ g.rest
  BY <1>1, <1>3, <1>5, SameTokens
<1>7. RightFrame(g)
  <2>1. AskOf(g) = AskOf(f)
    BY <1>5 DEF AskOf
  <2> QED
    BY <1>1, <1>3, <1>4, <1>5, <2>1 DEF RightFrame, SameFields
<1>8. f.todo \notin Leaving2 /\ g.todo \notin Leaving2
  <2>1. \A q \in Leaving2 : q[1] \in {"release", "unwind"}
    BY LeavingStages
  <2>2. <<"name", "each", "return">>[1] = "name"
    OBVIOUS
  <2> QED
    BY <1>2, <2>1, <2>2
<1>9. StepsOn(c, g)
  BY <1>2, HandsOn
<1>10. /\ Top(c).op # "close" /\ g.key = Top(c).key /\ (g.todo \in Leaving2 <=> Top(c).todo \in Leaving2)
       /\ \A op, x : InView(op, Top(c), x) => InView(op, g, x)
  BY <1>3, <1>4, <1>6, <1>8 DEF SameFields
<1>11. locked' \in [Objects -> Callers \cup {None}]
  BY <1>1 DEF CallTypes
<1> QED
  BY <1>6, <1>7, <1>9, <1>10, <1>11, LookupAdvances

LEMMA TestKeeps ==
    ASSUME LookupInv, NEW c \in Callers, Test(c), called' = called
    PROVE  LookupInv'
<1> DEFINE f == Top(c)
<1>1. /\ InCall(c) /\ f.todo[1] = "test" /\ f.op # "contains"
      /\ \/ fate[f.ref] = "closed" /\ Throw(c)
         \/ /\ Sort[f.ref] \in {"reader", "writer"}
            /\ frames' = [frames EXCEPT ![c] = <<NamedFrame(f)>> \o Tail(@)]
            /\ Aside /\ Still /\ locked' = locked
         \/ Judge(c) /\ Aside /\ Still /\ locked' = locked
  BY DEF Test, On, SetTop, Undisturbed, Aside, Still, NamedFrame
<1>f. f = Top(c)
  OBVIOUS
<1>2. f \in CallFrames
  BY <1>1, TopKnows
<1> HIDE DEF f
<1>a. InCall(c) /\ f.todo[1] = "test" /\ f.op # "contains" /\ f.todo[1] \in {"test", "name"}
  BY <1>1
<1>3. CASE fate[f.ref] = "closed" /\ Throw(c)
  <2> DEFINE a == AskOf(BaseOf(frames[c]))
  <2>0. a = AskOf(BaseOf(frames[c]))
    OBVIOUS
  <2> HIDE DEF a
  <2>1. /\ f.op # "close" /\ f.op # "find_topic_description" /\ f.ref \in Objects /\ Holder[f.ref] = f.self
        /\ \A o \in closing[c] : Holder[o] = f.self => Reason(a, closing[c])
    BY <1>a, <1>f, <2>0, LooksAtIts
  <2>2. BeingClosedNow(f.ref)
    BY <1>3 DEF BeingClosedNow
  <2> DEFINE o == f.ref
  <2>3. o \in Objects /\ BeingClosedNow(o)
    BY <2>1, <2>2
  <2> HIDE DEF o
  <2>4. o \in closing[c]
    BY <1>a, <1>f, <2>1, <2>3, ClosedIsKnown
  <2>5. Reason(AskOf(BaseOf(frames[c])), closing[c])
    BY <2>0, <2>1, <2>4 DEF o
  <2>6. f.todo[1] \notin {"finish", "unlist", "release"} /\ Throw(c)
    BY <1>a, <1>3
  <2> QED
    BY <1>a, <1>f, <2>1, <2>5, <2>6, ThrowKeeps
<1>4. CASE /\ Sort[f.ref] \in {"reader", "writer"}
           /\ frames' = [frames EXCEPT ![c] = <<NamedFrame(f)>> \o Tail(@)]
           /\ Aside /\ Still /\ locked' = locked
  <2> DEFINE g == NamedFrame(f)
  <2>1. g = NamedFrame(f) /\ frames' = [frames EXCEPT ![c] = <<g>> \o Tail(@)]
    BY <1>4
  <2> HIDE DEF g
  <2> QED
    BY <1>a, <1>f, <1>4, <2>1, NamesKeeps
<1>5. CASE Judge(c) /\ Aside /\ Still /\ locked' = locked
  <2>1. PICK g : Judgement(f, g) /\ frames' = [frames EXCEPT ![c] = <<g>> \o Tail(@)]
    BY <1>2, <1>f, <1>5, JudgeIs
  <2> QED
    BY <1>a, <1>f, <1>5, <2>1, JudgeKeeps
<1> QED
  BY <1>1, <1>3, <1>4, <1>5

(* A search asks a reader or a writer that is being closed, or whose topic *)
(* description is closed.                                                  *)
LEMMA NameFails ==
    ASSUME LookupInv, NEW c \in Callers, InCall(c), NEW f, f = Top(c), f.op # "contains",
           f.todo[1] = "name", NoLateWriters,
           \/ Sort[f.ref] = "reader" /\ f.ref \notin using
           \/ fate[About[f.ref]] = "closed"
    PROVE  Reason(AskOf(BaseOf(frames[c])), closing[c])
<1> DEFINE a == AskOf(BaseOf(frames[c]))
           o == f.ref
<1>0. a = AskOf(BaseOf(frames[c])) /\ f.todo[1] \in {"test", "name"}
  OBVIOUS
<1>1. /\ CallTypes /\ References /\ Closings /\ f \in CallFrames /\ FrameShape(f)
  BY TopKnows
<1> HIDE DEF a
<1>2. /\ f.op \in DOMAIN Seeks /\ f.op # "close" /\ f.op # "find_topic_description"
      /\ f.ref \in Objects /\ c \in refs[f.ref]
      /\ Holder[f.ref] = f.self /\ SetSort(Sort[f.ref]) = Seeks[f.op]
      /\ a.on = f.self /\ a.op # "contains" /\ a.op # "close"
      /\ f.op = "find_datareaders" => a.op = "find_datareaders"
      /\ \A x \in closing[c] : Holder[x] = f.self => Reason(a, closing[c])
  BY <1>0, LooksAtIts
<1>3. Sort[f.ref] \in {"reader", "writer"}
  BY <1>1, LookupLooks
<1>o. o = f.ref
  OBVIOUS
<1> HIDE DEF o
<1>4. o \in Objects /\ refs[o] # {} /\ Sort[o] \in {"reader", "writer"} /\ Holder[o] = f.self
  BY <1>2, <1>3, <1>o
<1>5. ASSUME o \notin using
      PROVE  Reason(a, closing[c])
  <2>1. BeingClosedNow(o)
    BY <1>1, <1>4, <1>5 DEF Closings, UncountedIsClosed, BeingClosedNow, AboutToFinish
  <2>2. o \in closing[c]
    BY <1>2, <1>4, <2>1, ClosedIsKnown
  <2> QED
    BY <1>2, <1>4, <2>2
<1> DEFINE x == About[o]
<1>6. x \in Objects
  BY <1>4, LookupAssumption
<1>7. ASSUME fate[x] = "closed", Sort[o] = "reader"
      PROVE  Reason(a, closing[c])
  <2>1. f.op = "find_datareaders"
    BY <1>2, <1>7, <1>o, SeeksFacts DEF SetSort
  <2>2. BeingClosedNow(x)
    BY <1>7 DEF BeingClosedNow
  <2>3. x \in closing[c]
    <3> HIDE DEF x
    <3> QED
      BY <1>2, <1>6, <2>2, ClosedIsKnown
  <2> QED
    BY <1>2, <1>4, <2>1, <2>3 DEF Reason
<1>8. ASSUME fate[x] = "closed", Sort[o] = "writer"
      PROVE  Reason(a, closing[c])
  <2>1. Sort[x] = "topic"
    BY <1>4, <1>8, LookupAssumption
  <2>2. Unused(x, using)
    BY <1>1, <1>6, <1>8, <2>1 DEF Closings, ClosedIsUnused
  <2>3. o \notin using
    BY <1>8, <2>2 DEF Unused
  <2> QED
    BY <1>5, <2>3
<1> QED
  BY <1>0, <1>4, <1>5, <1>7, <1>8, <1>o

LEMMA TestNameKeeps ==
    ASSUME LookupInv, NEW c \in Callers, TestName(c), called' = called
    PROVE  LookupInv'
<1> DEFINE f == Top(c)
<1>1. /\ InCall(c) /\ f.todo[1] = "name"
      /\ \/ /\ Throw(c)
            /\ \/ Sort[f.ref] = "reader" /\ f.ref \notin using
               \/ fate[About[f.ref]] = "closed"
         \/ Judge(c) /\ Aside /\ Still /\ locked' = locked
  BY DEF TestName, On, Undisturbed, Aside, Still
<1>f. f = Top(c)
  OBVIOUS
<1>2. f \in CallFrames /\ FrameShape(f)
  BY <1>1, TopKnows
<1> HIDE DEF f
<1>3. f.op # "contains"
  <2>1. f.op = "contains" => f.todo[1] \in ContainsStages \cup {"unwind"}
    BY <1>2, NotContains
  <2>2. "name" \notin ContainsStages \cup {"unwind"}
    BY DEF ContainsStages, Sorts, Containers
  <2> QED
    BY <1>1, <2>1, <2>2
<1>a. InCall(c) /\ f.todo[1] = "name" /\ f.op # "contains" /\ f.todo[1] \in {"test", "name"}
  BY <1>1, <1>3
<1>4. CASE Throw(c) /\ (\/ Sort[f.ref] = "reader" /\ f.ref \notin using
                        \/ fate[About[f.ref]] = "closed")
  <2> DEFINE a == AskOf(BaseOf(frames[c]))
  <2>0. a = AskOf(BaseOf(frames[c]))
    OBVIOUS
  <2> HIDE DEF a
  <2>1. f.op # "close" /\ f.op # "find_topic_description"
    BY <1>a, <1>f, <2>0, LooksAtIts
  <2>2. NoLateWriters => Reason(AskOf(BaseOf(frames[c])), closing[c])
    BY <1>a, <1>f, <1>4, NameFails
  <2>3. f.todo[1] \notin {"finish", "unlist", "release"} /\ Throw(c)
    BY <1>a, <1>4
  <2> QED
    BY <1>a, <1>f, <2>1, <2>2, <2>3, ThrowKeeps
<1>5. CASE Judge(c) /\ Aside /\ Still /\ locked' = locked
  <2>1. PICK g : Judgement(f, g) /\ frames' = [frames EXCEPT ![c] = <<g>> \o Tail(@)]
    BY <1>2, <1>f, <1>5, JudgeIs
  <2> QED
    BY <1>a, <1>f, <1>5, <2>1, JudgeKeeps
<1> QED
  BY <1>1, <1>4, <1>5

(* contains_entity takes the mutex of a set.                               *)
LEMMA LockSetKeeps ==
    ASSUME LookupInv, NEW c \in Callers, LockSet(c), called' = called
    PROVE  LookupInv'
<1> DEFINE f == Top(c)
<1>a. /\ InCall(c) /\ f.op = "contains"
      /\ refs' = refs /\ fate' = fate /\ locked' = locked /\ listed' = listed
      /\ using' = using /\ answer' = answer /\ closing' = closing
  BY DEF LockSet
<1>b. PICK sort \in Sorts :
         /\ On(c, sort)
         /\ FreeSet(<<Top(c).self, sort>>)
         /\ setsHeld' = setsHeld \cup {<<<<Top(c).self, sort>>, c>>}
         /\ SetTop(c, [Top(c) EXCEPT !.todo = <<"each", "leave">> \o Tail(@),
                                     !.rest = Members(<<Top(c).self, sort>>),
                                     !.key = <<Top(c).self, sort>>])
         /\ steady' = [steady EXCEPT ![c] = @ \cup Undisturbable(<<Top(c).self, sort>>)]
  BY ZenonT(30) DEF LockSet
<1>1. /\ InCall(c) /\ f.op = "contains" /\ f.todo[1] = sort
      /\ FreeSet(<<f.self, sort>>)
      /\ setsHeld' = setsHeld \cup {<<<<f.self, sort>>, c>>}
      /\ frames' = [frames EXCEPT ![c] =
            <<LockedFrame(f, Members(<<f.self, sort>>), <<f.self, sort>>)>> \o Tail(@)]
      /\ steady' = [steady EXCEPT ![c] = @ \cup Undisturbable(<<f.self, sort>>)]
      /\ refs' = refs /\ fate' = fate /\ locked' = locked /\ listed' = listed
      /\ using' = using /\ answer' = answer /\ closing' = closing
  BY <1>a, <1>b DEF On, SetTop, LockedFrame
<1> DEFINE k == <<f.self, sort>>
           R == Members(k)
           U == Undisturbable(k)
           g == LockedFrame(f, R, k)
           H == {<<k, c>>}
<1>2. /\ f \in CallFrames /\ FrameShape(f) /\ CallTypes /\ CallStacks /\ SetsLocked /\ References
      /\ Searching(frames[c], steady[c], closing[c]) /\ RightFrame(f) /\ f \in FramesOf(frames[c])
  BY <1>1, TopKnows
<1>3. /\ R \in SUBSET Objects /\ R \subseteq listed
      /\ \A o \in R : Holder[o] = f.self /\ SetOf(o) = k
      /\ \A o \in U : o \in R /\ "app" \in refs[o]
  BY <1>2, MembersFacts
<1>4. /\ f.self \in Objects /\ ContainsTodo(f.todo)
      /\ f.rest # {} => \/ f.todo \in Leaving2 \/ f.todo[1] = "each"
                        \/ f.todo[1] \in {"test", "release"} /\ f.todo[2] = "each"
  BY <1>1, <1>2, Ops DEF ContainsShape
<1>5. k \in Sets /\ k # None /\ k \in {f.self} \X Sorts
  <2>1. k \in Objects \X Sorts
    BY <1>1, <1>4
  <2> QED
    BY <1>1, <2>1, LookupAssumption DEF Sets
<1>6. \A h \in Lower(frames[c]) : h.op = "contains" /\ h.key # k
  <2> SUFFICES ASSUME NEW h \in Lower(frames[c]) PROVE h.op = "contains" /\ h.key # k
    OBVIOUS
  <2>1. h.op = "contains"
    <3> DEFINE b == BaseOf(frames[c])
    <3>1. f.op # "close" /\ b = BaseOf(frames[c]) /\ f = Top(c)
      BY <1>1
    <3> HIDE DEF b, f
    <3> QED
      BY <1>1, <1>2, <3>1, BaseFacts
  <2>2. h \in FramesOf(frames[c])
    BY <1>2, LowerFrames
  <2>3. KeepsSet(c, h, setsHeld, listed)
    BY <1>2, <2>2 DEF SetsLocked, SetsKept
  <2>4. <<k, c>> \notin setsHeld
    BY <1>1 DEF FreeSet
  <2> QED
    BY <1>5, <2>1, <2>3, <2>4 DEF KeepsSet
<1>7. /\ InCall(c) /\ f.op = "contains" /\ f.todo[1] \in Sorts /\ FreeSet(k)
      /\ frames' = [frames EXCEPT ![c] = <<g>> \o Tail(@)] /\ setsHeld' = setsHeld \cup H
      /\ steady' = [steady EXCEPT ![c] = @ \cup U]
      /\ refs' = refs /\ fate' = fate /\ locked' = locked /\ listed' = listed
      /\ using' = using /\ answer' = answer /\ closing' = closing
  BY <1>1
<1>c. f = Top(c)
  OBVIOUS
<1>h. \A x, d : <<x, d>> \in H <=> x = k /\ d = c
  OBVIOUS
<1> HIDE DEF f, R, U, k, H
<1>8. /\ Continues(f, g) /\ g.todo[1] = "each"
      /\ f.todo \notin Leaving2 /\ g.todo \notin Leaving2
      /\ f.loose = {} /\ f.ref = None
      /\ g.rest = R /\ g.key = k /\ g.ref = None /\ g.found = f.found /\ g.loose = {}
  <2>1. /\ f \in CallFrames /\ FrameShape(f) /\ f.op = "contains" /\ f.todo[1] \in Sorts
        /\ R \in SUBSET Objects /\ (\A o \in R : Holder[o] = f.self) /\ k \in Sets
    BY <1>2, <1>3, <1>5, <1>7
  <2>2. g = LockedFrame(f, R, k)
    OBVIOUS
  <2> HIDE DEF g
  <2>3. InSet(f, R, k)
    BY <2>1 DEF InSet
  <2>4. LocksOn(f, R, k, g)
    BY <2>1, <2>2, <2>3, ContainsLocks
  <2> QED
    BY <2>4 DEF LocksOn
<1> HIDE DEF g
<1>9. StepsOn(c, g)
  BY <1>7, <1>8, <1>c, HandsOn
<1>10. g.op = "contains" /\ g.self = f.self /\ g.for = f.for
  BY <1>7, <1>8, Heirs
<1>11. /\ Changes(c, {g}) /\ FramesOf(frames'[c]) = {g} \cup Lower(frames[c])
  BY <1>2, <1>6, <1>8, <1>9, AdvancesAnew
<1>12. f.rest = {}
  <2>1. f.todo[1] \notin {"each", "test", "release"}
    BY <1>7 DEF Sorts, Containers
  <2> QED
    BY <1>4, <1>8, <2>1
<1>13. Searching(frames'[c], steady[c], closing[c])
  <2>1. \A op, o : InView(op, f, o) => InView(op, g, o)
    BY <1>7, <1>8, <1>10, <1>12 DEF InView, Tokens
  <2> QED
    BY <1>2, <1>7, <1>8, <1>9, <1>c, <2>1, SearchAdvances
<1>14. Searching(frames'[c], steady[c] \cup U, closing[c])
  <2>1. g \in FramesOf(frames'[c]) /\ g.op # "close" /\ U \subseteq g.rest
    BY <1>3, <1>8, <1>10, <1>11
  <2> QED
    BY <1>13, <2>1, SearchMore
<1>15. steady'[c] = steady[c] \cup U /\ \A d \in Callers : d # c => steady'[d] = steady[d]
  BY <1>2, <1>7 DEF CallTypes
<1>16. TokensOf(c, g, refs')
  BY <1>10 DEF TokensOf
<1>17. RightFrame(g)
  <2>1. "contains" \notin DOMAIN Seeks
    BY SeeksFacts
  <2>2. \A o \in f.found : IsAbout(AskOf(f), o)
    BY <1>2, <1>7 DEF RightFrame
  <2>3. AskOf(g) = AskOf(f)
    BY <1>7, <1>10 DEF AskOf
  <2> QED
    BY <1>8, <1>10, <2>1, <2>2, <2>3 DEF RightFrame
<1>18. KeepsSet(c, g, setsHeld', listed')
  BY <1>3, <1>5, <1>7, <1>8, <1>10, <1>h DEF KeepsSet
<1>19. SetsLocked'
  <2>1. \A h \in Lower(frames[c]) :
           h \in FramesOf(frames'[c]) /\ h.op = "contains" /\ h.key # None => <<h.key, c>> \in setsHeld'
    <3> SUFFICES ASSUME NEW h \in Lower(frames[c]), h.op = "contains", h.key # None
                 PROVE  <<h.key, c>> \in setsHeld'
      OBVIOUS
    <3>1. KeepsSet(c, h, setsHeld, listed)
      BY <1>2, LowerFrames DEF SetsLocked, SetsKept
    <3> QED
      BY <1>7, <3>1 DEF KeepsSet
  <2>2. OwnKeys(frames'[c])
    BY <1>2, <1>11, ChangedFrames DEF SetsLocked, SetsKept
  <2>3. /\ \A x \in Sets : \A d \in Callers : <<x, d>> \in setsHeld' =>
              <<x, d>> \in setsHeld \/ (d = c /\ FreeSet(x))
        /\ \A x \in Sets : \A d \in Callers : d # c /\ <<x, d>> \in setsHeld => <<x, d>> \in setsHeld'
        /\ \A o \in listed : o \in listed' \/ FreeSet(SetOf(o))
    BY <1>7, <1>h
  <2> DEFINE N == {g}
  <2>4. Changes(c, N) /\ \A h \in N : KeepsSet(c, h, setsHeld', listed')
    BY <1>11, <1>18
  <2> HIDE DEF N
  <2> QED
    BY <1>2, <2>1, <2>2, <2>3, <2>4, SetsLockedKept
<1>20. OtherTypes
  <2>1. setsHeld' \subseteq Sets \X Callers
    <3>1. H \subseteq Sets \X Callers
      BY <1>5 DEF H
    <3> QED
      BY <1>2, <1>7, <3>1 DEF CallTypes
  <2>2. U \subseteq Objects
    BY <1>3
  <2>3. steady' \in [Callers -> SUBSET Objects]
    BY <1>2, <1>7, <2>2 DEF CallTypes
  <2> QED
    BY <1>2, <1>7, <2>1, <2>3 DEF CallTypes, OtherTypes
<1>21. \A o \in steady'[c] : "app" \in refs[o]
  <2>1. \A o \in steady[c] : "app" \in refs[o]
    BY <1>2 DEF References, SteadyIsHeld
  <2> QED
    BY <1>3, <1>15, <2>1
<1>22. /\ \A o \in Objects : refs[o] \subseteq refs'[o] /\ (refs[o] = {} => refs'[o] = {})
       /\ \A d \in Callers : d # c => steady'[d] \subseteq steady[d]
       /\ Searching(frames'[c], steady'[c], closing[c])
  BY <1>7, <1>14, <1>15
<1> DEFINE N == {g}
<1>23. Changes(c, N) /\ \A h \in N : h.op # "close" /\ TokensOf(c, h, refs') /\ RightFrame(h)
  BY <1>10, <1>11, <1>16, <1>17
<1>24. InCall(c) /\ Top(c).op # "close" /\ fate' = fate /\ listed' = listed /\ using' = using
       /\ answer' = answer /\ closing' = closing
  BY <1>7, <1>c
<1> HIDE DEF N
<1> QED
  BY <1>19, <1>20, <1>21, <1>22, <1>23, <1>24, LookupKeeps

(* contains_entity leaves the mutex of a set.                              *)
LeftOn(f, g) ==
    /\ Continues(f, g) /\ f.op = "contains" /\ f.todo \notin Leaving2 /\ g.todo \notin Leaving2
    /\ f.rest = {} /\ f.loose = {} /\ f.ref = None
    /\ g.rest = {} /\ g.ref = None /\ g.key = None /\ g.loose = {} /\ g.found = f.found

LEMMA LeaveSetKeeps ==
    ASSUME LookupInv, NEW c \in Callers, LeaveSet(c), called' = called
    PROVE  LookupInv'
<1> DEFINE f == Top(c)
           g == LeftFrame(f)
           H == {<<f.key, c>>}
<1>1. /\ InCall(c) /\ f.todo[1] = "leave"
      /\ setsHeld' = setsHeld \ H
      /\ frames' = [frames EXCEPT ![c] = <<g>> \o Tail(@)]
      /\ Still /\ refs' = refs /\ fate' = fate /\ locked' = locked /\ listed' = listed
      /\ using' = using /\ answer' = answer
  BY DEF LeaveSet, On, SetTop, LeftFrame, Undisturbed, Still
<1>2. /\ f \in CallFrames /\ FrameShape(f) /\ CallTypes /\ CallStacks /\ SetsLocked /\ References
      /\ Searching(frames[c], steady[c], closing[c]) /\ RightFrame(f) /\ f \in FramesOf(frames[c])
      /\ f = frames[c][1] /\ frames[c] # << >> /\ StackShape(frames[c])
  BY <1>1, TopKnows
<1>c. f = Top(c) /\ g = LeftFrame(f)
  OBVIOUS
<1>h. \A x, d : <<x, d>> \in H <=> x = f.key /\ d = c
  OBVIOUS
<1> HIDE DEF f, g, H
<1>3. LeftOn(f, g)
  BY <1>1, <1>2, <1>c, ContainsLeaves DEF LeftOn
<1>4. /\ Continues(f, g) /\ f.op = "contains" /\ f.todo \notin Leaving2 /\ g.todo \notin Leaving2
      /\ f.rest = {} /\ f.loose = {} /\ f.ref = None
      /\ g.rest = {} /\ g.ref = None /\ g.key = None /\ g.loose = {} /\ g.found = f.found
  BY <1>3 DEF LeftOn
<1>5. StepsOn(c, g)
  BY <1>1, <1>4, <1>c, HandsOn
<1>6. g.op = "contains" /\ g.self = f.self /\ g.for = f.for
  BY <1>4, Heirs
<1>7. /\ Changes(c, {g}) /\ FramesOf(frames'[c]) = {g} \cup Lower(frames[c])
  BY <1>2, <1>4, <1>5, StepChanges
<1>8. Searching(frames'[c], steady[c], closing[c])
  <2>1. \A op, o : InView(op, f, o) => InView(op, g, o)
    BY <1>4, <1>6 DEF InView, Tokens
  <2>2. Top(c).op # "close" /\ (g.todo \in Leaving2 <=> Top(c).todo \in Leaving2)
    BY <1>4, <1>c
  <2> QED
    BY <1>2, <1>5, <1>c, <2>1, <2>2, SearchAdvances
<1>9. RightFrame(g)
  <2>1. "contains" \notin DOMAIN Seeks
    BY SeeksFacts
  <2>2. \A o \in f.found : IsAbout(AskOf(f), o)
    BY <1>2, <1>4 DEF RightFrame
  <2>3. AskOf(g) = AskOf(f)
    BY <1>4, <1>6 DEF AskOf
  <2> QED
    BY <1>4, <1>6, <2>1, <2>2, <2>3 DEF RightFrame
<1>10. KeepsSet(c, g, setsHeld', listed') /\ TokensOf(c, g, refs')
  BY <1>4, <1>6 DEF KeepsSet, TokensOf
<1>11. SetsLocked'
  <2>1. \A h \in Lower(frames[c]) :
           h \in FramesOf(frames'[c]) /\ h.op = "contains" /\ h.key # None => <<h.key, c>> \in setsHeld'
    <3> SUFFICES ASSUME NEW h \in Lower(frames[c]), h.op = "contains", h.key # None
                 PROVE  <<h.key, c>> \in setsHeld'
      OBVIOUS
    <3>1. KeepsSet(c, h, setsHeld, listed)
      BY <1>2, LowerFrames DEF SetsLocked, SetsKept
    <3>2. f.key # None => h.key # f.key
      <4>1. OwnKeys(frames[c])
        BY <1>2 DEF SetsLocked, SetsKept
      <4>2. f.key # None => \A x \in FramesOf(Tail(frames[c])) : x.key # f.key
        BY <1>2, <4>1, OwnKeysTail
      <4> QED
        BY <1>2, <4>2 DEF Lower
    <3> QED
      BY <1>1, <1>h, <3>1, <3>2 DEF KeepsSet
  <2>2. OwnKeys(frames'[c])
    BY <1>2, <1>7, ChangedFrames DEF SetsLocked, SetsKept
  <2>3. /\ \A x \in Sets : \A d \in Callers : <<x, d>> \in setsHeld' =>
              <<x, d>> \in setsHeld \/ (d = c /\ FreeSet(x))
        /\ \A x \in Sets : \A d \in Callers : d # c /\ <<x, d>> \in setsHeld => <<x, d>> \in setsHeld'
        /\ \A o \in listed : o \in listed' \/ FreeSet(SetOf(o))
    BY <1>1, <1>h
  <2> DEFINE N == {g}
  <2>4. Changes(c, N) /\ \A h \in N : KeepsSet(c, h, setsHeld', listed')
    BY <1>7, <1>10
  <2> HIDE DEF N
  <2> QED
    BY <1>2, <2>1, <2>2, <2>3, <2>4, SetsLockedKept
<1>12. OtherTypes
  <2>1. setsHeld' \subseteq Sets \X Callers
    BY <1>1, <1>2 DEF CallTypes
  <2> QED
    BY <1>1, <1>2, <2>1 DEF CallTypes, OtherTypes, Still
<1>13. /\ \A o \in steady'[c] : "app" \in refs[o]
       /\ \A o \in Objects : refs[o] \subseteq refs'[o] /\ (refs[o] = {} => refs'[o] = {})
       /\ \A d \in Callers : d # c => steady'[d] \subseteq steady[d]
       /\ Searching(frames'[c], steady'[c], closing[c])
  BY <1>1, <1>2, <1>8 DEF References, SteadyIsHeld, Still
<1> DEFINE N == {g}
<1>14. Changes(c, N) /\ \A h \in N : h.op # "close" /\ TokensOf(c, h, refs') /\ RightFrame(h)
  BY <1>6, <1>7, <1>9, <1>10
<1>15. InCall(c) /\ Top(c).op # "close" /\ fate' = fate /\ listed' = listed /\ using' = using
       /\ answer' = answer /\ closing' = closing
  BY <1>1, <1>4, <1>c DEF Still
<1> HIDE DEF N
<1> QED
  BY <1>11, <1>12, <1>13, <1>14, <1>15, LookupKeeps

(* contains_entity looks at an entity of the set whose mutex it holds.     *)
LooksOn(f, g) ==
    /\ Continues(f, g) /\ g.todo[1] = "release"
    /\ f.todo \notin Leaving2 /\ g.todo \notin Leaving2
    /\ f.loose = {} /\ f.ref \in Objects /\ f.ref # None /\ f.self \in Objects
    /\ g.rest = f.rest /\ g.key = f.key /\ g.ref = None /\ g.loose = {f.ref}
    /\ g.op = "contains" /\ g.self = f.self /\ g.for = f.for

LEMMA ContainsSees ==
    ASSUME LookupInv, NEW c \in Callers, InCall(c), NEW f, f = Top(c), f.op = "contains",
           f.todo[1] = "test"
    PROVE  /\ f \in CallFrames /\ FrameShape(f) /\ CallTypes /\ CallStacks
           /\ f.found = {} /\ f.ref # None /\ f.ref \in Objects /\ f.key # None
           /\ f.ref \in listed /\ Holder[f.ref] = f.self /\ f.op # "close"
           /\ RightFrame(f) /\ KeepsSet(c, f, setsHeld, listed)
           /\ BaseOf(frames[c]).op = "contains"
<1>1. /\ f \in CallFrames /\ FrameShape(f) /\ CallTypes /\ CallStacks
      /\ KeepsSet(c, f, setsHeld, listed) /\ RightFrame(f)
  BY TopKnows
<1>2. /\ f.found = {} /\ f.ref # None
  BY <1>1, Ops DEF ContainsShape
<1>3. f.ref \in Objects
  BY <1>1, <1>2, Ops
<1>4. /\ f.key # None /\ f.key \in {f.self} \X Sorts
      /\ \A o \in f.rest \cup ({f.ref} \ {None}) : o \in listed /\ SetOf(o) = f.key
  BY <1>1, <1>2 DEF KeepsSet
<1>5. f.ref \in listed /\ SetOf(f.ref) = f.key
  BY <1>2, <1>4
<1>6. Holder[f.ref] = f.self
  BY <1>4, <1>5 DEF SetOf
<1>7. BaseOf(frames[c]).op = "contains"
  <2> DEFINE b == BaseOf(frames[c])
  <2>1. b = BaseOf(frames[c]) /\ f.op # "close"
    OBVIOUS
  <2> HIDE DEF b
  <2> QED
    BY <1>1, <2>1, BaseFacts
<1> QED
  BY <1>1, <1>2, <1>3, <1>4, <1>5, <1>6, <1>7

(* What it finds closed is a discovered AnyTopic: nothing else stays in a  *)
(* set.                                                                    *)
LEMMA HandleReason ==
    ASSUME LookupInv, NEW c \in Callers, InCall(c), NEW f, f = Top(c), f.op = "contains",
           f.todo[1] = "test", fate[f.ref] = "closed"
    PROVE  Reason(AskOf(BaseOf(frames[c])), closing[c])
<1>1. /\ f \in CallFrames /\ FrameShape(f) /\ CallTypes /\ CallStacks
      /\ f.ref \in Objects /\ f.ref \in listed /\ Holder[f.ref] = f.self /\ f.op # "close"
  BY ContainsSees
<1>2. Sort[f.ref] = "discovered"
  BY <1>1 DEF LookupInv, Closings, ClosedIsUnlisted
<1>3. Sort[f.self] = "participant"
  BY <1>1, <1>2, LookupAssumption DEF HolderSort
<1> DEFINE s == frames[c]
           q == Tail(s)
           b == BaseOf(s)
<1>4. s = frames[c] /\ q = Tail(s) /\ b = BaseOf(s)
  OBVIOUS
<1>5. f.ref \in closing[c]
  BY <1>1, ClosedIsKnown DEF BeingClosedNow
<1> HIDE DEF s, q
<1>a. StackShape(s) /\ s # << >> /\ f = s[1]
  BY <1>4, TopKnows
<1>6. Fits(f, q) /\ BaseOf(s) = IF q = << >> THEN f ELSE BaseOf(q)
  BY <1>4, <1>a, PoppedStack
<1>7. q = << >>
  BY <1>3, <1>6 DEF Fits
<1>8. b = f
  BY <1>4, <1>6, <1>7
<1> HIDE DEF b
<1>9. AskOf(b).on = f.self
  BY <1>8 DEF AskOf
<1>10. Reason(AskOf(b), closing[c])
  BY <1>1, <1>2, <1>5, <1>9 DEF Reason
<1> QED
  BY <1>4, <1>10

LEMMA ContainsSeen ==
    ASSUME LookupInv, NEW c \in Callers, InCall(c), NEW f, f = Top(c), f.op = "contains",
           f.todo[1] = "test",
           NEW g, \/ g = LookedFrame(f) /\ f.ref # f.for
                  \/ g = MatchedFrame(f) /\ f.ref = f.for
    PROVE  /\ LooksOn(f, g) /\ TokensOf(c, g, refs) /\ RightFrame(g) /\ KeepsSet(c, g, setsHeld, listed)
           /\ (g = LookedFrame(f) => g.found = {})
           /\ \A o : InView("contains", f, o) => InView("contains", g, o)
           /\ g = LookedFrame(f) => \A op, o : InView(op, f, o) => InView(op, g, o)
<1>1. /\ f \in CallFrames /\ FrameShape(f) /\ CallTypes /\ CallStacks
      /\ f.found = {} /\ f.ref # None /\ f.ref \in Objects /\ f.key # None
      /\ RightFrame(f) /\ KeepsSet(c, f, setsHeld, listed)
  BY ContainsSees
<1>2. g = LookedFrame(f) \/ g = MatchedFrame(f)
  OBVIOUS
<1>3. /\ Continues(f, g) /\ g.todo[1] = "release"
      /\ f.todo \notin Leaving2 /\ g.todo \notin Leaving2
      /\ f.loose = {} /\ f.ref \in Objects /\ f.ref # None
      /\ g.rest = f.rest /\ g.key = f.key /\ g.ref = None /\ g.loose = {f.ref}
      /\ (g = MatchedFrame(f) => g.found = {f.ref})
      /\ (g = LookedFrame(f) => g.found = f.found) /\ f.self \in Objects
  BY <1>1, <1>2, ContainsLooks
<1>4. g.op = "contains" /\ g.self = f.self /\ g.for = f.for
  BY <1>3, Heirs
<1>5. \/ g.found = {} /\ f.ref # f.for
      \/ g.found = {f.ref} /\ f.ref = f.for
  <2>1. CASE g = LookedFrame(f) /\ f.ref # f.for
    BY <1>1, <1>3, <2>1
  <2>2. CASE g = MatchedFrame(f) /\ f.ref = f.for
    BY <1>3, <2>2
  <2> QED
    BY <2>1, <2>2
<1>6. TokensOf(c, g, refs)
  BY <1>4 DEF TokensOf
<1>7. KeepsSet(c, g, setsHeld, listed)
  BY <1>1, <1>3, <1>4 DEF KeepsSet
<1>8. RightFrame(g)
  <2>1. g.op \notin DOMAIN Seeks
    BY <1>4, SeeksFacts
  <2>2. AskOf(g).op = "contains" /\ AskOf(g).for = f.for
    BY <1>4 DEF AskOf
  <2>3. \A o \in g.found : IsAbout(AskOf(g), o)
    BY <1>5, <2>2 DEF IsAbout
  <2>4. SeenEnough(g, f.ref)
    BY <1>4, <1>5 DEF SeenEnough
  <2> QED
    BY <1>3, <2>1, <2>3, <2>4 DEF RightFrame
<1>9. \A o : InView("contains", f, o) => InView("contains", g, o)
  BY <1>1, <1>3, <1>4, <1>5 DEF InView, Tokens
<1>10. g = LookedFrame(f) => \A op, o : InView(op, f, o) => InView(op, g, o)
  BY <1>1, <1>3, <1>4 DEF InView, Tokens
<1>11. LooksOn(f, g)
  BY <1>3, <1>4 DEF LooksOn
<1>12. g = LookedFrame(f) => g.found = {}
  BY <1>1, <1>3
<1> QED
  BY <1>6, <1>7, <1>8, <1>9, <1>10, <1>11, <1>12

(* A handle that is not of a publisher or subscriber.                      *)
LEMMA HandleLooks ==
    ASSUME LookupInv, NEW c \in Callers, InCall(c), NEW f, f = Top(c), f.op = "contains",
           f.todo[1] = "test",
           NEW g, \/ g = LookedFrame(f) /\ f.ref # f.for
                  \/ g = MatchedFrame(f) /\ f.ref = f.for,
           frames' = [frames EXCEPT ![c] = <<g>> \o Tail(@)],
           Aside, Still, locked' = locked, called' = called
    PROVE  LookupInv'
<1>1. /\ LooksOn(f, g) /\ TokensOf(c, g, refs) /\ RightFrame(g) /\ KeepsSet(c, g, setsHeld, listed)
      /\ \A o : InView("contains", f, o) => InView("contains", g, o)
  BY ContainsSeen
<1>2. BaseOf(frames[c]).op = "contains" /\ CallTypes
  BY ContainsSees
<1>3. StepsOn(c, g)
  BY <1>1, HandsOn DEF LooksOn
<1>4. /\ g.key = Top(c).key /\ (g.todo \in Leaving2 <=> Top(c).todo \in Leaving2)
      /\ Top(c).op # "close"
  BY <1>1 DEF LooksOn
<1>5. \A o \in steady[c] : /\ IsAbout(AskOf(BaseOf(frames[c])), o)
                           /\ InView(BaseOf(frames[c]).op, Top(c), o)
                           => InView(BaseOf(frames[c]).op, g, o)
  BY <1>1, <1>2
<1>6. locked' \in [Objects -> Callers \cup {None}]
  BY <1>2 DEF CallTypes
<1> QED
  BY <1>1, <1>3, <1>4, <1>5, <1>6, LookupAdvances

InnerBody(q) == q \in {<<"writer", "return">>, <<"reader", "return">>}

LEMMA InnerBodyStarts ==
    ASSUME NEW self \in Objects, NEW for \in Subjects, NEW q, InnerBody(q),
           NEW h, h = Call("contains", self, for, q)
    PROVE  /\ h \in CallFrames /\ FrameShape(h) /\ h.op = "contains" /\ h.self = self /\ h.for = for
           /\ h.rest = {} /\ h.ref = None /\ h.key = None /\ h.found = {} /\ h.loose = {}
           /\ h.todo \notin Leaving2 /\ h.op # "close" /\ ~Plain(h) /\ h.todo[1] # "lock"
<1>1. /\ h.op = "contains" /\ h.self = self /\ h.for = for
      /\ h.todo = q /\ h.rest = {} /\ h.ref = None /\ h.key = None /\ h.found = {} /\ h.loose = {}
  BY DEF Call
<1>2. "contains" \in Lookups /\ "contains" # "close" /\ "contains" \notin DOMAIN Seeks
      /\ "contains" # "find_topic_description"
  BY SeeksFacts
<1>3. ContainsTodo(q) /\ q # << >> /\ q \in Seq(StageNames) /\ q \notin Leaving2
      /\ q[1] \notin {"test", "release", "lock"}
  <2>1. q \in {LookupBody("contains"), <<"writer", "return">>, <<"reader", "return">>}
    BY DEF InnerBody
  <2>2. q[1] \in {"writer", "reader"}
    BY DEF InnerBody
  <2> QED
    BY <2>1, <2>2, LookupLiterals
<1>4. h \in CallFrames
  BY <1>2, <1>3 DEF Call, CallFrames
<1>5. ContainsShape(h)
  BY <1>1, <1>3 DEF ContainsShape
<1>6. FrameShape(h)
  BY <1>1, <1>2, <1>3, <1>5 DEF FrameShape
<1> QED
  BY <1>1, <1>2, <1>3, <1>4, <1>6 DEF Plain

(* contains_entity of a publisher or subscriber within that of another     *)
(* entity.                                                                 *)
LEMMA HandleGoesIn ==
    ASSUME LookupInv, NEW c \in Callers, InCall(c), NEW f, f = Top(c), f.op = "contains",
           f.todo[1] = "test", f.ref # f.for, Sort[f.ref] \in {"publisher", "subscriber"},
           NEW q, InnerBody(q),
           NEW g, g = LookedFrame(f), NEW h, h = Call("contains", f.ref, f.for, q),
           Moves(c, <<h>> \o (<<g>> \o Tail(frames[c]))),
           Aside, Still, locked' = locked, called' = called
    PROVE  LookupInv'
<1>1. /\ LooksOn(f, g) /\ TokensOf(c, g, refs) /\ RightFrame(g) /\ KeepsSet(c, g, setsHeld, listed)
      /\ g.found = {} /\ \A op, o : InView(op, f, o) => InView(op, g, o)
  BY ContainsSeen
<1>2. /\ f \in CallFrames /\ FrameShape(f) /\ CallTypes /\ CallStacks /\ f.op # "close"
      /\ f.ref \in Objects
  BY ContainsSees
<1>3. /\ Continues(f, g) /\ g.todo[1] = "release" /\ f.todo \notin Leaving2 /\ g.todo \notin Leaving2
      /\ g.key = f.key /\ g.op = "contains" /\ g.for = f.for /\ g \in CallFrames
  BY <1>1 DEF LooksOn, Continues
<1>4. frames[c] \in Seq(CallFrames) /\ frames[c] # << >>
  BY <1>2, TopFrame
<1>5. /\ h \in CallFrames /\ FrameShape(h) /\ h.op = "contains" /\ h.self = f.ref /\ h.for = f.for
      /\ h.rest = {} /\ h.ref = None /\ h.key = None /\ h.found = {} /\ h.loose = {}
      /\ h.todo \notin Leaving2 /\ h.op # "close" /\ ~Plain(h) /\ h.todo[1] # "lock"
  <2>1. f.for \in Subjects
    BY <1>2, Ops
  <2> QED
    BY <1>2, <2>1, InnerBodyStarts
<1>6. /\ FramesOf(<<g>> \o Tail(frames[c])) = {g} \cup FramesOf(Tail(frames[c]))
      /\ StackShape(<<g>> \o Tail(frames[c]))
  BY <1>2, <1>3, Replaced
<1>7. Fits(h, <<g>> \o Tail(frames[c]))
  <2> DEFINE s == <<g>> \o Tail(frames[c])
  <2>1. \A j \in 1 .. Len(s) : s[j] \in FramesOf(s)
    BY DEF FramesOf
  <2>2. \A x \in FramesOf(s) :
           x.op = "contains" /\ x.todo[1] = "release" /\ x.found = {} /\ x.for = f.for
    <3> DEFINE b == BaseOf(frames[c])
    <3>1. b = BaseOf(frames[c])
      OBVIOUS
    <3> HIDE DEF b, s
    <3>2. \A x \in Lower(frames[c]) :
             x.op = "contains" /\ x.for = f.for /\ x.todo[1] = "release" /\ x.found = {}
      BY <1>2, <3>1, BaseFacts
    <3>3. FramesOf(Tail(frames[c])) = Lower(frames[c])
      BY <1>4 DEF Lower
    <3> QED
      BY <1>1, <1>3, <1>6, <3>2, <3>3 DEF s
  <2>3. h.op # "find_topic_description" /\ h.op \notin DOMAIN Seeks
    BY <1>5, SeeksFacts
  <2> HIDE DEF s
  <2>4. \A j \in 1 .. Len(s) :
           s[j].op = "contains" /\ s[j].todo[1] = "release" /\ s[j].found = {} /\ s[j].for = h.for
    BY <1>5, <2>1, <2>2
  <2>5. Fits(h, s)
    BY <1>5, <2>3, <2>4 DEF Fits
  <2> QED
    BY <2>5 DEF s
<1>9. g.key \in {f.key, None}
  BY <1>3
<1> QED
  BY <1>1, <1>2, <1>3, <1>5, <1>7, <1>9, InnerStarts

LEMMA TestHandleKeeps ==
    ASSUME LookupInv, NEW c \in Callers, TestHandle(c), called' = called
    PROVE  LookupInv'
<1> DEFINE f == Top(c)
           l == LookedFrame(f)
           q == CASE Sort[f.ref] = "publisher" -> <<"writer", "return">>
                  [] Sort[f.ref] = "subscriber" -> <<"reader", "return">>
                  [] OTHER -> << >>
           h == Call("contains", f.ref, f.for, q)
<1>0. /\ On(c, "test") /\ f.op = "contains"
      /\ IF fate[f.ref] = "closed" THEN Throw(c)
         ELSE /\ IF f.ref = l.for THEN SetTop(c, [l EXCEPT !.found = {f.ref}])
                 ELSE IF q = << >> THEN SetTop(c, l)
                 ELSE frames' = [frames EXCEPT ![c] = <<Call("contains", f.ref, l.for, q), l>> \o Tail(@)]
              /\ Undisturbed
              /\ UNCHANGED <<refs, fate, locked, setsHeld, listed, using, answer>>
  BY ZenonT(30) DEF TestHandle, LookedFrame
<1>2. q # << >> => /\ Sort[f.ref] \in {"publisher", "subscriber"}
                   /\ InnerBody(q)
  BY DEF InnerBody
<1>c. f = Top(c) /\ h = Call("contains", f.ref, f.for, q)
  OBVIOUS
<1>d. l = LookedFrame(f)
  OBVIOUS
<1>e. /\ InCall(c) /\ f.op = "contains" /\ f.todo[1] = "test"
      /\ fate[f.ref] = "closed" => Throw(c)
      /\ fate[f.ref] # "closed" => Aside /\ Still /\ locked' = locked
  BY <1>0 DEF On, Undisturbed, Aside, Still
<1>f. f \in CallFrames /\ FrameShape(f) /\ CallTypes /\ CallStacks
  BY <1>e, ContainsSees
<1>g. l \in CallFrames /\ l.for = f.for
  <2>1. LookedFrame(f) \in CallFrames /\ LookedFrame(f).for = f.for
    <3> DEFINE g == LookedFrame(f)
    <3>1. g = LookedFrame(f)
      OBVIOUS
    <3> HIDE DEF g, f
    <3>2. Continues(f, g)
      BY <1>e, <1>f, <3>1, ContainsLooks
    <3> QED
      BY <3>2, Heirs DEF g
  <2> QED
    BY <2>1
<1> HIDE DEF q, f, l
<1>1. fate[f.ref] # "closed" =>
         IF f.ref = f.for THEN frames' = [frames EXCEPT ![c] = <<[l EXCEPT !.found = {f.ref}]>> \o Tail(@)]
         ELSE IF q = << >> THEN frames' = [frames EXCEPT ![c] = <<l>> \o Tail(@)]
         ELSE frames' = [frames EXCEPT ![c] = <<h, l>> \o Tail(@)]
  BY <1>0, <1>g DEF SetTop
<1> HIDE DEF h
<1>3. CASE fate[f.ref] = "closed"
  <2>2. Reason(AskOf(BaseOf(frames[c])), closing[c])
    BY <1>e, <1>3, <1>c, HandleReason
  <2>3. f.op # "find_topic_description" /\ f.todo[1] \notin {"finish", "unlist", "release"}
    BY <1>e
  <2> QED
    BY <1>e, <1>3, <1>c, <2>2, <2>3, ThrowKeeps
<1>4. CASE fate[f.ref] # "closed"
  <2>1. CASE f.ref = f.for
    <3> DEFINE g == MatchedFrame(f)
    <3>1. g = MatchedFrame(f) /\ frames' = [frames EXCEPT ![c] = <<g>> \o Tail(@)]
      BY <1>1, <1>4, <1>d, <2>1 DEF MatchedFrame
    <3> HIDE DEF g
    <3> QED
      BY <1>e, <1>4, <1>c, <2>1, <3>1, HandleLooks
  <2>2. CASE f.ref # f.for /\ q = << >>
    <3>1. frames' = [frames EXCEPT ![c] = <<l>> \o Tail(@)]
      BY <1>1, <1>4, <2>2
    <3> QED
      BY <1>e, <1>4, <1>c, <1>d, <2>2, <3>1, HandleLooks
  <2>3. CASE f.ref # f.for /\ q # << >>
    <3>1. frames' = [frames EXCEPT ![c] = <<h, l>> \o Tail(@)]
      BY <1>1, <1>4, <2>3
    <3>2. /\ Sort[f.ref] \in {"publisher", "subscriber"} /\ InnerBody(q)
      BY <1>2, <2>3
    <3>3. h \in CallFrames
      <4>1. f.for \in Subjects /\ f.ref \in Objects
        BY <1>c, <1>e, <1>f, Ops, ContainsSees
      <4> QED
        BY <1>c, <3>2, <4>1, InnerBodyStarts
    <3>4. frames[c] \in Seq(CallFrames) /\ frames[c] # << >>
      BY <1>e, <1>f, TopFrame
    <3>5. <<h, l>> \o Tail(frames[c]) = <<h>> \o (<<l>> \o Tail(frames[c]))
      BY <1>g, <3>3, <3>4, TwoOnStack
    <3>6. Moves(c, <<h>> \o (<<l>> \o Tail(frames[c])))
      BY <3>1, <3>5 DEF Moves
    <3>7. InCall(c) /\ f.op = "contains" /\ f.todo[1] = "test" /\ Aside /\ Still /\ locked' = locked
          /\ f.ref # f.for
      BY <1>e, <1>4, <2>3
    <3> QED
      BY <1>c, <1>d, <3>2, <3>6, <3>7, HandleGoesIn
  <2> QED
    BY <2>1, <2>2, <2>3
<1> QED
  BY <1>3, <1>4

(* A lookup ends, or one within another one.                               *)
Ends2(f) == f.todo[1] \in {"return", "unwind"}

LEMMA EndsAs ==
    ASSUME NEW f \in CallFrames, FrameShape(f), Ends2(f)
    PROVE  /\ f.op # "close" /\ f.op \in Lookups
           /\ f.todo[1] = "return" => /\ f.todo \notin Leaving2 /\ f.rest = {} /\ f.ref = None /\ f.loose = {}
           /\ f.todo[1] = "unwind" => f.todo \in Leaving2
<1>1. f.op # "close"
  <2>1. "return" \notin CloseStages /\ "unwind" \notin CloseStages
    BY DEF CloseStages, Sorts, Containers
  <2> QED
    BY <2>1, NotClose DEF Ends2
<1>2. f.op \in Lookups /\ (f.loose # {} => f.todo[1] = "release")
  BY <1>1, Ops
<1>3. f.todo[1] = "return" => f.todo \notin Leaving2
  BY LeavingStages
<1>4. f.todo[1] = "return" => f.rest = {} /\ f.ref = None
  <2> SUFFICES ASSUME f.todo[1] = "return" PROVE f.rest = {} /\ f.ref = None
    OBVIOUS
  <2>1. CASE f.op \in DOMAIN Seeks
    <3>1. FindShape(f)
      BY <2>1, Ops
    <3>2. /\ f.ref # None <=> f.todo[1] \in {"test", "name"}
          /\ f.rest # {} => \/ f.todo \in Leaving2 \/ f.todo[1] = "each"
                            \/ f.todo[1] \in {"test", "name", "release"} /\ f.todo[2] = "each"
      BY <3>1 DEF FindShape
    <3> QED
      BY <1>3, <3>2
  <2>2. CASE f.op = "find_topic_description"
    BY <2>2, Ops DEF TwiceShape
  <2>3. CASE f.op = "contains"
    <3>1. ContainsShape(f)
      BY <2>3, Ops
    <3>2. /\ f.ref # None <=> f.todo[1] = "test"
          /\ f.rest # {} => \/ f.todo \in Leaving2 \/ f.todo[1] = "each"
                            \/ f.todo[1] \in {"test", "release"} /\ f.todo[2] = "each"
      BY <3>1 DEF ContainsShape
    <3> QED
      BY <1>3, <3>2
  <2> QED
    BY <1>1, <2>1, <2>2, <2>3, Ops
<1>5. f.todo[1] = "unwind" => f.todo \in Leaving2
  <2> SUFFICES ASSUME f.todo[1] = "unwind" PROVE f.todo \in Leaving2
    OBVIOUS
  <2>1. CASE f.op \in DOMAIN Seeks
    <3> DEFINE sort == Seeks[f.op]
    <3>1. sort \in SoughtSorts /\ f.todo \in FindTodos(sort)
      BY <2>1, Ops DEF FindShape
    <3> HIDE DEF sort
    <3>2. f.todo = <<"unwind">>
      BY <3>1, FindStages
    <3> QED
      BY <3>2 DEF Leaving2
  <2>2. CASE f.op = "find_topic_description"
    <3>1. f.todo \in TwiceTodos
      BY <2>2, Ops DEF TwiceShape
    <3>2. f.todo = <<"unwind">>
      BY <3>1, TwiceStages
    <3> QED
      BY <3>2 DEF Leaving2
  <2>3. CASE f.op = "contains"
    <3>1. ContainsTodo(f.todo) /\ f.todo # << >>
      BY <2>3, Ops DEF ContainsShape
    <3>2. f.todo \in Seq(ContainsStages) => f.todo[1] \in ContainsStages
      BY <3>1, OffStack
    <3>3. "unwind" \notin ContainsStages
      BY DEF ContainsStages, Sorts, Containers
    <3> QED
      BY <3>1, <3>2, <3>3 DEF ContainsTodo
  <2> QED
    BY <1>1, <2>1, <2>2, <2>3, Ops
<1> QED
  BY <1>1, <1>2, <1>3, <1>4, <1>5 DEF Ends2

(* It gives up the mutex of a set.                                         *)
LEMMA LowerKeepSets ==
    ASSUME CallTypes, CallStacks, SetsLocked, NEW c \in Callers, InCall(c), NEW f, f = Top(c),
           NEW H, \A x, d : <<x, d>> \in H <=> x = f.key /\ d = c, NEW h \in Lower(frames[c])
    PROVE  KeepsSet(c, h, setsHeld \ H, listed)
<1>1. KeepsSet(c, h, setsHeld, listed)
  BY LowerFrames DEF SetsLocked, SetsKept
<1>2. f.key # None => h.key # f.key
  <2> DEFINE s == frames[c]
             q == Tail(s)
  <2>0. s = frames[c] /\ q = Tail(s)
    OBVIOUS
  <2> HIDE DEF s, q
  <2>1. StackShape(s) /\ s # << >> /\ f = s[1]
    BY <2>0, TopFrame
  <2>2. OwnKeys(s)
    BY <2>0 DEF SetsLocked, SetsKept
  <2>3. f.key # None => \A x \in FramesOf(q) : x.key # f.key
    BY <2>0, <2>1, <2>2, OwnKeysTail
  <2> QED
    BY <2>0, <2>1, <2>3 DEF Lower
<1> QED
  BY <1>1, <1>2 DEF KeepsSet

LEMMA SetsGivenUp ==
    ASSUME CallTypes, CallStacks, SetsLocked, NEW c \in Callers, InCall(c), NEW f, f = Top(c),
           NEW H, \A x, d : <<x, d>> \in H <=> x = f.key /\ d = c,
           NEW N, Changes(c, N), setsHeld' = setsHeld \ H, listed' = listed,
           \A h \in N : KeepsSet(c, h, setsHeld', listed')
    PROVE  SetsLocked'
<1>1. \A h \in Lower(frames[c]) :
         h \in FramesOf(frames'[c]) /\ h.op = "contains" /\ h.key # None => <<h.key, c>> \in setsHeld'
  <2> SUFFICES ASSUME NEW h \in Lower(frames[c]), h.op = "contains", h.key # None
               PROVE  <<h.key, c>> \in setsHeld'
    OBVIOUS
  <2>1. KeepsSet(c, h, setsHeld \ H, listed)
    BY LowerKeepSets
  <2> QED
    BY <2>1 DEF KeepsSet
<1>2. OwnKeys(frames'[c])
  BY ChangedFrames DEF SetsLocked, SetsKept
<1>3. /\ \A x \in Sets : \A d \in Callers : <<x, d>> \in setsHeld' =>
            <<x, d>> \in setsHeld \/ (d = c /\ FreeSet(x))
      /\ \A x \in Sets : \A d \in Callers : d # c /\ <<x, d>> \in setsHeld => <<x, d>> \in setsHeld'
      /\ \A o \in listed : o \in listed' \/ FreeSet(SetOf(o))
  OBVIOUS
<1> QED
  BY <1>1, <1>2, <1>3, SetsLockedKept

(* The lookup that it is within.                                           *)
OuterTo(c, f, b) ==
    /\ Len(frames[c]) > 1 /\ b \in Lower(frames[c]) /\ b \in CallFrames /\ FrameShape(b)
    /\ \/ WithinTwice(f, b) /\ f.op \in DOMAIN Seeks
       \/ /\ f.op = "contains" /\ b.op = "contains" /\ b.todo[1] = "release" /\ b.found = {}
          /\ b.for = f.for
    /\ b.op # "close" /\ b.op \notin DOMAIN Seeks /\ b.found = {}
    /\ RightFrame(b) /\ TokensOf(c, b, refs)

LEMMA OuterFrame ==
    ASSUME LookupInv, NEW c \in Callers, InCall(c), NEW f, f = Top(c), Ends2(f),
           Len(frames[c]) # 1, NEW b, b = frames[c][2]
    PROVE  OuterTo(c, f, b)
<1> DEFINE s == frames[c]
           q == Tail(s)
<1>0. s = frames[c] /\ q = Tail(s)
  OBVIOUS
<1>1. CallTypes /\ CallStacks /\ f \in CallFrames /\ FrameShape(f) /\ References /\ Knowledge
  BY TopKnows
<1> HIDE DEF s, q
<1>2. /\ s # << >> /\ StackShape(s) /\ f = s[1] /\ Fits(f, q) /\ Len(s) \in Nat \ {0}
      /\ q \in Seq(CallFrames) /\ Len(q) = Len(s) - 1
  BY <1>0, <1>1, TopFrame
<1>3. Len(s) > 1 /\ q[1] = b /\ q # << >> /\ 1 \in 1 .. Len(q)
  <2>1. s \in Seq(CallFrames)
    BY <1>2 DEF StackShape
  <2>2. Len(s) > 1 /\ 1 \in 1 .. Len(q)
    <3>1. Len(s) # 1
      BY <1>0
    <3>2. Len(s) \in Nat \ {0} /\ Len(q) = Len(s) - 1
      BY <1>2
    <3> DEFINE n == Len(s)
               m == Len(q)
    <3>3. n # 1 /\ n \in Nat \ {0} /\ m = n - 1
      BY <3>1, <3>2
    <3> HIDE DEF n, m
    <3>4. n > 1 /\ 1 \in 1 .. m
      BY <3>3
    <3> QED
      BY <3>4 DEF n, m
  <2>3. q[1] = s[1 + 1]
    BY <1>0, <1>2, <2>1, <2>2, OffStack
  <2>4. q # << >>
    BY <1>2, <2>2, NoStack
  <2> QED
    BY <1>0, <2>2, <2>3, <2>4
<1>4. b \in Lower(s)
  <2>1. b \in FramesOf(q)
    BY <1>3 DEF FramesOf
  <2> QED
    BY <1>0, <1>2, <2>1 DEF Lower
<1>5. b \in FramesOf(s)
  BY <1>0, <1>1, <1>4, LowerFrames
<1>6. b \in CallFrames /\ FrameShape(b)
  BY <1>0, <1>1, <1>5, FrameTokens
<1>7. f.op # "close" /\ f.op \in Lookups
  BY <1>1, EndsAs
<1>8. \/ WithinTwice(f, b) /\ f.op \in DOMAIN Seeks
      \/ /\ f.op = "contains" /\ b.op = "contains" /\ b.todo[1] = "release" /\ b.found = {}
         /\ b.for = f.for
  BY <1>2, <1>3, <1>7, SeeksFacts DEF Fits
<1>9. b.op # "close" /\ b.op \notin DOMAIN Seeks /\ b.found = {}
  BY <1>8, SeeksFacts DEF WithinTwice
<1>10. RightFrame(b) /\ TokensOf(c, b, refs)
  BY <1>0, <1>1, <1>5 DEF Knowledge, OnlyRight, References, TokensHeld
<1> QED
  BY <1>0, <1>3, <1>4, <1>6, <1>8, <1>9, <1>10 DEF OuterTo

(* The end of a lookup within another one.                                 *)
HandedOn(f, b, g) ==
    /\ Continues(b, g)
    /\ g.rest = b.rest /\ g.ref = b.ref /\ g.key = b.key /\ g.loose = b.loose
    /\ \/ f.todo[1] = "unwind" /\ g.todo \in Leaving2 /\ g.found = b.found
       \/ f.todo[1] = "return" /\ g.todo = b.todo /\ g.found = f.found

HandsOut(f, b, g) ==
    \/ f.todo[1] = "unwind" /\ g = UnwoundFrame(b)
    \/ f.todo[1] = "return" /\ g = HandedFrame(b, f.found)

LEMMA HandsOver ==
    ASSUME NEW f \in CallFrames, FrameShape(f), NEW b \in CallFrames, FrameShape(b),
           \/ WithinTwice(f, b)
           \/ b.op = "contains" /\ b.todo[1] = "release" /\ b.found = {},
           NEW g, HandsOut(f, b, g)
    PROVE  HandedOn(f, b, g)
<1>1. g = UnwoundFrame(b) \/ g = HandedFrame(b, f.found)
  BY DEF HandsOut
<1> DEFINE w == <<"release", "unwind">>
<1>2. w \in Leaving2
  BY DEF Leaving2
<1>3. /\ Continues(b, g)
      /\ g.rest = b.rest /\ g.ref = b.ref /\ g.key = b.key /\ g.loose = b.loose
      /\ g = UnwoundFrame(b) => g.todo = w /\ g.found = b.found
      /\ g = HandedFrame(b, f.found) => g.todo = b.todo /\ g.found = f.found
  BY <1>1, Returned
<1> HIDE DEF w
<1> QED
  BY <1>2, <1>3 DEF HandedOn, HandsOut

OuterGets(c, b, g) ==
    /\ g.op = b.op /\ g.self = b.self /\ g.for = b.for /\ g.op # "close"
    /\ TokensOf(c, g, refs) /\ RightFrame(g)
    /\ \A S, L : KeepsSet(c, b, S, L) => KeepsSet(c, g, S, L)

LEMMA OuterKnows ==
    ASSUME LookupInv, NEW c \in Callers, InCall(c), NEW f, f = Top(c), Ends2(f),
           Len(frames[c]) # 1, NEW b, b = frames[c][2], NEW g, HandedOn(f, b, g)
    PROVE  OuterGets(c, b, g)
<1>1. /\ f \in CallFrames /\ FrameShape(f) /\ TokensOf(c, f, refs) /\ RightFrame(f)
  BY TopKnows
<1>2. /\ b \in CallFrames /\ FrameShape(b)
      /\ \/ WithinTwice(f, b) /\ f.op \in DOMAIN Seeks
         \/ /\ f.op = "contains" /\ b.op = "contains" /\ b.todo[1] = "release" /\ b.found = {}
            /\ b.for = f.for
      /\ b.op # "close" /\ b.op \notin DOMAIN Seeks /\ b.found = {}
      /\ RightFrame(b) /\ TokensOf(c, b, refs)
  <2>1. OuterTo(c, f, b)
    BY OuterFrame
  <2> QED
    BY <2>1 DEF OuterTo
<1>3. /\ Continues(b, g)
      /\ g.rest = b.rest /\ g.ref = b.ref /\ g.key = b.key /\ g.loose = b.loose
      /\ \/ f.todo[1] = "unwind" /\ g.todo \in Leaving2 /\ g.found = b.found
         \/ f.todo[1] = "return" /\ g.todo = b.todo /\ g.found = f.found
  BY DEF HandedOn
<1>4. g.op = b.op /\ g.self = b.self /\ g.for = b.for
  BY <1>3, Heirs
<1>5. f.op # "close" /\ f.found \in SUBSET Objects
  BY <1>1, Ops, EndsAs
<1>6. \A S, L : KeepsSet(c, b, S, L) => KeepsSet(c, g, S, L)
  BY <1>3, <1>4 DEF KeepsSet
<1>7. WithinTwice(f, b) =>
         /\ b.op = "find_topic_description" /\ b.self = f.self /\ b.for = f.for
         /\ b.rest = {} /\ b.ref = None /\ b.loose = {}
         /\ (f.op = "find_topic" \/ f.op = "find_cfTopic")
  BY <1>2, Ops DEF WithinTwice, TwiceShape
<1>8. TokensOf(c, g, refs)
  <2>1. CASE b.op = "contains"
    BY <1>4, <2>1 DEF TokensOf
  <2>2. CASE WithinTwice(f, b) /\ f.op \in DOMAIN Seeks
    <3>1. Tokens(g) = g.found /\ g.rest = {} /\ g.ref = None /\ g.loose = {}
      BY <1>3, <1>7, <2>2 DEF Tokens
    <3>2. \A o \in f.found : c \in refs[o]
      BY <1>1, <1>5, <2>2, SeeksFacts DEF TokensOf, Tokens
    <3>3. g.found = {} \/ g.found = f.found
      BY <1>2, <1>3
    <3>4. None \notin g.found
      BY <1>5, <3>3, LookupAssumption
    <3> QED
      BY <3>1, <3>2, <3>3, <3>4 DEF TokensOf
  <2> QED
    BY <1>2, <2>1, <2>2
<1>9. RightFrame(g)
  <2>1. g.op \notin DOMAIN Seeks
    BY <1>2, <1>4
  <2>2. \A o \in f.found : IsAbout(AskOf(f), o)
    BY <1>1, <1>5 DEF RightFrame
  <2>3. \A o \in g.found : IsAbout(AskOf(g), o)
    <3>1. g.found = {} \/ g.found = f.found
      BY <1>2, <1>3
    <3> SUFFICES ASSUME NEW o \in f.found PROVE IsAbout(AskOf(g), o)
      BY <3>1
    <3>2. IsAbout(AskOf(f), o)
      BY <2>2
    <3>3. CASE b.op = "contains" /\ f.op = "contains" /\ b.for = f.for
      <4>1. o = f.for
        BY <3>2, <3>3 DEF IsAbout, AskOf
      <4> QED
        BY <1>4, <3>3, <4>1 DEF IsAbout, AskOf
    <3>4. CASE WithinTwice(f, b)
      <4>0. AskOf(f).op = f.op /\ AskOf(f).on = f.self /\ AskOf(f).for = f.for
            /\ AskOf(g).op = "find_topic_description" /\ AskOf(g).on = f.self /\ AskOf(g).for = f.for
        BY <1>4, <1>7, <3>4 DEF AskOf
      <4>1. /\ Label[o] = f.for /\ Holder[o] = f.self /\ SetSort(Sort[o]) = Seeks[f.op]
        BY <1>7, <3>2, <3>4, <4>0 DEF IsAbout
      <4>2. SetSort(Sort[o]) \in {"topic", "cft"}
        BY <1>7, <3>4, <4>1, SeeksFacts
      <4> QED
        BY <4>0, <4>1, <4>2 DEF IsAbout
    <3> QED
      BY <1>2, <3>3, <3>4
  <2>4. g.todo \notin Leaving2 => \A o \in g.loose : SeenEnough(g, o)
    <3> SUFFICES ASSUME g.todo \notin Leaving2, NEW o \in g.loose PROVE SeenEnough(g, o)
      OBVIOUS
    <3>1. g.loose = b.loose /\ g.todo = b.todo
      BY <1>3
    <3>2. SeenEnough(b, o)
      BY <1>2, <3>1 DEF RightFrame
    <3> QED
      BY <1>2, <1>4, <3>2 DEF SeenEnough
  <2> QED
    BY <2>1, <2>3, <2>4 DEF RightFrame
<1> QED
  BY <1>2, <1>4, <1>6, <1>8, <1>9 DEF OuterGets

(* The search of the outer lookup goes on with what the inner one found.   *)
StacksAs(s, t, f, b, g, Q) == FramesOf(s) = {f} \cup ({b} \cup Q) /\ FramesOf(t) = {g} \cup Q

LEMMA OuterSearches ==
    ASSUME NEW s, NEW t, NEW f, NEW b, NEW g, NEW Q, HandedOn(f, b, g), StacksAs(s, t, f, b, g, Q),
           s # << >>, BaseOf(s).op # "close",
           AskOf(BaseOf(t)) = AskOf(BaseOf(s)), f.op # "close", b.op # "close", b.found = {},
           f.todo[1] = "return" => f.todo \notin Leaving2 /\ f.rest = {} /\ f.ref = None /\ f.loose = {},
           f.todo[1] = "unwind" => f.todo \in Leaving2,
           NEW S, NEW C, Searching(s, S, C)
    PROVE  Searching(t, S, C)
<1>0. FramesOf(s) = {f} \cup ({b} \cup Q) /\ FramesOf(t) = {g} \cup Q
  BY DEF StacksAs
<1>1. /\ Continues(b, g)
      /\ g.rest = b.rest /\ g.ref = b.ref /\ g.key = b.key /\ g.loose = b.loose
      /\ \/ f.todo[1] = "unwind" /\ g.todo \in Leaving2 /\ g.found = b.found
         \/ f.todo[1] = "return" /\ g.todo = b.todo /\ g.found = f.found
  BY DEF HandedOn
<1>2. g.op = b.op
  BY <1>1, Heirs
<1>3. BaseOf(t).op = BaseOf(s).op
  BY DEF AskOf
<1>4. f \in FramesOf(s) /\ b \in FramesOf(s) /\ g \in FramesOf(t)
  BY <1>0
<1>5. CASE f.todo[1] = "unwind"
  <2>1. Unwinds(s)
    BY <1>4, <1>5 DEF Unwinds
  <2>2. Unwinds(t)
    <3>1. g.todo \in Leaving2
      BY <1>1, <1>5
    <3> QED
      BY <1>4, <3>1 DEF Unwinds
  <2> QED
    BY <2>1, <2>2 DEF Searching
<1>6. CASE f.todo[1] = "return"
  <2>0. g.todo = b.todo /\ g.found = f.found /\ f.todo \notin Leaving2
        /\ f.rest = {} /\ f.ref = None /\ f.loose = {}
    BY <1>1, <1>6
  <2>1. Unwinds(t) <=> Unwinds(s)
    BY <1>0, <2>0 DEF Unwinds
  <2>2. \A op, o : InView(op, f, o) => InView(op, g, o)
    BY <1>2, <2>0 DEF InView, Tokens
  <2>3. \A op, o : InView(op, b, o) => InView(op, g, o)
    BY <1>1, <1>2, <2>0 DEF InView, Tokens
  <2>4. \A op, o : (\E h \in FramesOf(s) : InView(op, h, o)) => \E h \in FramesOf(t) : InView(op, h, o)
    BY <1>0, <2>2, <2>3
  <2> QED
    BY <1>3, <2>1, <2>4 DEF Searching
<1> QED
  BY <1>1, <1>5, <1>6

GivesUp(f, c) == setsHeld' = setsHeld \ {<<f.key, c>>}

LEMMA EndsInner ==
    ASSUME LookupInv, NEW c \in Callers, InCall(c), NEW f, f = Top(c), Ends2(f),
           Len(frames[c]) # 1, NEW b, b = frames[c][2], NEW g, HandsOut(f, b, g),
           Moves(c, <<g>> \o Tail(Tail(frames[c]))),
           GivesUp(f, c),
           refs' = refs, fate' = fate, listed' = listed, using' = using, answer' = answer, Still,
           locked' \in [Objects -> Callers \cup {None}], called' = called
    PROVE  LookupInv'
<1> DEFINE H == {<<f.key, c>>}
<1>h. (\A x, d : <<x, d>> \in H <=> x = f.key /\ d = c) /\ setsHeld' = setsHeld \ H
  BY DEF GivesUp
<1> HIDE DEF H
<1>1. /\ CallTypes /\ CallStacks /\ f \in CallFrames /\ FrameShape(f) /\ References /\ SetsLocked
      /\ Searching(frames[c], steady[c], closing[c])
  BY TopKnows
<1>2. /\ Len(frames[c]) > 1 /\ b \in Lower(frames[c]) /\ b \in CallFrames /\ FrameShape(b)
      /\ b.op # "close" /\ b.found = {}
      /\ \/ WithinTwice(f, b)
         \/ b.op = "contains" /\ b.todo[1] = "release" /\ b.found = {}
  <2>1. OuterTo(c, f, b)
    BY OuterFrame
  <2> QED
    BY <2>1 DEF OuterTo
<1>3. HandedOn(f, b, g)
  BY <1>1, <1>2, HandsOver
<1>4. /\ g.op = b.op /\ g.self = b.self /\ g.for = b.for /\ g.op # "close"
      /\ TokensOf(c, g, refs) /\ RightFrame(g)
      /\ \A S, L : KeepsSet(c, b, S, L) => KeepsSet(c, g, S, L)
  <2>1. OuterGets(c, b, g)
    BY <1>3, OuterKnows
  <2> QED
    BY <2>1 DEF OuterGets
<1> DEFINE s == frames[c]
           Q == FramesOf(Tail(Tail(s)))
           t == <<g>> \o Tail(Tail(s))
           N == {g}
<1>5. /\ Goes(s, t, N) /\ FramesOf(t) = N \cup Q /\ Lower(s) = {b} \cup Q
      /\ AskOf(BaseOf(t)) = AskOf(BaseOf(s))
  <2>1. StackShape(s) /\ Len(s) > 1 /\ s[2].op # "close"
    BY <1>1, <1>2 DEF CallStacks
  <2>2. Continues(s[2], g) /\ g.key = s[2].key
    BY <1>3 DEF HandedOn
  <2> HIDE DEF s
  <2>3. /\ Goes(s, <<g>> \o Tail(Tail(s)), {g})
        /\ FramesOf(<<g>> \o Tail(Tail(s))) = {g} \cup FramesOf(Tail(Tail(s)))
        /\ Lower(s) = {s[2]} \cup FramesOf(Tail(Tail(s)))
        /\ AskOf(BaseOf(<<g>> \o Tail(Tail(s)))) = AskOf(BaseOf(s))
    BY <2>1, <2>2, GoesBack
  <2> QED
    BY <2>3 DEF s
<1>6. FramesOf(s) = {f} \cup Lower(s) /\ s # << >> /\ BaseOf(s).op # "close"
  <2>1. f.op # "close"
    BY <1>1, EndsAs
  <2> DEFINE z == BaseOf(s)
  <2>2. z = BaseOf(frames[c])
    OBVIOUS
  <2> HIDE DEF z
  <2>3. z.op # "close"
    BY <1>1, <2>1, <2>2, BaseFacts
  <2>4. FramesOf(s) = {f} \cup Lower(s) /\ s # << >>
    BY <1>1, LowerFrames DEF InCall
  <2> QED
    BY <2>3, <2>4 DEF z
<1>n. \A h : h \in N <=> h = g
  OBVIOUS
<1> HIDE DEF N
<1>7. Changes(c, N) /\ frames'[c] = t
  BY <1>1, <1>5, Changed
<1>8. Searching(t, steady[c], closing[c])
  <2>1. StacksAs(s, t, f, b, g, Q)
    BY <1>5, <1>6, <1>n DEF StacksAs
  <2>2. /\ f.op # "close"
        /\ f.todo[1] = "return" => f.todo \notin Leaving2 /\ f.rest = {} /\ f.ref = None /\ f.loose = {}
        /\ f.todo[1] = "unwind" => f.todo \in Leaving2
    BY <1>1, EndsAs
  <2>3. Searching(s, steady[c], closing[c]) /\ AskOf(BaseOf(t)) = AskOf(BaseOf(s))
    BY <1>1, <1>5
  <2> HIDE DEF s, t, Q
  <2> QED
    BY <1>2, <1>3, <1>6, <2>1, <2>2, <2>3, OuterSearches
<1>9. SetsLocked'
  <2>1. KeepsSet(c, b, setsHeld \ H, listed)
    BY <1>h, <1>1, <1>2, LowerKeepSets
  <2>2. \A h \in N : KeepsSet(c, h, setsHeld', listed')
    BY <1>h, <1>4, <1>n, <2>1
  <2> QED
    BY <1>h, <1>1, <1>7, <2>2, SetsGivenUp
<1>10. OtherTypes
  BY <1>h, <1>1 DEF CallTypes, OtherTypes, Still
<1>11. /\ \A o \in steady'[c] : "app" \in refs[o]
       /\ \A o \in Objects : refs[o] \subseteq refs'[o] /\ (refs[o] = {} => refs'[o] = {})
       /\ \A d \in Callers : d # c => steady'[d] \subseteq steady[d]
       /\ Searching(frames'[c], steady'[c], closing[c]) /\ closing' = closing
  BY <1>1, <1>7, <1>8 DEF References, SteadyIsHeld, Still
<1>12. \A h \in N : h.op # "close" /\ TokensOf(c, h, refs') /\ RightFrame(h)
  BY <1>4, <1>n
<1>13. Top(c).op # "close"
  BY <1>1, EndsAs
<1> QED
  BY <1>7, <1>9, <1>10, <1>11, <1>12, <1>13, LookupKeeps

(* What a lookup returns.                                                  *)
RightAnswer(r) ==
    /\ ~r.threw => \A o \in r.found : IsAbout(r.ask, o)
    /\ ~r.threw => \A o \in r.steady : IsAbout(r.ask, o) =>
          r.found # {} /\ (r.ask.op = "find_datareaders" => o \in r.found)
    /\ r.threw /\ NoLateWriters => Reason(r.ask, r.closing)

LEMMA ExactAnswers ==
    ASSUME CallTypes, References
    PROVE  AnswersAreExact <=> \A c \in Callers : answer[c] # None => RightAnswer(answer[c])
<1>1. ASSUME NEW c \in Callers, answer[c] # None, ~answer[c].threw, answer[c].ask.op # "contains",
             NEW o \in answer[c].found
      PROVE  c \in refs[o] /\ fate[o] # "gone"
  <2>1. answer[c].found \subseteq Objects
    BY <1>1 DEF CallTypes, Answers
  <2>2. c \in refs[o]
    BY <1>1 DEF References, Answered
  <2> QED
    BY <1>1, <2>1, <2>2 DEF References, GoneHasNone
<1>2. FindsWhatIsThere <=> \A c \in Callers : answer[c] # None /\ ~answer[c].threw =>
         /\ \A o \in answer[c].found : IsAbout(answer[c].ask, o)
         /\ \A o \in answer[c].steady : IsAbout(answer[c].ask, o) =>
               answer[c].found # {} /\ (answer[c].ask.op = "find_datareaders" => o \in answer[c].found)
  BY <1>1 DEF FindsWhatIsThere
<1>3. ThrowsForAReason <=> \A c \in Callers : answer[c] # None /\ answer[c].threw =>
         Reason(answer[c].ask, answer[c].closing)
  BY DEF ThrowsForAReason, Reason
<1>4. \A c \in Callers : answer[c] # None => answer[c].threw \in BOOLEAN
  BY DEF CallTypes, Answers
<1> QED
  BY <1>2, <1>3, <1>4 DEF AnswersAreExact, RightAnswer

LEMMA AnotherAnswer ==
    ASSUME CallTypes, References, AnswersAreExact, NEW c \in Callers, NEW r \in Answers \cup {None},
           answer' = [answer EXCEPT ![c] = r], References',
           refs' \in [Objects -> SUBSET (Objects \cup Callers \cup {"app"})],
           r # None => RightAnswer(r)
    PROVE  answer' \in [Callers -> Answers \cup {None}] /\ AnswersAreExact'
<1>1. answer' \in [Callers -> Answers \cup {None}] /\ answer'[c] = r
      /\ \A d \in Callers : d # c => answer'[d] = answer[d]
  BY DEF CallTypes
<1>2. \A d \in Callers : answer'[d] # None => RightAnswer(answer'[d])
  BY <1>1, ExactAnswers
<1>3. ASSUME NEW d \in Callers, answer'[d] # None, ~answer'[d].threw, answer'[d].ask.op # "contains",
             NEW o \in answer'[d].found
      PROVE  d \in refs'[o] /\ fate'[o] # "gone"
  <2>1. answer'[d].found \subseteq Objects
    BY <1>1, <1>3 DEF Answers
  <2>2. d \in refs'[o]
    BY <1>3 DEF References, Answered
  <2> QED
    BY <1>3, <2>1, <2>2 DEF References, GoneHasNone
<1>4. FindsWhatIsThere'
  <2>1. \A d \in Callers : answer'[d] # None /\ ~answer'[d].threw =>
           /\ \A o \in answer'[d].found : IsAbout(answer'[d].ask, o)
           /\ \A o \in answer'[d].steady : IsAbout(answer'[d].ask, o) =>
                 /\ answer'[d].found # {}
                 /\ answer'[d].ask.op = "find_datareaders" => o \in answer'[d].found
    BY <1>2 DEF RightAnswer
  <2> QED
    BY <1>3, <2>1 DEF FindsWhatIsThere
<1>5. NoLateWriters => ThrowsForAReason'
  <2>1. NoLateWriters => \A d \in Callers : answer'[d] # None /\ answer'[d].threw =>
           Reason(answer'[d].ask, answer'[d].closing)
    BY <1>2 DEF RightAnswer
  <2> QED
    BY <2>1 DEF ThrowsForAReason, Reason
<1>6. NoLateWriters' <=> NoLateWriters
  BY DEF NoLateWriters
<1> QED
  BY <1>1, <1>4, <1>5, <1>6 DEF AnswersAreExact

(* The end of a lookup that is not within another one.                     *)
AnswerTo(f, S, C) ==
    [ask |-> AskOf(f), found |-> f.found, threw |-> (f.todo[1] = "unwind"), steady |-> S, closing |-> C]

LEMMA OnlyFrame ==
    ASSUME LookupInv, NEW c \in Callers, InCall(c), NEW f, f = Top(c), Len(frames[c]) = 1
    PROVE  /\ Lower(frames[c]) = {} /\ FramesOf(frames[c]) = {f} /\ BaseOf(frames[c]) = f
           /\ \A h : Moves(c, << >>) => Changes(c, {}) /\ frames'[c] = << >>
<1> DEFINE s == frames[c]
           q == Tail(s)
<1>0. s = frames[c] /\ q = Tail(s)
  OBVIOUS
<1>1. CallTypes /\ CallStacks
  BY DEF LookupInv
<1> HIDE DEF s, q
<1>2. /\ s # << >> /\ StackShape(s) /\ f = s[1]
      /\ FramesOf(s) = {f} \cup FramesOf(q)
      /\ BaseOf(s) = IF q = << >> THEN f ELSE BaseOf(q)
      /\ q = << >> <=> Len(s) = 1
  BY <1>0, <1>1, TopFrame
<1>3. q = << >>
  BY <1>0, <1>2
<1>4. FramesOf(q) = {}
  BY <1>3, NoStack
<1>5. Lower(s) = {}
  BY <1>0, <1>2, <1>4 DEF Lower
<1>6. Goes(s, q, {})
  BY <1>0, <1>2, GoesDown
<1>7. Moves(c, q) => Changes(c, {}) /\ frames'[c] = q
  BY <1>0, <1>1, <1>6, Changed
<1> QED
  BY <1>0, <1>2, <1>3, <1>4, <1>5, <1>7

LEMMA EndsRight ==
    ASSUME LookupInv, NEW c \in Callers, InCall(c), NEW f, f = Top(c), Ends2(f), Len(frames[c]) = 1,
           NEW r, r = AnswerTo(f, steady[c], closing[c])
    PROVE  /\ RightAnswer(r) /\ r \in Answers /\ r.ask = AskOf(f) /\ r.found = f.found
           /\ r.ask.op # "contains" => \A o \in r.found : c \in refs[o]
<1>1. /\ CallTypes /\ f \in CallFrames /\ FrameShape(f) /\ TokensOf(c, f, refs) /\ RightFrame(f)
      /\ Searching(frames[c], steady[c], closing[c])
  BY TopKnows
<1>2. /\ f.op # "close" /\ f.op \in Lookups
      /\ f.todo[1] = "return" => /\ f.todo \notin Leaving2 /\ f.rest = {} /\ f.ref = None /\ f.loose = {}
      /\ f.todo[1] = "unwind" => f.todo \in Leaving2
  BY <1>1, EndsAs
<1>3. FramesOf(frames[c]) = {f} /\ BaseOf(frames[c]) = f /\ frames[c] # << >>
  BY OnlyFrame DEF InCall
<1>4. /\ r.ask = AskOf(f) /\ r.found = f.found /\ (r.threw <=> f.todo[1] = "unwind")
      /\ r.steady = steady[c] /\ r.closing = closing[c] /\ r.threw \in BOOLEAN
      /\ AskOf(f).op = f.op
  BY DEF AnswerTo, AskOf
<1>5. r \in Answers
  <2>1. AskOf(f) \in [op : Lookups, on : Objects \cup {None}, for : Subjects]
    BY <1>1, <1>2, Ops DEF AskOf
  <2>2. f.found \in SUBSET Objects
    BY <1>1, Ops
  <2>3. steady[c] \in SUBSET Objects /\ closing[c] \in SUBSET Objects
    BY <1>1 DEF CallTypes
  <2> QED
    BY <2>1, <2>2, <2>3 DEF AnswerTo, Answers
<1>6. r.ask.op # "contains" => \A o \in r.found : c \in refs[o]
  BY <1>1, <1>2, <1>4 DEF TokensOf, Tokens
<1>7. CASE f.todo[1] = "unwind"
  <2>1. Unwinds(frames[c])
    BY <1>2, <1>3, <1>7 DEF Unwinds
  <2>2. NoLateWriters => Reason(AskOf(f), closing[c])
    BY <1>1, <1>2, <1>3, <2>1 DEF Searching
  <2>3. RightAnswer(r)
    BY <1>4, <1>7, <2>2 DEF RightAnswer
  <2> QED
    BY <1>4, <1>5, <1>6, <2>3
<1>8. CASE f.todo[1] = "return"
  <2>1. ~Unwinds(frames[c])
    BY <1>2, <1>3, <1>8 DEF Unwinds
  <2>2. \A o \in steady[c] : IsAbout(AskOf(f), o) => InView(f.op, f, o)
    BY <1>1, <1>2, <1>3, <2>1 DEF Searching
  <2>3. \A o : InView(f.op, f, o) => f.found # {} /\ (f.op = "find_datareaders" => o \in f.found)
    BY <1>2, <1>8 DEF InView, Tokens
  <2>4. \A o \in f.found : IsAbout(AskOf(f), o)
    BY <1>1, <1>2 DEF RightFrame
  <2>5. ~r.threw
    BY <1>4, <1>8
  <2>6. RightAnswer(r)
    BY <1>4, <2>2, <2>3, <2>4, <2>5 DEF RightAnswer
  <2> QED
    BY <1>4, <1>5, <1>6, <2>6
<1> QED
  BY <1>7, <1>8 DEF Ends2

Replies(c, r) == answer' = [answer EXCEPT ![c] = r]

LEMMA EndsBase ==
    ASSUME LookupInv, NEW c \in Callers, InCall(c), NEW f, f = Top(c), Ends2(f),
           Len(frames[c]) = 1, Moves(c, << >>),
           NEW r, r = AnswerTo(f, steady[c], closing[c]), Replies(c, r), GivesUp(f, c),
           refs' = refs, fate' = fate, listed' = listed, using' = using, Still,
           locked' \in [Objects -> Callers \cup {None}], called' = called
    PROVE  LookupInv'
<1> DEFINE H == {<<f.key, c>>}
<1>h. (\A x, d : <<x, d>> \in H <=> x = f.key /\ d = c) /\ setsHeld' = setsHeld \ H
  BY DEF GivesUp
<1> HIDE DEF H
<1>1. /\ CallTypes /\ CallStacks /\ f \in CallFrames /\ FrameShape(f) /\ References /\ SetsLocked
      /\ Closings /\ Knowledge /\ AnswersAreExact
  BY TopKnows DEF LookupInv
<1>2. f.op # "close"
  BY <1>1, EndsAs
<1> DEFINE N == {}
<1>n. \A h : h \notin N
  OBVIOUS
<1>3. Changes(c, N) /\ frames'[c] = << >>
  BY OnlyFrame
<1> HIDE DEF N
<1>4. \A d \in Callers : d # c => frames'[d] = frames[d]
  BY <1>3 DEF Changes
<1>5. /\ RightAnswer(r) /\ r \in Answers /\ r.ask = AskOf(f) /\ r.found = f.found
      /\ r.ask.op # "contains" => \A o \in r.found : c \in refs[o]
  BY EndsRight
<1>6. answer'[c] = r /\ \A d \in Callers : d # c => answer'[d] = answer[d]
  BY <1>1 DEF CallTypes, Replies
<1>7. References'
  <2>1. Answered'
    <3>1. FramesOf(frames'[c]) = {}
      BY <1>3, NoStack
    <3>2. Answered
      BY <1>1 DEF References
    <3> SUFFICES ASSUME NEW d \in Callers, answer'[d] # None
                 PROVE  /\ \A h \in FramesOf(frames'[d]) : Destructor(h)
                        /\ answer'[d].ask.op # "contains" => \A o \in answer'[d].found : d \in refs'[o]
      BY DEF Answered
    <3>3. CASE d = c
      BY <1>5, <1>6, <3>1, <3>3
    <3>4. CASE d # c
      BY <1>4, <1>6, <3>2, <3>4 DEF Answered
    <3> QED
      BY <3>3, <3>4
  <2>2. \A d \in Callers : \A o \in steady'[d] : o \in Objects /\ "app" \in refs[o]
    BY <1>1 DEF References, SteadyIsHeld, CallTypes, Still
  <2>3. \A o \in Objects : refs[o] \subseteq refs'[o] /\ (refs[o] = {} => refs'[o] = {})
    OBVIOUS
  <2>4. \A o \in Objects : fate'[o] = fate[o] \/ (fate'[o] = "closed" /\ fate[o] \notin {"gone", "late"})
    OBVIOUS
  <2>5. \A h \in N : (Destructor(h) => fate[h.self] = "gone" /\ h.self \in Objects) /\ TokensOf(c, h, refs')
    BY <1>n
  <2>6. GoneHasNone' /\ HoldersAreHeld' /\ DestroyedIsGone' /\ SteadyIsHeld' /\ TokensHeld'
    BY <1>1, <1>3, <2>2, <2>3, <2>4, <2>5, RefsStay
  <2> QED
    BY <2>1, <2>6 DEF References
<1>8. answer' \in [Callers -> Answers \cup {None}] /\ AnswersAreExact'
  <2>1. refs' \in [Objects -> SUBSET (Objects \cup Callers \cup {"app"})]
    BY <1>1 DEF CallTypes
  <2>2. r \in Answers \cup {None}
    BY <1>5
  <2> QED
    BY <1>1, <1>5, <1>7, <2>1, <2>2, AnotherAnswer DEF Replies
<1>9. SetsLocked'
  <2>1. \A h \in N : KeepsSet(c, h, setsHeld', listed')
    BY <1>n
  <2> QED
    BY <1>h, <1>1, <1>3, <2>1, SetsGivenUp
<1>10. OtherTypes
  BY <1>h, <1>1 DEF CallTypes, OtherTypes, Still
<1>11. Closings'
  <2>1. \A o : ~AboutToFinish(f, o)
    BY <1>2 DEF AboutToFinish
  <2>2. /\ listed' \subseteq listed /\ using' \subseteq using
        /\ \A o \in Objects : fate'[o] = fate[o]
        /\ \A o \in Objects : refs'[o] # {} => refs[o] # {}
        /\ \A h \in N : h.op = "close" => h.self \in Objects /\ ClosesInOrder(h, fate', listed', using')
        /\ \A h \in N : h.op = "close" =>
              ClosesFor(frames[c], h.self) \/ \A d \in Callers : InCall(d) => h.self \in closing'[d]
        /\ \A d \in Callers : closing[d] \subseteq closing'[d]
    BY <1>n DEF Still
  <2>3. \A o \in Objects :
              (Sort[o] \in {"reader", "writer"} /\ o \in using \ using') \/ (InCall(c) /\ AboutToFinish(Top(c), o)) =>
                 fate'[o] = "closed" \/ refs'[o] = {} \/ \E h \in FramesOf(frames'[c]) : AboutToFinish(h, o)
    BY <2>1
  <2> QED
    BY <1>1, <1>3, <2>2, <2>3, ClosingsKept
<1>12. Knowledge'
  <2>1. Searching(frames'[c], steady'[c], closing'[c])
    BY <1>3 DEF Searching
  <2>2. \A h \in N : RightFrame(h)
    BY <1>n
  <2>3. \A d \in Callers : d # c => steady'[d] \subseteq steady[d] /\ closing[d] \subseteq closing'[d]
    BY DEF Still
  <2> QED
    BY <1>1, <1>3, <2>1, <2>2, <2>3, KnowledgeKept
<1> QED
  BY <1>3, <1>7, <1>8, <1>9, <1>10, <1>11, <1>12, TogetherAgain

LEMMA EndingKeeps ==
    ASSUME LookupInv, NEW c \in Callers, InCall(c), NEW f, f = Top(c), Ends2(f),
           NEW threw, threw = (f.todo[1] = "unwind"), Ending(c, threw), called' = called
    PROVE  LookupInv'
<1>1. CallTypes /\ CallStacks /\ f \in CallFrames /\ FrameShape(f)
  BY TopKnows
<1>2. /\ GivesUp(f, c)
      /\ refs' = refs /\ fate' = fate /\ listed' = listed /\ using' = using /\ Still
  BY ZenonT(30) DEF Ending, Undisturbed, Still, GivesUp
<1>3. locked' \in [Objects -> Callers \cup {None}]
  BY <1>1 DEF CallTypes, Ending
<1>6. CASE Len(frames[c]) = 1
  <2> DEFINE r == AnswerTo(f, steady[c], closing[c])
  <2>1. frames' = [frames EXCEPT ![c] = << >>] /\
        answer' = [answer EXCEPT ![c] =
                  [ask |-> [op |-> f.op, on |-> f.self, for |-> f.for],
                   found |-> f.found, threw |-> threw,
                   steady |-> steady[c], closing |-> closing[c]]]
    BY <1>6, ZenonT(30) DEF Ending
  <2>2. Moves(c, << >>)
    BY <2>1 DEF Moves
  <2>3. r = [ask |-> [op |-> f.op, on |-> f.self, for |-> f.for],
                   found |-> f.found, threw |-> threw,
                   steady |-> steady[c], closing |-> closing[c]]
    BY Zenon DEF AnswerTo, AskOf
  <2>4. Replies(c, r)
    BY <2>1, <2>3, Zenon DEF Replies
  <2>5. r = AnswerTo(f, steady[c], closing[c])
    OBVIOUS
  <2> HIDE DEF r
  <2> QED
    BY <1>2, <1>3, <1>6, <2>2, <2>4, <2>5, EndsBase
<1>7. CASE Len(frames[c]) # 1
  <2> DEFINE b == frames[c][2]
             g == IF threw THEN UnwoundFrame(b) ELSE HandedFrame(b, f.found)
             s == frames[c]
  <2>1. frames' = [frames EXCEPT ![c] = <<g>> \o SubSeq(@, 3, Len(@))] /\ answer' = answer
    BY <1>7, ZenonT(30) DEF Ending, UnwoundFrame, HandedFrame
  <2>2. HandsOut(f, b, g)
    BY DEF HandsOut, Ends2
  <2>3. s \in Seq(CallFrames) /\ s # << >> /\ Len(s) > 1
    <3>1. s \in Seq(CallFrames) /\ s # << >> /\ Len(s) \in Nat \ {0}
      BY <1>1, TopFrame
    <3> DEFINE n == Len(s)
    <3>2. n # 1 /\ n \in Nat \ {0}
      BY <1>7, <3>1
    <3> HIDE DEF n
    <3>3. n > 1
      BY <3>2
    <3> QED
      BY <3>1, <3>3 DEF n
  <2>4. SubSeq(s, 3, Len(s)) = Tail(Tail(s))
    BY <1>1, <2>3, StackForms
  <2> HIDE DEF g
  <2>5. frames' = [frames EXCEPT ![c] = <<g>> \o SubSeq(s, 3, Len(s))]
    BY <2>1, Zenon
  <2>6. Moves(c, <<g>> \o Tail(Tail(frames[c])))
    BY <2>4, <2>5, Zenon DEF Moves
  <2>7. b = frames[c][2] /\ answer' = answer
    BY <2>1
  <2> HIDE DEF b
  <2> QED
    BY <1>2, <1>3, <1>7, <2>2, <2>6, <2>7, EndsInner
<1> QED
  BY <1>6, <1>7

LEMMA ReturnKeeps ==
    ASSUME LookupInv, NEW c \in Callers, Return(c), called' = called
    PROVE  LookupInv'
<1> DEFINE f == Top(c)
           threw == f.todo[1] = "unwind"
<1>1. InCall(c) /\ f.todo[1] = "return" /\ Ending(c, FALSE)
  BY DEF Return, On
<1>2. threw = FALSE /\ Ends2(f)
  BY <1>1 DEF Ends2
<1>3. Ending(c, threw)
  BY <1>1, <1>2
<1>4. f = Top(c) /\ threw = (f.todo[1] = "unwind")
  OBVIOUS
<1> HIDE DEF f, threw
<1> QED
  BY <1>1, <1>2, <1>3, <1>4, EndingKeeps

LEMMA UnwindKeeps ==
    ASSUME LookupInv, NEW c \in Callers, Unwind(c), called' = called
    PROVE  LookupInv'
<1> DEFINE f == Top(c)
           threw == f.todo[1] = "unwind"
<1>1. InCall(c) /\ f.todo[1] = "unwind" /\ Ending(c, TRUE)
  BY DEF Unwind, On
<1>2. threw = TRUE /\ Ends2(f)
  BY <1>1 DEF Ends2
<1>3. Ending(c, threw)
  BY <1>1, <1>2
<1>4. f = Top(c) /\ threw = (f.todo[1] = "unwind")
  OBVIOUS
<1> HIDE DEF f, threw
<1> QED
  BY <1>1, <1>2, <1>3, <1>4, EndingKeeps

(* Calls of the application: nothing is on the caller's stack.             *)
LEMMA CallsFacts ==
    ASSUME LookupInv, NEW c \in Callers, ~InCall(c)
    PROVE  /\ frames[c] = << >> /\ FramesOf(frames[c]) = {} /\ Lower(frames[c]) = {}
           /\ Goes(frames[c], << >>, {})
           /\ Calls(c) => called' \in [Callers -> Nat] /\ \A d \in Callers : called'[d] \in 0 .. MaxCalls[d]
<1>1. frames[c] = << >>
  BY DEF InCall
<1>2. FramesOf(frames[c]) = {} /\ Lower(frames[c]) = {} /\ Goes(frames[c], << >>, {})
  BY <1>1, GoesStill
<1>3. ASSUME Calls(c)
      PROVE  called' \in [Callers -> Nat] /\ \A d \in Callers : called'[d] \in 0 .. MaxCalls[d]
  <2>1. /\ called \in [Callers -> Nat] /\ \A d \in Callers : called[d] \in 0 .. MaxCalls[d]
        /\ MaxCalls \in [Callers -> Nat]
    BY LookupAssumption DEF LookupInv, CallTypes
  <2>2. called[c] < MaxCalls[c] /\ called' = [called EXCEPT ![c] = called[c] + 1]
    BY <1>3 DEF Calls
  <2> QED
    BY <2>1, <2>2
<1> QED
  BY <1>1, <1>2, <1>3

LEMMA FirstFrame ==
    ASSUME CallTypes, CallStacks, NEW c \in Callers, frames[c] = << >>,
           NEW g \in CallFrames, FrameShape(g), g.key = None, Moves(c, <<g>>)
    PROVE  /\ frames' \in [Callers -> Seq(CallFrames)] /\ CallStacks'
           /\ frames'[c] = <<g>> /\ \A d \in Callers : d # c => frames'[d] = frames[d]
           /\ FramesOf(frames'[c]) = {g} /\ BaseOf(frames'[c]) = g /\ OwnKeys(frames'[c])
           /\ g.op = "close" => Changes(c, {g})
<1> DEFINE e == << >>
           t == <<g>> \o e
           s == frames[c]
<1>1. StackShape(e) /\ FramesOf(e) = {} /\ Len(e) = 0
  BY NoStack
<1>2. Fits(g, e)
  BY <1>1 DEF Fits
<1>3. /\ StackShape(t) /\ t # << >> /\ FramesOf(t) = {g} \cup FramesOf(e) /\ BaseOf(t) = g
      /\ Len(t) = Len(e) + 1
  BY <1>1, <1>2, PushedStack
<1>4. t = <<g>>
  OBVIOUS
<1>5. /\ frames' \in [Callers -> Seq(CallFrames)] /\ CallStacks'
      /\ frames'[c] = <<g>> /\ \A d \in Callers : d # c => frames'[d] = frames[d]
  BY <1>3, <1>4, Moved
<1>6. OwnKeys(<<g>>)
  BY DEF OwnKeys
<1>7. g.op = "close" => Changes(c, {g})
  <2> SUFFICES ASSUME g.op = "close" PROVE Changes(c, {g})
    OBVIOUS
  <2>0. s = frames[c] /\ s = e
    OBVIOUS
  <2>1. Goes(s, e, {})
    BY GoesStill
  <2>2. Goes(s, t, {} \cup {g})
    BY <1>2, <2>1, GoesUp
  <2>3. Goes(frames[c], <<g>>, {g})
    BY <1>4, <2>2
  <2> QED
    BY <2>3, Changed
<1> QED
  BY <1>1, <1>3, <1>4, <1>5, <1>6, <1>7

AskFrame(a) == Call(a.op, a.on, a.for, LookupBody(a.op))

LEMMA AskStarts ==
    ASSUME NEW c \in Callers, NEW a \in Asks[c]
    PROVE  LET g == AskFrame(a)
           IN  /\ g \in CallFrames /\ FrameShape(g) /\ g.op # "close" /\ ~Destructor(g)
               /\ g.rest = {} /\ g.ref = None /\ g.key = None /\ g.found = {} /\ g.loose = {}
               /\ g.todo \notin Leaving2
<1> DEFINE op == a.op
           self == a.on
           for == a.for
           q == LookupBody(op)
           g == Call(op, self, for, q)
<1>1. /\ op \in Lookups
      /\ IF op = "lookup_participant" THEN self = None ELSE self \in Objects
  BY LookupAssumption
<1>2. for \in Subjects
  BY DEF Subjects
<1>3. q = LookupBody(op) /\ g = Call(op, self, for, q) /\ g = AskFrame(a)
  BY DEF AskFrame
<1>4. /\ op = "find_topic_description" => self \in Objects
      /\ op = "contains" => self \in Objects /\ q = LookupBody("contains")
      /\ op \in DOMAIN Seeks \/ op = "find_topic_description" \/ op = "contains"
  BY <1>1, <1>3 DEF Lookups
<1> HIDE DEF op, self, for, q, g
<1>5. StartsWith(op, self, q)
  BY <1>1, <1>3, <1>4 DEF StartsWith
<1>6. NewCall(g, op, self, for, q)
  BY <1>2, <1>3, <1>5, Starts
<1> QED
  BY <1>3, <1>6 DEF NewCall

LEMMA AskKeeps ==
    ASSUME LookupInv, NEW c \in Callers, NEW a \in Asks[c], Ask(c, a)
    PROVE  LookupInv'
<1> DEFINE g == AskFrame(a)
<1>1. /\ g \in CallFrames /\ FrameShape(g) /\ g.op # "close" /\ ~Destructor(g)
      /\ g.rest = {} /\ g.ref = None /\ g.key = None /\ g.found = {} /\ g.loose = {}
      /\ g.todo \notin Leaving2
  BY AskStarts
<1>2. /\ ~InCall(c) /\ Calls(c) /\ answer[c] = None
      /\ frames' = [frames EXCEPT ![c] = <<g>>]
      /\ steady' = [steady EXCEPT ![c] = {}]
      /\ closing' = [closing EXCEPT ![c] = BeingClosed \cup {o \in Objects : fate[o] = "closed"}]
      /\ refs' = refs /\ fate' = fate /\ locked' = locked /\ setsHeld' = setsHeld
      /\ listed' = listed /\ using' = using /\ answer' = answer
  BY DEF Ask, Calls, AskFrame
<1>3. Moves(c, <<g>>)
  BY <1>2 DEF Moves
<1>4. CallTypes /\ CallStacks /\ References /\ Closings /\ SetsLocked /\ Knowledge /\ AnswersAreExact
  BY DEF LookupInv
<1>5. /\ steady'[c] = {} /\ \A d \in Callers : d # c => steady'[d] = steady[d]
      /\ closing'[c] = BeingClosed \cup {o \in Objects : fate[o] = "closed"}
      /\ \A d \in Callers : d # c => closing'[d] = closing[d]
      /\ steady' \in [Callers -> SUBSET Objects] /\ closing' \in [Callers -> SUBSET Objects]
  <2>1. BeingClosed \subseteq Objects
    BY DEF BeingClosed
  <2> QED
    BY <1>2, <1>4, <2>1 DEF CallTypes
<1>6. frames[c] = << >> /\ FramesOf(frames[c]) = {}
      /\ called' \in [Callers -> Nat] /\ \A d \in Callers : called'[d] \in 0 .. MaxCalls[d]
  BY <1>2, CallsFacts
<1> HIDE DEF g
<1>7. /\ frames' \in [Callers -> Seq(CallFrames)] /\ CallStacks'
      /\ frames'[c] = <<g>> /\ \A d \in Callers : d # c => frames'[d] = frames[d]
      /\ FramesOf(frames'[c]) = {g} /\ BaseOf(frames'[c]) = g /\ OwnKeys(frames'[c])
  BY <1>1, <1>3, <1>4, <1>6, FirstFrame
<1>8. \A d \in Callers : \A h \in FramesOf(frames'[d]) :
         (d = c /\ h = g) \/ (d # c /\ h \in FramesOf(frames[d]))
  BY <1>7
<1>9. \A d \in Callers : \A h \in FramesOf(frames[d]) : d # c /\ h \in FramesOf(frames'[d])
  BY <1>6, <1>7
<1>10. CallTypes'
  BY <1>2, <1>4, <1>5, <1>6, <1>7 DEF CallTypes
<1>11. References'
  <2>1. GoneHasNone' /\ HoldersAreHeld'
    BY <1>2, <1>4 DEF References, GoneHasNone, HoldersAreHeld
  <2>2. DestroyedIsGone'
    BY <1>1, <1>2, <1>4, <1>8 DEF References, DestroyedIsGone
  <2>3. SteadyIsHeld'
    BY <1>2, <1>4, <1>5 DEF References, SteadyIsHeld
  <2>4. Answered'
    BY <1>2, <1>4, <1>8 DEF References, Answered
  <2>5. TokensHeld'
    <3>1. TokensOf(c, g, refs)
      BY <1>1 DEF TokensOf, Tokens
    <3> QED
      BY <1>2, <1>4, <1>8, <3>1 DEF References, TokensHeld
  <2> QED
    BY <2>1, <2>2, <2>3, <2>4, <2>5 DEF References
<1>12. Closings'
  <2>1. FramesInOrder'
    <3>1. ClosesInOrder(g, fate, listed, using)
      BY <1>1 DEF ClosesInOrder
    <3> QED
      BY <1>2, <1>4, <1>8, <3>1 DEF Closings, FramesInOrder
  <2>2. ClosedIsUnlisted' /\ ClosedIsUnused'
    BY <1>2, <1>4 DEF Closings, ClosedIsUnlisted, ClosedIsUnused
  <2>3. UncountedIsClosed'
    BY <1>2, <1>4, <1>9 DEF Closings, UncountedIsClosed
  <2>4. ClosingIsKnown'
    <3>1. \A o \in Objects : \A d \in Callers : \A f \in FramesOf(frames'[d]) :
             f.op = "close" /\ f.self = o => \E h \in FramesOf(frames[d]) : h.op = "close" /\ h.self = o
      BY <1>1, <1>8
    <3>2. \A o \in Objects : \A d \in Callers : \A f \in FramesOf(frames[d]) :
             f.op = "close" /\ f.self = o => o \in BeingClosed
      BY DEF FramesOf, BeingClosed
    <3> SUFFICES ASSUME NEW d \in Callers, InCall(d)', BaseOf(frames'[d]).op # "close",
                        NEW o \in Objects, BeingClosedNow(o)'
                 PROVE  o \in closing'[d]
      BY DEF ClosingIsKnown, BeingClosedNow
    <3>3. BeingClosedNow(o)
      BY <1>2, <3>1 DEF BeingClosedNow
    <3>4. CASE d = c
      BY <1>5, <3>2, <3>3, <3>4 DEF BeingClosedNow
    <3>5. CASE d # c
      <4>1. frames'[d] = frames[d] /\ closing'[d] = closing[d]
        BY <1>5, <1>7, <3>5
      <4>2. InCall(d) /\ BaseOf(frames[d]).op # "close"
        BY <4>1 DEF InCall
      <4> QED
        BY <1>4, <3>3, <4>1, <4>2 DEF Closings, ClosingIsKnown, BeingClosedNow
    <3> QED
      BY <3>4, <3>5
  <2> QED
    BY <2>1, <2>2, <2>3, <2>4 DEF Closings
<1>13. SetsLocked'
  <2>1. OneOwner'
    BY <1>2, <1>4 DEF SetsLocked, OneOwner
  <2>2. KeepsSet(c, g, setsHeld, listed)
    BY <1>1 DEF KeepsSet
  <2>3. SetsKept'
    BY <1>2, <1>4, <1>7, <1>8, <2>2 DEF SetsLocked, SetsKept
  <2> QED
    BY <2>1, <2>3 DEF SetsLocked
<1>14. Knowledge'
  <2>1. RightFrame(g)
    BY <1>1 DEF RightFrame
  <2>2. OnlyRight'
    BY <1>4, <1>8, <2>1 DEF Knowledge, OnlyRight
  <2>3. Searching(frames'[c], steady'[c], closing'[c])
    <3>1. ~Unwinds(frames'[c])
      BY <1>1, <1>7 DEF Unwinds
    <3> QED
      BY <1>5, <3>1 DEF Searching
  <2>4. NothingMissed'
    BY <1>4, <1>5, <1>7, <2>3 DEF Knowledge, NothingMissed
  <2> QED
    BY <2>2, <2>4 DEF Knowledge
<1>15. AnswersAreExact'
  BY <1>2, <1>4, <1>11, AnswersKept
<1> QED
  BY <1>7, <1>10, <1>11, <1>12, <1>13, <1>14, <1>15 DEF LookupInv

LEMMA AskCloseKeeps ==
    ASSUME LookupInv, NEW c \in Callers, NEW o \in Objects, AskClose(c, o)
    PROVE  LookupInv'
<1> DEFINE g == CloseCall(o)
<1>0. g = CloseCall(o)
  OBVIOUS
<1>1. /\ ~InCall(c) /\ Calls(c) /\ answer[c] = None /\ "app" \in refs[o]
      /\ frames' = [frames EXCEPT ![c] = <<g>>] /\ Disturb(o)
      /\ refs' = refs /\ fate' = fate /\ locked' = locked /\ setsHeld' = setsHeld
      /\ listed' = listed /\ using' = using /\ answer' = answer
  BY DEF AskClose, Calls
<1>2. Moves(c, <<g>>)
  BY <1>1 DEF Moves
<1>3. CallTypes /\ CallStacks /\ References /\ Closings /\ SetsLocked /\ Knowledge /\ AnswersAreExact
  BY DEF LookupInv
<1> HIDE DEF g
<1>4. /\ g \in CallFrames /\ FrameShape(g) /\ g.op = "close" /\ g.self = o /\ g.key = None
      /\ Sort[o] # "discovered" => ~FinishesPast(g.todo, "unlist")
      /\ Sort[o] = "topic" => ~FinishesPast(g.todo, "dependents")
      /\ Plain(g)
  <2>1. TRUE \in BOOLEAN
    OBVIOUS
  <2> QED
    BY <1>0, <2>1, CloseStarts
<1>5. frames[c] = << >>
      /\ called' \in [Callers -> Nat] /\ \A d \in Callers : called'[d] \in 0 .. MaxCalls[d]
  BY <1>1, CallsFacts
<1> DEFINE N == {g}
<1>n. \A h \in N : h = g
  OBVIOUS
<1>6. Changes(c, N)
  BY <1>2, <1>3, <1>4, <1>5, FirstFrame
<1> HIDE DEF N
<1>7. /\ \A d \in Callers : steady'[d] \subseteq steady[d] /\ closing[d] \subseteq closing'[d]
      /\ \A d \in Callers : InCall(d) => o \in closing'[d]
      /\ steady' \in [Callers -> SUBSET Objects] /\ closing' \in [Callers -> SUBSET Objects]
  BY <1>1, <1>3 DEF Disturb, CallTypes
<1>8. OtherTypes
  BY <1>1, <1>3, <1>5, <1>7 DEF CallTypes, OtherTypes
<1>9. ~Destructor(g)
  BY <1>4 DEF Plain
<1>10. References'
  <2>1. \A d \in Callers : \A x \in steady'[d] : x \in Objects /\ "app" \in refs[x]
    BY <1>3, <1>7 DEF References, SteadyIsHeld
  <2>2. \A x \in Objects : refs[x] \subseteq refs'[x] /\ (refs[x] = {} => refs'[x] = {})
    BY <1>1
  <2>3. \A x \in Objects : fate'[x] = fate[x] \/ (fate'[x] = "closed" /\ fate[x] \notin {"gone", "late"})
    BY <1>1
  <2>4. \A h \in N : (Destructor(h) => fate[h.self] = "gone" /\ h.self \in Objects) /\ TokensOf(c, h, refs')
    BY <1>4, <1>9, <1>n, CloseRight
  <2>5. answer' = answer /\ (answer[c] # None => \A h \in N : Destructor(h))
    BY <1>1
  <2> QED
    BY <1>3, <1>6, <2>1, <2>2, <2>3, <2>4, <2>5, RefsKept
<1>11. Closings'
  <2>1. fate[o] # "late"
    BY <1>1, <1>3 DEF References, GoneHasNone
  <2>2. ClosesInOrder(g, fate, listed, using)
    BY <1>4, <2>1 DEF ClosesInOrder
  <2>3. \A h \in N : h.op = "close" => h.self \in Objects /\ ClosesInOrder(h, fate', listed', using')
    BY <1>1, <1>4, <1>n, <2>2
  <2>4. \A h \in N : h.op = "close" =>
              ClosesFor(frames[c], h.self) \/ \A d \in Callers : InCall(d) => h.self \in closing'[d]
    BY <1>4, <1>7, <1>n
  <2>5. /\ listed' \subseteq listed /\ using' \subseteq using
        /\ \A x \in Objects : fate'[x] = fate[x]
        /\ \A x \in Objects : refs'[x] # {} => refs[x] # {}
        /\ \A d \in Callers : closing[d] \subseteq closing'[d]
    BY <1>1, <1>7
  <2>6. \A x \in Objects :
              (Sort[x] \in {"reader", "writer"} /\ x \in using \ using') \/ (InCall(c) /\ AboutToFinish(Top(c), x)) =>
                 fate'[x] = "closed" \/ refs'[x] = {} \/ \E h \in FramesOf(frames'[c]) : AboutToFinish(h, x)
    BY <1>1
  <2> QED
    BY <1>3, <1>6, <2>3, <2>4, <2>5, <2>6, ClosingsKept
<1>12. answer' \in [Callers -> Answers \cup {None}] /\ AnswersAreExact'
  <2>1. AnswersAreExact'
    BY <1>1, <1>3, <1>10, AnswersKept
  <2> QED
    BY <1>1, <1>3, <2>1 DEF CallTypes
<1>13. \A h \in N : h.op = "close"
  BY <1>4, <1>n
<1> QED
  BY <1>1, <1>6, <1>7, <1>8, <1>10, <1>11, <1>12, <1>13, CloseMoves

LEMMA AskDropKeeps ==
    ASSUME LookupInv, NEW c \in Callers, NEW o \in Objects, AskDrop(c, o)
    PROVE  LookupInv'
<1>1. /\ ~InCall(c) /\ Calls(c) /\ "app" \in refs[o] /\ Let(c, "app", o, << >>)
      /\ locked' = locked /\ setsHeld' = setsHeld /\ listed' = listed /\ using' = using
      /\ answer' = answer
  BY DEF AskDrop, Calls
<1>2. CallTypes /\ CallStacks /\ References /\ AnswersAreExact
  BY DEF LookupInv
<1> DEFINE holder == "app"
           q == << >>
           N == {}
<1>3. /\ frames[c] = << >> /\ Lower(frames[c]) = {} /\ Goes(frames[c], q, N)
      /\ called' \in [Callers -> Nat] /\ \A d \in Callers : called'[d] \in 0 .. MaxCalls[d]
  BY <1>1, CallsFacts
<1>4. /\ holder \in {"app", c} \cup Objects /\ holder # c /\ holder \notin Objects
      /\ \A h : h \notin N
      /\ Let(c, holder, o, q)
  BY <1>1, LookupAssumption
<1> HIDE DEF holder, q, N
<1>5. LetDone(o, holder) /\ \E M : LetFrames(c, o, holder, q, N, M)
  BY <1>2, <1>3, <1>4, LetEffect
<1>6. PICK M : LetFrames(c, o, holder, q, N, M)
  BY <1>5
<1>7. Answered'
  BY <1>1, <1>2, <1>4, <1>5, <1>6, LetAnswers
<1>8. answer' \in [Callers -> Answers \cup {None}] /\ (References' => AnswersAreExact')
  BY <1>1, <1>2, AnswersKept DEF CallTypes
<1>9. /\ locked' \in [Objects -> Callers \cup {None}] /\ using' \subseteq using
      /\ \A x \in Objects : Holder[x] = o /\ holder = x => refs[x] = {}
      /\ \A h \in N : /\ h.op = "close" /\ h.self \in Objects
                      /\ ClosesInOrder(h, fate', listed', using')
                      /\ ClosesFor(frames[c], h.self)
                      /\ Destructor(h) => fate'[h.self] = "gone"
      /\ holder = c => \A h \in Lower(frames[c]) : h.op = "close"
      /\ InCall(c) => Top(c).op = "close" /\ Lower(frames[c]) \subseteq FramesOf(q)
  BY <1>1, <1>2, <1>4 DEF CallTypes
<1>10. \A x \in Objects :
          (Sort[x] \in {"reader", "writer"} /\ x \in using \ using') \/ (InCall(c) /\ AboutToFinish(Top(c), x)) =>
             refs'[x] = {} \/ \E h \in FramesOf(q) : AboutToFinish(h, x)
  BY <1>1
<1> QED
  BY <1>1, <1>3, <1>4, <1>5, <1>6, <1>7, <1>8, <1>9, <1>10, LetCloses

(* An entity is created: no stack changes.                                 *)
LEMMA EnterKeeps ==
    ASSUME LookupInv, NEW c \in Callers, NEW o \in Objects, Enter(c, o)
    PROVE  LookupInv'
<1>1. /\ ~InCall(c) /\ Calls(c) /\ o \in Late /\ fate[o] = "late"
      /\ \A x \in Refers(o) : fate[x] = "open" /\ "app" \in refs[x]
      /\ fate' = [fate EXCEPT ![o] = "open"]
      /\ listed' = listed \cup {o}
      /\ using' = IF About[o] = None THEN using ELSE using \cup {o}
      /\ refs' = [x \in Objects |-> IF x = o THEN {"app"}
                                    ELSE IF x \in Refers(o) THEN refs[x] \cup {o} ELSE refs[x]]
      /\ steady' = steady /\ closing' = closing
      /\ frames' = frames /\ locked' = locked /\ setsHeld' = setsHeld /\ answer' = answer
  BY DEF Enter, Undisturbed, Calls
<1>2. CallTypes /\ CallStacks /\ References /\ Closings /\ SetsLocked /\ Knowledge /\ AnswersAreExact
  BY DEF LookupInv
<1>3. called' \in [Callers -> Nat] /\ \A d \in Callers : called'[d] \in 0 .. MaxCalls[d]
  BY <1>1, CallsFacts
<1>4. /\ Refers(o) \subseteq Objects /\ o \notin Refers(o) /\ refs[o] = {}
      /\ Holder[o] # None => Holder[o] \in Refers(o)
      /\ Sort[o] \in {"reader", "writer"} => About[o] # None
  BY <1>1, <1>2, LookupAssumption DEF Refers, References, GoneHasNone
<1>5. /\ refs' \in [Objects -> SUBSET (Objects \cup Callers \cup {"app"})]
      /\ refs'[o] = {"app"}
      /\ \A x \in Objects : refs[x] \subseteq refs'[x] /\ (x # o /\ refs[x] = {} => refs'[x] = {})
      /\ \A x \in Refers(o) : o \in refs'[x]
  <2>1. refs \in [Objects -> SUBSET (Objects \cup Callers \cup {"app"})]
    BY <1>2 DEF CallTypes
  <2> QED
    BY <1>1, <1>4, <2>1
<1>6. /\ fate' \in [Objects -> {"late", "open", "closed", "gone"}] /\ fate'[o] = "open"
      /\ \A x \in Objects : x # o => fate'[x] = fate[x]
      /\ listed' \subseteq Objects /\ using' \subseteq Objects
      /\ listed \subseteq listed' /\ using \subseteq using'
      /\ \A x \in listed' : x = o \/ x \in listed
      /\ \A x \in using' : x = o \/ x \in using
  BY <1>1, <1>2 DEF CallTypes
<1>7. CallTypes' /\ CallStacks'
  BY <1>1, <1>2, <1>3, <1>5, <1>6 DEF CallTypes, CallStacks
<1>8. References'
  <2>1. GoneHasNone'
    BY <1>2, <1>5, <1>6 DEF References, GoneHasNone
  <2>2. HoldersAreHeld'
    <3> SUFFICES ASSUME NEW x \in Objects, refs'[x] # {}, Holder[x] # None PROVE x \in refs'[Holder[x]]
      BY DEF HoldersAreHeld
    <3>1. CASE x = o
      BY <1>4, <1>5, <3>1
    <3>2. CASE x # o
      <4>1. Holder[x] \in Objects
        BY LookupAssumption
      <4>2. x \in refs[Holder[x]]
        BY <1>2, <1>5, <3>2 DEF References, HoldersAreHeld
      <4> QED
        BY <1>5, <4>1, <4>2
    <3> QED
      BY <3>1, <3>2
  <2>3. DestroyedIsGone'
    <3> SUFFICES ASSUME NEW d \in Callers, NEW f \in FramesOf(frames[d]), Destructor(f)
                 PROVE  fate'[f.self] = "gone"
      BY <1>1 DEF DestroyedIsGone
    <3>1. fate[f.self] = "gone"
      BY <1>2 DEF References, DestroyedIsGone
    <3> QED
      BY <1>1, <1>2, <3>1 DEF CallTypes
  <2>4. SteadyIsHeld'
    BY <1>1, <1>2, <1>5 DEF References, SteadyIsHeld, CallTypes
  <2>5. Answered'
    <3>1. \A d \in Callers : answer[d] # None => answer[d].found \subseteq Objects
      BY <1>2 DEF CallTypes, Answers
    <3> QED
      BY <1>1, <1>2, <1>5, <3>1 DEF References, Answered
  <2>6. TokensHeld'
    <3> SUFFICES ASSUME NEW d \in Callers, NEW f \in FramesOf(frames[d])
                 PROVE  TokensOf(d, f, refs')
      BY <1>1 DEF TokensHeld
    <3>1. TokensOf(d, f, refs)
      BY <1>2 DEF References, TokensHeld
    <3>2. \A x \in Tokens(f) : d \in refs[x] => d \in refs'[x]
      BY <1>2, <1>5, FrameTokens
    <3> QED
      BY <3>1, <3>2, MoreTokens
  <2> QED
    BY <2>1, <2>2, <2>3, <2>4, <2>5, <2>6 DEF References
<1>9. \A x : Unused(x, using) => Unused(x, using')
  BY <1>1, <1>6 DEF Unused, NoLateWriters
<1>10. Closings'
  <2>1. FramesInOrder'
    <3> SUFFICES ASSUME NEW d \in Callers, NEW f \in FramesOf(frames[d]), f.op = "close"
                 PROVE  ClosesInOrder(f, fate', listed', using')
      BY <1>1 DEF FramesInOrder, ClosesInOrder
    <3>1. ClosesInOrder(f, fate, listed, using)
      BY <1>2 DEF Closings, FramesInOrder
    <3>2. f.self \in Objects
      BY <1>2, FrameTokens DEF FrameShape, CloseShape
    <3>3. f.self # o
      BY <1>1, <3>1 DEF ClosesInOrder
    <3> QED
      BY <1>6, <1>9, <3>1, <3>2, <3>3 DEF ClosesInOrder
  <2>2. ClosedIsUnlisted'
    BY <1>2, <1>6 DEF Closings, ClosedIsUnlisted
  <2>3. ClosedIsUnused'
    BY <1>2, <1>6, <1>9 DEF Closings, ClosedIsUnused
  <2>4. UncountedIsClosed'
    <3> SUFFICES ASSUME NEW x \in Objects, Sort[x] \in {"reader", "writer"}, refs'[x] # {}, x \notin using'
                 PROVE  \/ fate'[x] = "closed"
                        \/ \E d \in Callers : \E f \in FramesOf(frames'[d]) : AboutToFinish(f, x)
      BY DEF UncountedIsClosed
    <3>1. x # o
      BY <1>1, <1>4
    <3>2. refs[x] # {} /\ x \notin using
      BY <1>5, <1>6, <3>1
    <3> QED
      BY <1>1, <1>2, <1>6, <3>1, <3>2 DEF Closings, UncountedIsClosed
  <2>5. ClosingIsKnown'
    BY <1>1, <1>2, <1>6 DEF Closings, ClosingIsKnown, InCall
  <2> QED
    BY <2>1, <2>2, <2>3, <2>4, <2>5 DEF Closings
<1>11. SetsLocked'
  <2>1. OneOwner'
    BY <1>1, <1>2 DEF SetsLocked, OneOwner
  <2>2. \A d, f : KeepsSet(d, f, setsHeld, listed) => KeepsSet(d, f, setsHeld', listed')
    BY <1>1, <1>6 DEF KeepsSet
  <2>3. SetsKept'
    BY <1>1, <1>2, <2>2 DEF SetsLocked, SetsKept
  <2> QED
    BY <2>1, <2>3 DEF SetsLocked
<1>12. Knowledge'
  BY <1>1, <1>2 DEF Knowledge, OnlyRight, NothingMissed
<1>13. AnswersAreExact'
  BY <1>1, <1>2, <1>8, AnswersKept
<1> QED
  BY <1>7, <1>8, <1>10, <1>11, <1>12, <1>13 DEF LookupInv

(* Nothing changes but what was returned.                                  *)
Unmoved ==
    /\ frames' = frames /\ refs' = refs /\ fate' = fate /\ locked' = locked
    /\ setsHeld' = setsHeld /\ listed' = listed /\ using' = using /\ steady' = steady
    /\ closing' = closing /\ called' = called

LEMMA UnmovedKeeps ==
    ASSUME LookupInv, Unmoved
    PROVE  /\ CallStacks' /\ GoneHasNone' /\ HoldersAreHeld' /\ DestroyedIsGone' /\ SteadyIsHeld'
           /\ TokensHeld' /\ Closings' /\ SetsLocked' /\ Knowledge'
<1>1. CallStacks /\ References /\ Closings /\ SetsLocked /\ Knowledge
  BY DEF LookupInv
<1>2. CallStacks'
  BY <1>1 DEF Unmoved, CallStacks
<1>3. GoneHasNone' /\ HoldersAreHeld' /\ DestroyedIsGone' /\ SteadyIsHeld'
  BY <1>1 DEF Unmoved, References, GoneHasNone, HoldersAreHeld, DestroyedIsGone, SteadyIsHeld
<1>4. TokensHeld'
  BY <1>1 DEF Unmoved, References, TokensHeld
<1>5. Closings'
  <2>1. FramesInOrder' /\ ClosedIsUnlisted' /\ ClosedIsUnused'
    BY <1>1 DEF Unmoved, Closings, FramesInOrder, ClosedIsUnlisted, ClosedIsUnused
  <2>2. UncountedIsClosed'
    BY <1>1 DEF Unmoved, Closings, UncountedIsClosed
  <2>3. ClosingIsKnown'
    BY <1>1 DEF Unmoved, Closings, ClosingIsKnown, InCall
  <2> QED
    BY <2>1, <2>2, <2>3 DEF Closings
<1>6. SetsLocked'
  BY <1>1 DEF Unmoved, SetsLocked, OneOwner, SetsKept
<1>7. Knowledge'
  BY <1>1 DEF Unmoved, Knowledge, OnlyRight, NothingMissed
<1> QED
  BY <1>2, <1>3, <1>4, <1>5, <1>6, <1>7

LEMMA StutterKeeps ==
    ASSUME LookupInv, UNCHANGED lookupVars
    PROVE  LookupInv'
<1>1. Unmoved /\ answer' = answer
  BY DEF lookupVars, Unmoved
<1>2. CallTypes /\ References /\ AnswersAreExact
  BY DEF LookupInv
<1>3. /\ CallStacks' /\ GoneHasNone' /\ HoldersAreHeld' /\ DestroyedIsGone' /\ SteadyIsHeld'
      /\ TokensHeld' /\ Closings' /\ SetsLocked' /\ Knowledge'
  BY <1>1, UnmovedKeeps
<1>4. CallTypes'
  BY <1>1, <1>2 DEF Unmoved, CallTypes
<1>5. Answered'
  BY <1>1, <1>2 DEF Unmoved, References, Answered
<1>6. References'
  BY <1>3, <1>5 DEF References
<1>7. AnswersAreExact'
  BY <1>1, <1>2, <1>6, AnswersKept
<1> QED
  BY <1>3, <1>4, <1>6, <1>7 DEF LookupInv

(* The application has let go of everything that was returned.             *)
LEMMA ForgetsAnswer ==
    ASSUME LookupInv, NEW c \in Callers, Replies(c, None), Unmoved
    PROVE  LookupInv'
<1>1. CallTypes /\ References /\ AnswersAreExact
  BY DEF LookupInv
<1>2. /\ CallStacks' /\ GoneHasNone' /\ HoldersAreHeld' /\ DestroyedIsGone' /\ SteadyIsHeld'
      /\ TokensHeld' /\ Closings' /\ SetsLocked' /\ Knowledge'
  BY UnmovedKeeps
<1>3. /\ answer'[c] = None /\ \A d \in Callers : d # c => answer'[d] = answer[d]
      /\ answer' \in [Callers -> Answers \cup {None}]
  BY <1>1 DEF Replies, CallTypes
<1>4. Answered'
  BY <1>1, <1>3 DEF Unmoved, References, Answered
<1>5. References'
  BY <1>2, <1>4 DEF References
<1>6. AnswersAreExact'
  <2>1. None \in Answers \cup {None}
    OBVIOUS
  <2>2. refs' \in [Objects -> SUBSET (Objects \cup Callers \cup {"app"})]
    BY <1>1 DEF CallTypes, Unmoved
  <2> QED
    BY <1>1, <1>5, <2>1, <2>2, AnotherAnswer DEF Replies
<1>7. CallTypes'
  BY <1>1, <1>3 DEF Unmoved, CallTypes
<1> QED
  BY <1>2, <1>5, <1>6, <1>7 DEF LookupInv

(* It lets go of one thing that was returned.                              *)
LessAnswer(r, o) == [r EXCEPT !.found = @ \ {o}, !.steady = {}]

LEMMA LessIsRight ==
    ASSUME NEW q \in Answers, RightAnswer(q), NEW o, NEW r, r = LessAnswer(q, o)
    PROVE  r \in Answers /\ RightAnswer(r) /\ r.ask = q.ask /\ r.found = q.found \ {o}
<1>1. /\ r \in Answers /\ r.ask = q.ask /\ r.found = q.found \ {o} /\ r.steady = {}
      /\ r.threw = q.threw /\ r.closing = q.closing
  BY DEF LessAnswer, Answers
<1> QED
  BY <1>1 DEF RightAnswer

LEMMA LetsAnswerGo ==
    ASSUME LookupInv, NEW c \in Callers, ~InCall(c), answer[c] # None,
           answer[c].ask.op # "contains", NEW o \in answer[c].found,
           NEW r, r = LessAnswer(answer[c], o), Replies(c, r), Let(c, c, o, << >>),
           locked' = locked, setsHeld' = setsHeld, listed' = listed, using' = using, called' = called
    PROVE  LookupInv'
<1>1. CallTypes /\ CallStacks /\ References /\ AnswersAreExact
  BY DEF LookupInv
<1>2. answer[c] \in Answers /\ o \in Objects
  BY <1>1 DEF CallTypes, Answers
<1>3. RightAnswer(answer[c])
  BY <1>1, ExactAnswers
<1>4. r \in Answers /\ RightAnswer(r) /\ r.ask = answer[c].ask /\ r.found = answer[c].found \ {o}
  BY <1>2, <1>3, LessIsRight
<1>5. /\ answer'[c] = r /\ \A d \in Callers : d # c => answer'[d] = answer[d]
      /\ answer' \in [Callers -> Answers \cup {None}]
  BY <1>1, <1>4 DEF Replies, CallTypes
<1> DEFINE holder == c
           q == << >>
           N == {}
<1>6. /\ frames[c] = << >> /\ Lower(frames[c]) = {} /\ Goes(frames[c], q, N)
  BY CallsFacts
<1>h. holder = c
  OBVIOUS
<1>7. /\ holder \in {"app", c} \cup Objects /\ holder \notin Objects
      /\ \A h : h \notin N
      /\ Let(c, holder, o, q)
  BY LookupAssumption
<1>q. FramesOf(q) = {}
  BY NoStack
<1> HIDE DEF holder, q, N
<1>8. LetDone(o, holder) /\ \E M : LetFrames(c, o, holder, q, N, M)
  BY <1>1, <1>2, <1>6, <1>7, LetEffect
<1>9. PICK M : LetFrames(c, o, holder, q, N, M)
  BY <1>8
<1>10. /\ \A d \in Callers : d # c => frames'[d] = frames[d]
       /\ \A h \in FramesOf(frames'[c]) : Destructor(h)
  BY <1>9, <1>q DEF LetFrames, Changes, Buries
<1>11. \A x \in Objects : \A d \in Callers : d \in refs[x] /\ (d # c \/ x # o) => d \in refs'[x]
  BY <1>h, <1>8 DEF LetDone
<1>12. Answered'
  <2> SUFFICES ASSUME NEW d \in Callers, answer'[d] # None
               PROVE  /\ \A h \in FramesOf(frames'[d]) : Destructor(h)
                      /\ answer'[d].ask.op # "contains" => \A x \in answer'[d].found : d \in refs'[x]
    BY DEF Answered
  <2>0. Answered
    BY <1>1 DEF References
  <2>1. CASE d = c
    <3>1. \A x \in answer[c].found : c \in refs[x] /\ x \in Objects
      BY <1>2, <2>0 DEF Answered, Answers
    <3> QED
      BY <1>4, <1>5, <1>10, <1>11, <2>1, <3>1
  <2>2. CASE d # c
    <3>1. answer'[d] = answer[d] /\ frames'[d] = frames[d]
      BY <1>5, <1>10, <2>2
    <3>2. answer[d] \in Answers
      BY <1>1, <3>1 DEF CallTypes
    <3>3. answer[d].found \subseteq Objects
      BY <3>2 DEF Answers
    <3> QED
      BY <1>11, <2>0, <2>2, <3>1, <3>3 DEF Answered
  <2> QED
    BY <2>1, <2>2
<1>13. References' => AnswersAreExact'
  <2> SUFFICES ASSUME References' PROVE AnswersAreExact'
    OBVIOUS
  <2>1. refs' \in [Objects -> SUBSET (Objects \cup Callers \cup {"app"})]
    BY <1>8 DEF LetDone
  <2>2. r \in Answers \cup {None}
    BY <1>4
  <2> QED
    BY <1>1, <1>4, <2>1, <2>2, AnotherAnswer DEF Replies
<1>14. /\ locked' \in [Objects -> Callers \cup {None}] /\ using' \subseteq using
       /\ called' \in [Callers -> Nat] /\ \A d \in Callers : called'[d] \in 0 .. MaxCalls[d]
       /\ \A x \in Objects : Holder[x] = o /\ holder = x => refs[x] = {}
       /\ \A h \in N : /\ h.op = "close" /\ h.self \in Objects
                       /\ ClosesInOrder(h, fate', listed', using')
                       /\ ClosesFor(frames[c], h.self)
                       /\ Destructor(h) => fate'[h.self] = "gone"
       /\ holder = c => \A h \in Lower(frames[c]) : h.op = "close"
       /\ InCall(c) => Top(c).op = "close" /\ Lower(frames[c]) \subseteq FramesOf(q)
  BY <1>1, <1>6, <1>7 DEF CallTypes
<1>15. \A x \in Objects :
          (Sort[x] \in {"reader", "writer"} /\ x \in using \ using') \/ (InCall(c) /\ AboutToFinish(Top(c), x)) =>
             refs'[x] = {} \/ \E h \in FramesOf(q) : AboutToFinish(h, x)
  OBVIOUS
<1>16. /\ setsHeld' = setsHeld /\ listed' = listed
       /\ answer' \in [Callers -> Answers \cup {None}]
  BY <1>5
<1> QED
  BY <1>2, <1>7, <1>8, <1>9, <1>12, <1>13, <1>14, <1>15, <1>16, LetCloses

LEMMA ThankKeeps ==
    ASSUME LookupInv, NEW c \in Callers, Thank(c), called' = called
    PROVE  LookupInv'
<1> DEFINE kept == IF answer[c].ask.op = "contains" THEN {} ELSE answer[c].found
<1>1. /\ ~InCall(c) /\ answer[c] # None
      /\ locked' = locked /\ setsHeld' = setsHeld /\ listed' = listed /\ using' = using
  BY DEF Thank
<1>2. CASE kept = {}
  <2>1. /\ answer' = [answer EXCEPT ![c] = None]
        /\ steady' = steady /\ closing' = closing
        /\ frames' = frames /\ refs' = refs /\ fate' = fate
    BY <1>2, ZenonT(30) DEF Thank, Undisturbed
  <2>2. Unmoved
    BY <1>1, <2>1 DEF Unmoved
  <2>3. Replies(c, None)
    BY <2>1 DEF Replies
  <2> QED
    BY <2>2, <2>3, ForgetsAnswer
<1>3. CASE kept # {}
  <2>1. PICK o \in kept :
           /\ answer' = [answer EXCEPT ![c].found = @ \ {o}, ![c].steady = {}]
           /\ Let(c, c, o, << >>)
    BY <1>3, ZenonT(30) DEF Thank
  <2>2. answer[c].ask.op # "contains" /\ o \in answer[c].found
    BY <1>3, <2>1
  <2> DEFINE r == LessAnswer(answer[c], o)
  <2>3. Replies(c, r)
    BY <2>1 DEF Replies, LessAnswer, LookupInv, CallTypes
  <2>4. r = LessAnswer(answer[c], o)
    OBVIOUS
  <2> HIDE DEF r, kept
  <2> QED
    BY <1>1, <2>1, <2>2, <2>3, <2>4, LetsAnswerGo
<1> QED
  BY <1>2, <1>3

(* The first state, and every step.                                        *)
LEMMA LookupStarts ==
    ASSUME LookupInit
    PROVE  LookupInv
<1>1. /\ \A c \in Callers : frames[c] = << >> /\ answer[c] = None /\ steady[c] = {} /\ closing[c] = {}
                            /\ called[c] = 0
      /\ \A o \in Objects : refs[o] = IF o \in Late THEN {} ELSE
                                {"app"} \cup {x \in Objects \ Late : o \in Refers(x)}
      /\ \A o \in Objects : fate[o] = IF o \in Late THEN "late" ELSE "open"
      /\ setsHeld = {} /\ listed = Objects \ Late
      /\ using = {o \in Objects \ Late : About[o] # None}
  BY DEF LookupInit
<1>2. \A c \in Callers : FramesOf(frames[c]) = {} /\ StackShape(frames[c]) /\ Len(frames[c]) = 0
                         /\ ~InCall(c)
  BY <1>1, NoStack DEF InCall
<1>3. CallTypes
  <2>1. frames \in [Callers -> Seq(CallFrames)]
    BY DEF LookupInit
  <2>2. refs \in [Objects -> SUBSET (Objects \cup Callers \cup {"app"})]
    BY DEF LookupInit
  <2>3. fate \in [Objects -> {"late", "open", "closed", "gone"}]
    BY DEF LookupInit
  <2>4. /\ locked \in [Objects -> Callers \cup {None}] /\ setsHeld \subseteq Sets \X Callers
        /\ listed \subseteq Objects /\ using \subseteq Objects
        /\ answer \in [Callers -> Answers \cup {None}]
    BY DEF LookupInit
  <2>5. /\ steady \in [Callers -> SUBSET Objects] /\ closing \in [Callers -> SUBSET Objects]
        /\ called \in [Callers -> Nat]
    BY DEF LookupInit
  <2>6. \A c \in Callers : called[c] \in 0 .. MaxCalls[c]
    BY <1>1, LookupAssumption
  <2> QED
    BY <2>1, <2>2, <2>3, <2>4, <2>5, <2>6 DEF CallTypes
<1>4. CallStacks
  BY <1>2 DEF CallStacks
<1>5. References
  <2>1. GoneHasNone
    BY <1>1 DEF GoneHasNone
  <2>2. HoldersAreHeld
    <3> SUFFICES ASSUME NEW o \in Objects, refs[o] # {}, Holder[o] # None PROVE o \in refs[Holder[o]]
      BY DEF HoldersAreHeld
    <3>1. o \notin Late
      BY <1>1
    <3>2. Holder[o] \in Objects /\ Holder[o] \notin Late /\ Holder[o] \in Refers(o)
      BY <3>1, LookupAssumption DEF Refers
    <3> QED
      BY <1>1, <3>1, <3>2
  <2>3. DestroyedIsGone /\ TokensHeld
    BY <1>2 DEF DestroyedIsGone, TokensHeld
  <2>4. SteadyIsHeld /\ Answered
    BY <1>1 DEF SteadyIsHeld, Answered
  <2> QED
    BY <2>1, <2>2, <2>3, <2>4 DEF References
<1>6. Closings
  <2>1. FramesInOrder
    BY <1>2 DEF FramesInOrder
  <2>2. ClosedIsUnlisted /\ ClosedIsUnused
    BY <1>1 DEF ClosedIsUnlisted, ClosedIsUnused
  <2>3. UncountedIsClosed
    <3> SUFFICES ASSUME NEW o \in Objects, Sort[o] \in {"reader", "writer"}, refs[o] # {} PROVE o \in using
      BY DEF UncountedIsClosed
    <3>1. o \notin Late /\ About[o] # None
      BY <1>1, LookupAssumption
    <3> QED
      BY <1>1, <3>1
  <2>4. ClosingIsKnown
    BY <1>2 DEF ClosingIsKnown
  <2> QED
    BY <2>1, <2>2, <2>3, <2>4 DEF Closings
<1>7. SetsLocked
  <2>1. OneOwner
    BY <1>1 DEF OneOwner
  <2>2. \A c \in Callers : OwnKeys(frames[c])
    BY <1>2 DEF OwnKeys
  <2> QED
    BY <1>2, <2>1, <2>2 DEF SetsLocked, SetsKept
<1>8. Knowledge
  BY <1>1, <1>2 DEF Knowledge, OnlyRight, NothingMissed, Searching
<1>9. AnswersAreExact
  BY <1>1 DEF AnswersAreExact, FindsWhatIsThere, ThrowsForAReason
<1> QED
  BY <1>3, <1>4, <1>5, <1>6, <1>7, <1>8, <1>9 DEF LookupInv

LEMMA StageKeeps ==
    ASSUME LookupInv, NEW c \in Callers, Stage(c), called' = called
    PROVE  LookupInv'
<1>1. CASE LockSelf(c)
  BY <1>1, LockSelfKeeps
<1>2. CASE CopySet(c)
  BY <1>2, CopySetKeeps
<1>3. CASE Visit(c)
  BY <1>3, VisitKeeps
<1>4. CASE VisitDone(c)
  BY <1>4, VisitDoneKeeps
<1>5. CASE Release(c)
  BY <1>5, ReleaseKeeps
<1>6. CASE Test(c)
  BY <1>6, TestKeeps
<1>7. CASE TestName(c)
  BY <1>7, TestNameKeeps
<1>8. CASE LockSet(c)
  BY <1>8, LockSetKeeps
<1>9. CASE TestHandle(c)
  BY <1>9, TestHandleKeeps
<1>10. CASE LeaveSet(c)
  BY <1>10, LeaveSetKeeps
<1>11. CASE FindTopic(c)
  BY <1>11, FindTopicKeeps
<1>12. CASE FindCfTopic(c)
  BY <1>12, FindCfTopicKeeps
<1>13. CASE Return(c)
  BY <1>13, ReturnKeeps
<1>14. CASE Unwind(c)
  BY <1>14, UnwindKeeps
<1>15. CASE HasUsers(c)
  BY <1>15, HasUsersKeeps
<1>16. CASE Unlist(c)
  BY <1>16, UnlistKeeps
<1>17. CASE Uncount(c)
  BY <1>17, UncountKeeps
<1>18. CASE EndClose(c)
  BY <1>18, EndCloseKeeps
<1>19. CASE Forget(c)
  BY <1>19, ForgetKeeps
<1> QED
  BY <1>1, <1>2, <1>3, <1>4, <1>5, <1>6, <1>7, <1>8, <1>9, <1>10, <1>11, <1>12, <1>13, <1>14,
     <1>15, <1>16, <1>17, <1>18, <1>19 DEF Stage

LEMMA LookupNextKeeps ==
    ASSUME LookupInv, [LookupNext]_lookupVars
    PROVE  LookupInv'
<1>1. CASE UNCHANGED lookupVars
  BY <1>1, StutterKeeps
<1>2. ASSUME NEW c \in Callers, LookupStep(c)
      PROVE  LookupInv'
  BY <1>2, StageKeeps DEF LookupStep
<1>3. ASSUME NEW c \in Callers, NEW a \in Asks[c], Ask(c, a)
      PROVE  LookupInv'
  BY <1>3, AskKeeps
<1>4. ASSUME NEW c \in Callers, NEW o \in Objects, AskClose(c, o)
      PROVE  LookupInv'
  BY <1>4, AskCloseKeeps
<1>5. ASSUME NEW c \in Callers, NEW o \in Objects, AskDrop(c, o)
      PROVE  LookupInv'
  BY <1>5, AskDropKeeps
<1>6. ASSUME NEW c \in Callers, NEW o \in Objects, Enter(c, o)
      PROVE  LookupInv'
  BY <1>6, EnterKeeps
<1>7. ASSUME NEW c \in Callers, Thank(c), called' = called
      PROVE  LookupInv'
  BY <1>7, ThankKeeps
<1> QED
  BY <1>1, <1>2, <1>3, <1>4, <1>5, <1>6, <1>7 DEF LookupNext

(* Whatever the application asks, closes, drops and creates, every lookup  *)
(* keeps the references and the mutexes that it needs, and knows of        *)
(* everything it may return or throw for.                                  *)
THEOREM LookupInvariant == LookupSpec => []LookupInv
<1>1. LookupInit => LookupInv
  BY LookupStarts
<1>2. LookupInv /\ [LookupNext]_lookupVars => LookupInv'
  BY LookupNextKeeps
<1> QED
  BY <1>1, <1>2, PTL DEF LookupSpec

(* What the invariant says of types.                                       *)
LEMMA LookupTypes ==
    ASSUME LookupInv
    PROVE  LookupTypeOK
<1>1. CallTypes /\ CallStacks
  BY DEF LookupInv
<1>2. ASSUME NEW c \in Callers, NEW i \in 1 .. Len(frames[c])
      PROVE  LET f == frames[c][i]
             IN  /\ f.op \in Lookups \cup {"close"}
                 /\ f.self \in Objects \cup {None}
                 /\ f.todo # << >>
                 /\ f.rest \cup f.found \cup f.loose \subseteq Objects
                 /\ f.ref \in Objects \cup {None}
                 /\ f.key \in Sets \cup {None}
  <2> DEFINE f == frames[c][i]
  <2>1. f \in FramesOf(frames[c])
    BY DEF FramesOf
  <2>2. f \in CallFrames /\ FrameShape(f)
    BY <1>1, <2>1, FrameTokens
  <2> HIDE DEF f
  <2>3. /\ f.op \in Lookups \cup {"close"}
        /\ f.self \in Objects \cup {None}
        /\ f.todo # << >>
        /\ f.rest \cup f.found \cup f.loose \subseteq Objects
        /\ f.ref \in Objects \cup {None}
        /\ f.key \in Sets \cup {None}
    BY <2>2 DEF CallFrames, FrameShape
  <2> QED
    BY <2>3 DEF f
<1> QED
  BY <1>1, <1>2 DEF CallTypes, LookupTypeOK

(* The stacks of the threads, the references, the mutexes and the answers  *)
(* keep their types, whoever finds, creates, closes and drops what.        *)
THEOREM LookupTypeCorrect == LookupSpec => []LookupTypeOK
BY LookupInvariant, LookupTypes, PTL

(* What a lookup returns is what was asked for, still exists, and the      *)
(* caller has a reference to it; and what matches and was there all the    *)
(* time is found, by find_datareaders every such reader.                   *)
THEOREM FoundIsThere == LookupSpec => []FindsWhatIsThere
<1>1. LookupInv => FindsWhatIsThere
  BY DEF LookupInv, AnswersAreExact
<1> QED
  BY <1>1, LookupInvariant, PTL

(* Besides, a lookup throws only if the container it was asked of, or      *)
(* something in it, was closed meanwhile. The hypothesis is that no writer *)
(* is created beside the lookups: close() of a topic that found no user    *)
(* may go on beside the constructor of a writer, and a lookup that asks    *)
(* that writer for the name of its topic throws though nothing it is about *)
(* was closed.                                                             *)
THEOREM AnswersExact == NoLateWriters => (LookupSpec => []LookupsAreExact)
<1> SUFFICES ASSUME NoLateWriters PROVE LookupSpec => []LookupsAreExact
  OBVIOUS
<1>1. LookupInv => LookupsAreExact
  BY DEF LookupInv, AnswersAreExact, LookupsAreExact
<1> QED
  BY <1>1, LookupInvariant, PTL

-----------------------------------------------------------------------------
(* Entities that threads create and close, and lookups among entities,     *)
(* keep their types beside each other: neither touches the state of the    *)
(* other.                                                                  *)
THEOREM FindingTypeCorrect == FindingSpec => []FindingTypeOK
<1>1. FindingSpec => Spec
  <2>1. [Tree \/ Lookup]_<<subject, vars, lookupVars>> => [Next]_vars
    BY DEF Tree, Lookup
  <2> QED
    BY <2>1, PTL DEF FindingSpec, FindingInit, Spec
<1>2. FindingSpec => LookupSpec
  <2>1. [Tree \/ Lookup]_<<subject, vars, lookupVars>> => [LookupNext]_lookupVars
    BY DEF Tree, Lookup
  <2> QED
    BY <2>1, PTL DEF FindingSpec, FindingInit, LookupSpec
<1>3. FindingSpec => [](subject \in {"tree", "lookup"})
  <2> DEFINE Subject == subject \in {"tree", "lookup"}
  <2>1. FindingInit => Subject
    BY DEF FindingInit
  <2>2. Subject /\ [Tree \/ Lookup]_<<subject, vars, lookupVars>> => Subject'
    BY DEF Tree, Lookup
  <2> QED
    BY <2>1, <2>2, PTL DEF FindingSpec
<1> QED
  BY <1>1, <1>2, <1>3, TreeTypeCorrect, LookupTypeCorrect, PTL DEF FindingTypeOK
=============================================================================
