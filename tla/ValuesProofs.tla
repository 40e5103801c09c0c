---------------------------- MODULE ValuesProofs ----------------------------
(***************************************************************************)
(* Proofs about samples and their values: unions keep the branch their     *)
(* discriminator names and survive a stream, for every union type that IDL *)
(* allows; and every sample between the C library and the application has  *)
(* exactly the owners that will give it up, for any number of serdatas,    *)
(* threads, instances and SampleRefs.                                      *)
(***************************************************************************)
EXTENDS ReadPath, UnionType, SequenceTheorems, FiniteSetTheorems, WellFoundedInduction, TLAPS

(* A set of numbers that is not empty has a smallest one: of the parts of  *)
(* the set that end at one of its elements, one has no smaller part.       *)
LEMMA SmallestElement ==
    ASSUME NEW S \in SUBSET Nat, S # {}
    PROVE  \E e \in S : \A f \in S : e <= f
<1> DEFINE upTo(e) == S \cap (0 .. e)
           parts == {upTo(e) : e \in S}
           R == StrictSubsetOrdering(Nat)
           F == FiniteSubsetsOf(Nat)
<1>1. \A e \in S : upTo(e) \in F
  <2> TAKE e \in S
  <2>1. IsFiniteSet(0 .. e)
      BY FS_Interval
  <2> QED
      BY <2>1, FS_Subset DEF FiniteSubsetsOf
<1>2. parts \subseteq F /\ parts # {}
    BY <1>1
<1>3. IsWellFoundedOn(R, F)
    BY FS_StrictSubsetOrderingWellFounded
<1>4. \E T \in parts : \A U \in parts : ~(<<U, T>> \in R)
  <2> HIDE DEF R, F, parts
  <2> QED
      BY <1>2, <1>3, WFMin
<1>5. PICK e \in S : \A f \in S : ~(<<upTo(f), upTo(e)>> \in R)
    BY <1>4
<1>6. ASSUME NEW f \in S, f < e  PROVE FALSE
  <2>1. upTo(f) \subseteq upTo(e) /\ e \in upTo(e) /\ e \notin upTo(f)
      BY <1>6
  <2>2. <<upTo(f), upTo(e)>> \in R
      BY <2>1 DEF StrictSubsetOrdering
  <2> QED
      BY <2>2, <1>5
<1> QED
    BY <1>6

-----------------------------------------------------------------------------
(***************************************************************************)
(* The switches that idlc generates agree: which branch a discriminator    *)
(* names, which label stands for a branch, which discriminators are        *)
(* compatible.                                                             *)
(***************************************************************************)
(* What the cases of a union type are: a label is in one case only.        *)
LEMMA Cases ==
    ASSUME NEW s \in Shapes
    PROVE  /\ 1 \in DOMAIN s.cases /\ DOMAIN s.cases \subseteq Nat \ {NoCase}
           /\ DOMAIN s.cases = 1 .. Len(s.cases) /\ Len(s.cases) \in Nat
           /\ \A k \in DOMAIN s.cases :
                 /\ s.cases[k].labels \in Seq(Discriminators \cup {DefaultLabel})
                 /\ Head(s.cases[k].labels) \in Labels(s, k)
                 /\ Labels(s, k) \subseteq Discriminators \cup {DefaultLabel}
           /\ \A j, k \in DOMAIN s.cases : j # k => Labels(s, j) \cap Labels(s, k) = {}
           /\ HasDefault(s) => Unused(s) # {}
<1>1. /\ s.cases \in Seq(UnionCase) \ {<< >>}
      /\ \A j, k \in DOMAIN s.cases : j # k => Labels(s, j) \cap Labels(s, k) = {}
      /\ HasDefault(s) => Unused(s) # {}
    BY UnionAssumption
<1>2. /\ Len(s.cases) \in Nat \ {0} /\ DOMAIN s.cases = 1 .. Len(s.cases)
      /\ \A k \in DOMAIN s.cases : s.cases[k] \in UnionCase
    BY <1>1, EmptySeq, LenProperties, ElementOfSeq
<1>3. ASSUME NEW k \in DOMAIN s.cases
      PROVE  /\ s.cases[k].labels \in Seq(Discriminators \cup {DefaultLabel})
             /\ Head(s.cases[k].labels) \in Labels(s, k)
             /\ Labels(s, k) \subseteq Discriminators \cup {DefaultLabel}
  <2> DEFINE labels == s.cases[k].labels
  <2>1. labels \in Seq(Discriminators \cup {DefaultLabel}) /\ labels # << >>
      BY <1>2 DEF UnionCase
  <2>2. Labels(s, k) = {labels[i] : i \in DOMAIN labels}
      BY DEF Labels, Range
  <2> HIDE DEF labels
  <2>3. Len(labels) \in Nat \ {0} /\ DOMAIN labels = 1 .. Len(labels)
      BY <2>1, EmptySeq, LenProperties
  <2>4. \A i \in DOMAIN labels : labels[i] \in Discriminators \cup {DefaultLabel}
      BY <2>1, <2>3, ElementOfSeq
  <2>5. Head(labels) = labels[1] /\ 1 \in DOMAIN labels
      BY <2>1, <2>3, HeadTailProperties
  <2> QED
      BY <2>1, <2>2, <2>4, <2>5 DEF labels
<1> QED
    BY <1>1, <1>2, <1>3 DEF NoCase

(* A discriminator names the case it is a label of, the default case, or   *)
(* none.                                                                   *)
LEMMA CaseOfDiscriminator ==
    ASSUME NEW s \in Shapes, NEW e \in Discriminators
    PROVE  /\ CaseOf(s, e) \in {NoCase} \cup DOMAIN s.cases
           /\ \A k \in DOMAIN s.cases :
                 CaseOf(s, e) = k
                     <=> e \in Labels(s, k) \/ (e \in Unused(s) /\ DefaultLabel \in Labels(s, k))
<1> DEFINE l == IF e \in Unused(s) THEN DefaultLabel ELSE e
           named == CasesWith(s, l)
<1>1. CaseOf(s, e) = IF named = {} THEN NoCase ELSE CHOOSE k \in named : TRUE
    BY DEF CaseOf
<1>2. \A j, k \in named : j = k
    BY Cases DEF CasesWith
<1>3. CaseOf(s, e) \in {NoCase} \cup DOMAIN s.cases
    BY <1>1 DEF CasesWith
<1>4. \A k \in DOMAIN s.cases : CaseOf(s, e) = k <=> k \in named
    BY <1>1, <1>2, <1>3, Cases DEF CasesWith
<1>5. \A k \in DOMAIN s.cases : e \in Labels(s, k) => e \notin Unused(s)
    BY DEF Unused, CasesWith
<1> QED
    BY <1>3, <1>4, <1>5 DEF CasesWith

(* The default discriminator names the default case, the first case if     *)
(* all discriminators are labels, and otherwise none.                      *)
LEMMA DefaultOfUnion ==
    ASSUME NEW s \in Shapes
    PROVE  /\ DefaultDiscriminator(s) \in Discriminators
           /\ Unused(s) # {} => DefaultDiscriminator(s) \in Unused(s)
           /\ Unused(s) = {} => ~HasDefault(s) /\ CaseOf(s, DefaultDiscriminator(s)) = 1
           /\ ~HasDefault(s) /\ Unused(s) # {} => CaseOf(s, DefaultDiscriminator(s)) = NoCase
<1> DEFINE D == DefaultDiscriminator(s)
<1>1. CASE Unused(s) # {}
  <2>1. Unused(s) \in SUBSET Nat /\ Unused(s) \subseteq Discriminators
      BY UnionAssumption DEF Unused, Discriminators
  <2>2. \E e \in Unused(s) : \A f \in Unused(s) : e <= f
      BY <1>1, <2>1, SmallestElement
  <2>3. D \in Unused(s)
      BY <1>1, <2>2 DEF DefaultDiscriminator
  <2>4. ~HasDefault(s) => CaseOf(s, D) = NoCase
      BY <2>3 DEF HasDefault, CaseOf
  <2> QED
      BY <1>1, <2>1, <2>3, <2>4
<1>2. CASE Unused(s) = {}
  <2>1. ~HasDefault(s)
      BY <1>2, Cases
  <2>2. D = Head(s.cases[1].labels)
      BY <1>2 DEF DefaultDiscriminator
  <2>3. D \in Labels(s, 1) /\ 1 \in DOMAIN s.cases
      BY <2>2, Cases
  <2>4. D \in Discriminators
      BY <2>1, <2>3, Cases DEF HasDefault, CasesWith
  <2> QED
      BY <1>2, <2>1, <2>3, <2>4, CaseOfDiscriminator
<1> QED
    BY <1>1, <1>2

(* The label that stands for a case names it.                              *)
LEMMA LabelNamesCase ==
    ASSUME NEW s \in Shapes, NEW k \in DOMAIN s.cases
    PROVE  LabelOf(s, k) \in Discriminators /\ CaseOf(s, LabelOf(s, k)) = k
<1> DEFINE first == Head(s.cases[k].labels)
<1>1. first \in Labels(s, k) /\ first \in Discriminators \cup {DefaultLabel}
    BY Cases
<1>2. CASE first = DefaultLabel
  <2>1. HasDefault(s)
      BY <1>1, <1>2 DEF HasDefault, CasesWith
  <2>2. Unused(s) # {}
      BY <2>1, Cases
  <2>3. DefaultDiscriminator(s) \in Unused(s) /\ DefaultDiscriminator(s) \in Discriminators
      BY <2>2, DefaultOfUnion
  <2>4. LabelOf(s, k) = DefaultDiscriminator(s)
      BY <1>2 DEF LabelOf
  <2> QED
      BY <1>1, <1>2, <2>3, <2>4, CaseOfDiscriminator
<1>3. CASE first # DefaultLabel
  <2>1. LabelOf(s, k) = first /\ first \in Discriminators
      BY <1>1, <1>3 DEF LabelOf
  <2> QED
      BY <1>1, <2>1, CaseOfDiscriminator
<1> QED
    BY <1>2, <1>3

(* _is_discriminator() leads from a discriminator to one of the same case. *)
LEMMA DiscriminatorOfCase ==
    ASSUME NEW s \in Shapes, NEW e \in Discriminators
    PROVE  /\ IsDiscriminator(s, e) \in Discriminators
           /\ CaseOf(s, IsDiscriminator(s, e)) = CaseOf(s, e)
<1>1. CASE CaseOf(s, e) = NoCase
  <2>1. e \in Unused(s)
    <3>1. \A k \in DOMAIN s.cases : e \notin Labels(s, k)
        BY <1>1, CaseOfDiscriminator, Cases
    <3> QED
        BY <3>1 DEF Unused, CasesWith
  <2>2. ~HasDefault(s)
    <3>1. \A k \in DOMAIN s.cases : DefaultLabel \notin Labels(s, k)
        BY <1>1, <2>1, CaseOfDiscriminator, Cases
    <3> QED
        BY <3>1 DEF HasDefault, CasesWith
  <2> QED
      BY <1>1, <2>1, <2>2, DefaultOfUnion DEF IsDiscriminator
<1>2. CASE CaseOf(s, e) # NoCase
    BY <1>2, CaseOfDiscriminator, LabelNamesCase DEF IsDiscriminator
<1> QED
    BY <1>1, <1>2

(* Discriminators are compatible exactly if they name the same case.       *)
LEMMA CompatibleNamesCase ==
    ASSUME NEW s \in Shapes, NEW e \in Discriminators, NEW f \in Discriminators
    PROVE  Compatible(s, e, f) <=> CaseOf(s, e) = CaseOf(s, f)
<1>1. Compatible(s, e, f) => CaseOf(s, e) = CaseOf(s, f)
    BY DiscriminatorOfCase DEF Compatible
<1>2. CaseOf(s, e) = CaseOf(s, f) => Compatible(s, e, f)
    BY DEF Compatible, IsDiscriminator
<1> QED
    BY <1>1, <1>2

(* A branch has an alternative of the variant, the first of its type.      *)
LEMMA AlternativeOfCase ==
    ASSUME NEW s \in Shapes, NEW k \in DOMAIN s.cases
    PROVE  Alternative(s, k) \in DOMAIN s.cases /\ Alternative(s, 1) = 1
<1> DEFINE alike(m) == {j \in 1 .. m : SameType(s, j, m)}
<1>1. ASSUME NEW m \in DOMAIN s.cases
      PROVE  FirstOfType(s, m) \in 1 .. m
  <2>0. m \in Nat \ {0}
      BY Cases DEF NoCase
  <2>1. m \in alike(m) /\ alike(m) \in SUBSET Nat
      BY <2>0 DEF SameType
  <2>2. PICK j \in alike(m) : \A i \in alike(m) : j <= i
    <3> HIDE DEF alike
    <3> QED
        BY <2>1, SmallestElement
  <2>3. j \in 1 .. m /\ SameType(s, m, j) /\ SameType(s, j, m)
      BY <2>2 DEF SameType
  <2>4. \A i \in 1 .. j - 1 : ~SameType(s, i, m)
      BY <2>0, <2>2
  <2> QED
      BY <2>3, <2>4 DEF FirstOfType
<1>2. FirstOfType(s, k) \in DOMAIN s.cases
    BY <1>1, Cases
<1>3. FirstOfType(s, 1) = 1
    BY <1>1, Cases
<1> QED
    BY <1>2, <1>3 DEF Alternative

-----------------------------------------------------------------------------
(***************************************************************************)
(* The inductive invariant of two unions: their types, and that the        *)
(* variant holds the branch that the discriminator names.                  *)
(***************************************************************************)
UnionValue(s) ==
    [d : Discriminators, held : {Valueless} \cup DOMAIN s.cases, value : Contents]
Holds(s, a) ==
    \A k \in DOMAIN s.cases : CaseOf(s, a.d) = k => a.held = Alternative(s, k)

UnionState ==
    /\ shape \in Shapes
    /\ unions \in [Objects -> UnionValue(shape)]
    /\ interrupted \subseteq Objects
UnionInv == UnionState /\ \A o \in Whole : Holds(shape, unions[o])

(* There is a value for a branch that is default constructed.              *)
LEMMA FreshContent == Fresh \in Contents
<1>1. Cardinality({}) = 0
    BY FS_EmptySet
<1>2. Cardinality(Contents) >= 2
    BY UnionAssumption
<1>3. Contents # {}
  <2> SUFFICES ASSUME Contents = {}  PROVE FALSE
      OBVIOUS
  <2>1. Cardinality(Contents) = 0
      BY <1>1
  <2> QED
      BY <1>2, <2>1
<1> QED
    BY <1>3 DEF Fresh

(* What the default constructor, a setter and a read make is a value of    *)
(* the union type that holds its branch.                                   *)
LEMMA MadeHolds ==
    ASSUME NEW s \in Shapes
    PROVE  /\ DefaultConstructed(s) \in UnionValue(s) /\ Holds(s, DefaultConstructed(s))
           /\ \A k \in DOMAIN s.cases, u \in Contents, e \in Discriminators :
                 CaseOf(s, e) = k => Setter(s, k, u, e) \in UnionValue(s) /\ Holds(s, Setter(s, k, u, e))
<1>1. DefaultConstructed(s) \in UnionValue(s) /\ Holds(s, DefaultConstructed(s))
  <2> DEFINE D == DefaultDiscriminator(s)
  <2>1. D \in Discriminators /\ Fresh \in Contents
      BY DefaultOfUnion, FreshContent
  <2>2. HasDefault(s) => CaseOf(s, D) \in DOMAIN s.cases
    <3>1. SUFFICES ASSUME HasDefault(s)  PROVE CaseOf(s, D) \in DOMAIN s.cases
        OBVIOUS
    <3>2. PICK k \in DOMAIN s.cases : DefaultLabel \in Labels(s, k)
        BY <3>1 DEF HasDefault, CasesWith
    <3>3. D \in Unused(s)
        BY <3>1, Cases, DefaultOfUnion
    <3> QED
        BY <2>1, <3>2, <3>3, CaseOfDiscriminator
  <2>3. DefaultConstructed(s) \in UnionValue(s)
    <3>1. CASE HasDefault(s)
        BY <2>1, <2>2, <3>1, AlternativeOfCase DEF DefaultConstructed, UnionValue
    <3>2. CASE ~HasDefault(s)
        BY <2>1, <3>2, Cases DEF DefaultConstructed, UnionValue
    <3> QED
        BY <3>1, <3>2
  <2>4. ASSUME NEW k \in DOMAIN s.cases, CaseOf(s, D) = k
        PROVE  DefaultConstructed(s).held = Alternative(s, k)
    <3>1. CASE HasDefault(s)
        BY <2>4, <3>1 DEF DefaultConstructed
    <3>2. CASE ~HasDefault(s)
      <4>1. k = 1
          BY <2>4, <3>2, DefaultOfUnion, Cases
      <4> QED
          BY <3>2, <4>1, AlternativeOfCase DEF DefaultConstructed
    <3> QED
        BY <3>1, <3>2
  <2>5. DefaultConstructed(s).d = D
      BY DEF DefaultConstructed
  <2> QED
      BY <2>3, <2>4, <2>5 DEF Holds
<1>2. ASSUME NEW k \in DOMAIN s.cases, NEW u \in Contents, NEW e \in Discriminators,
             CaseOf(s, e) = k
      PROVE  Setter(s, k, u, e) \in UnionValue(s) /\ Holds(s, Setter(s, k, u, e))
    BY <1>2, AlternativeOfCase DEF Setter, UnionValue, Holds
<1> QED
    BY <1>1, <1>2

(* What a read of a union that was written makes of another.               *)
LEMMA ReadOfWritten ==
    ASSUME NEW s \in Shapes, NEW into \in UnionValue(s), NEW a \in UnionValue(s), NEW key \in BOOLEAN
    PROVE  LET read == ReadUnion(s, into, WriteUnion(s, a, key))
           IN  IF CaseOf(s, a.d) = NoCase
               THEN read = IF CaseOf(s, into.d) = NoCase THEN [into EXCEPT !.d = a.d] ELSE Thrown
               ELSE \E u \in Contents :
                       /\ read = Setter(s, CaseOf(s, a.d), u, a.d)
                       /\ ~key => u = a.value
<1> DEFINE w == WriteUnion(s, a, key)
           k == CaseOf(s, a.d)
           read == ReadUnion(s, into, w)
<1>1. a.d \in Discriminators /\ a.value \in Contents /\ into.d \in Discriminators
    BY DEF UnionValue
<1>2. w.d = a.d
    BY DEF WriteUnion
<1>3. CASE k = NoCase
  <2>1. Compatible(s, into.d, a.d) <=> CaseOf(s, into.d) = NoCase
      BY <1>1, <1>3, CompatibleNamesCase
  <2>2. read = IF ~Compatible(s, into.d, a.d) THEN Thrown ELSE [into EXCEPT !.d = a.d]
      BY <1>2, <1>3 DEF ReadUnion
  <2> QED
      BY <1>3, <2>1, <2>2
<1>4. CASE k # NoCase
  <2> DEFINE u == IF w.branch = NoBranch THEN Fresh ELSE CHOOSE v \in w.branch : TRUE
             labels == s.cases[k].labels
             single == Len(labels) = 1 /\ Head(labels) # DefaultLabel
  <2>1. k \in DOMAIN s.cases
      BY <1>1, <1>4, CaseOfDiscriminator
  <2>2. w.branch = IF key /\ s.switchIsKey THEN {} ELSE {a.value}
      BY <1>4 DEF WriteUnion, NoBranch
  <2>3. u \in Contents /\ (~key => u = a.value)
    <3>1. CASE key /\ s.switchIsKey
        BY <2>2, <3>1, FreshContent DEF NoBranch
    <3>2. CASE ~(key /\ s.switchIsKey)
      <4>1. w.branch = {a.value}
          BY <2>2, <3>2
      <4>2. u = a.value
          BY <4>1 DEF NoBranch
      <4> QED
          BY <1>1, <4>2
    <3> QED
        BY <3>1, <3>2
  <2>4. read = Setter(s, k, u, IF single THEN LabelOf(s, k) ELSE a.d)
      BY <1>2, <1>4 DEF ReadUnion
  <2>5. single => LabelOf(s, k) = a.d
    <3>1. SUFFICES ASSUME single  PROVE LabelOf(s, k) = a.d
        OBVIOUS
    <3>2. labels \in Seq(Discriminators \cup {DefaultLabel}) /\ Len(labels) = 1
        BY <2>1, <3>1, Cases
    <3>3. DOMAIN labels = 1 .. 1 /\ Head(labels) = labels[1]
        BY <3>2, LenProperties, HeadTailProperties, EmptySeq
    <3>4. Labels(s, k) = {Head(labels)}
        BY <3>3 DEF Labels, Range
    <3>5. DefaultLabel \notin Labels(s, k)
        BY <3>1, <3>4
    <3>6. a.d \in Labels(s, k)
        BY <1>1, <2>1, <3>5, CaseOfDiscriminator
    <3> QED
        BY <3>1, <3>4, <3>6 DEF LabelOf
  <2>6. read = Setter(s, k, u, a.d)
      BY <2>4, <2>5
  <2> QED
      BY <1>4, <2>3, <2>6
<1> QED
    BY <1>3, <1>4

(* Initially both are default constructed.                                 *)
LEMMA UnionInitially == UnionInit => UnionInv
<1> SUFFICES ASSUME UnionInit  PROVE UnionInv
    OBVIOUS
<1>1. shape \in Shapes
    BY DEF UnionInit
<1> QED
    BY <1>1, MadeHolds DEF UnionInit, UnionInv, UnionState, Whole

(* An assignment of a whole union that holds its branch.                   *)
LEMMA BecomesHolding ==
    ASSUME UnionInv, NEW o \in Objects, NEW new \in UnionValue(shape), Holds(shape, new),
           Becomes(o, new)
    PROVE  UnionInv'
BY DEF UnionInv, UnionState, Becomes, Whole, Holds, UnionValue

(* A step of one of the objects.                                           *)
LEMMA UnionStep ==
    ASSUME UnionInv, NEW o \in Objects,
           \/ SetBranch(o) \/ InterruptedSet(o) \/ SetThroughReference(o)
           \/ SetDiscriminator(o) \/ SetDefault(o)
           \/ \E p \in Objects : Copy(o, p) \/ StreamUnion(o, p)
    PROVE  UnionInv'
<1>0. /\ shape \in Shapes /\ unions \in [Objects -> UnionValue(shape)]
      /\ interrupted \subseteq Objects
      /\ \A p \in Objects \ interrupted : Holds(shape, unions[p])
    BY DEF UnionInv, UnionState, Whole
<1>1. CASE SetBranch(o)
  <2>1. PICK k \in DOMAIN shape.cases, u \in Contents, e \in Discriminators :
            Compatible(shape, LabelOf(shape, k), e) /\ Becomes(o, Setter(shape, k, u, e))
      BY <1>1 DEF SetBranch
  <2>2. CaseOf(shape, e) = k
      BY <1>0, <2>1, LabelNamesCase, CompatibleNamesCase
  <2> QED
      BY <1>0, <2>1, <2>2, MadeHolds, BecomesHolding
<1>2. CASE InterruptedSet(o)
  <2>1. PICK e \in Discriminators, held \in {unions[o].held, Valueless} :
            /\ unions' = [unions EXCEPT ![o].d = e, ![o].held = held]
            /\ interrupted' = interrupted \cup {o} /\ shape' = shape
      BY <1>2 DEF InterruptedSet
  <2>2. unions'[o] = [unions[o] EXCEPT !.d = e, !.held = held]
      BY <1>0, <2>1
  <2>3. unions'[o] \in UnionValue(shape)
      BY <1>0, <2>1, <2>2 DEF UnionValue
  <2>4. /\ \A p \in Objects \ {o} : unions'[p] = unions[p]
        /\ unions' \in [Objects -> UnionValue(shape)]
      BY <1>0, <2>1, <2>3
  <2> QED
      BY <1>0, <2>1, <2>4 DEF UnionInv, UnionState, Whole, Holds, UnionValue
<1>3. CASE SetThroughReference(o)
  <2>1. PICK u \in Contents : /\ unions' = [unions EXCEPT ![o].value = u]
                              /\ UNCHANGED <<shape, interrupted>>
      BY <1>3 DEF SetThroughReference
  <2> QED
      BY <1>0, <2>1 DEF UnionInv, UnionState, Whole, Holds, UnionValue
<1>4. CASE SetDiscriminator(o) \/ SetDefault(o)
  <2>1. PICK e \in Discriminators : /\ unions' = [unions EXCEPT ![o].d = e]
                                    /\ UNCHANGED <<shape, interrupted>>
                                    /\ \/ CaseOf(shape, e) = CaseOf(shape, unions[o].d)
                                       \/ CaseOf(shape, e) = NoCase
    <3>1. unions[o].d \in Discriminators
        BY <1>0 DEF UnionValue
    <3>2. CASE SetDiscriminator(o)
        BY <1>0, <3>1, <3>2, CompatibleNamesCase DEF SetDiscriminator
    <3>3. CASE SetDefault(o)
      <4>1. ImplicitDefault(shape)
          BY <3>3 DEF SetDefault
      <4>2. /\ CaseOf(shape, DefaultDiscriminator(shape)) = NoCase
            /\ DefaultDiscriminator(shape) \in Discriminators
          BY <1>0, <4>1, DefaultOfUnion DEF ImplicitDefault
      <4> QED
          BY <1>0, <3>3, <4>2, CompatibleNamesCase DEF SetDefault
    <3> QED
        BY <1>4, <3>2, <3>3
  <2>2. \A k \in DOMAIN shape.cases : k # NoCase
      BY <1>0, Cases
  <2> QED
      BY <1>0, <2>1, <2>2 DEF UnionInv, UnionState, Whole, Holds, UnionValue
<1>5. CASE \E p \in Objects : Copy(o, p)
  <2>1. PICK p \in Objects : Becomes(o, unions[p]) /\ p \notin interrupted
      BY <1>5 DEF Copy
  <2> QED
      BY <1>0, <2>1, BecomesHolding
<1>6. CASE \E p \in Objects : StreamUnion(o, p)
  <2>1. PICK p \in Objects, key \in BOOLEAN, fresh \in BOOLEAN :
            LET into == IF fresh THEN DefaultConstructed(shape) ELSE unions[o]
                read == ReadUnion(shape, into, WriteUnion(shape, unions[p], key))
            IN  IF read = Thrown THEN UNCHANGED unionVars ELSE Becomes(o, read)
      BY <1>6 DEF StreamUnion
  <2> DEFINE into == IF fresh THEN DefaultConstructed(shape) ELSE unions[o]
             read == ReadUnion(shape, into, WriteUnion(shape, unions[p], key))
  <2>2. into \in UnionValue(shape) /\ unions[p] \in UnionValue(shape)
      BY <1>0, MadeHolds
  <2>3. unions[p].d \in Discriminators
      BY <2>2 DEF UnionValue
  <2>4. read = Thrown \/ (read \in UnionValue(shape) /\ Holds(shape, read))
    <3>1. CASE CaseOf(shape, unions[p].d) = NoCase
      <4>1. read \in {Thrown, [into EXCEPT !.d = unions[p].d]}
          BY <1>0, <2>2, <3>1, ReadOfWritten
      <4>2. \A k \in DOMAIN shape.cases : k # NoCase
          BY <1>0, Cases
      <4>3. [into EXCEPT !.d = unions[p].d] \in UnionValue(shape)
          BY <2>2, <2>3 DEF UnionValue
      <4>4. [into EXCEPT !.d = unions[p].d].d = unions[p].d
          BY <2>2 DEF UnionValue
      <4> QED
          BY <3>1, <4>1, <4>2, <4>3, <4>4 DEF Holds
    <3>2. CASE CaseOf(shape, unions[p].d) # NoCase
      <4>1. PICK u \in Contents :
                read = Setter(shape, CaseOf(shape, unions[p].d), u, unions[p].d)
          BY <1>0, <2>2, <3>2, ReadOfWritten
      <4> QED
          BY <1>0, <2>3, <3>2, <4>1, CaseOfDiscriminator, MadeHolds
    <3> QED
        BY <3>1, <3>2
  <2>5. CASE read = Thrown
      BY <1>0, <2>1, <2>5 DEF unionVars, UnionInv, UnionState, Whole, Holds, UnionValue
  <2>6. CASE read # Thrown
      BY <2>1, <2>4, <2>6, BecomesHolding
  <2> QED
      BY <2>5, <2>6
<1> QED
    BY <1>1, <1>2, <1>3, <1>4, <1>5, <1>6

(* UnionInv is an invariant.                                               *)
THEOREM UnionInvariant == UnionSpec => []UnionInv
<1>1. UnionInv /\ [UnionNext]_unionVars => UnionInv'
  <2>1. ASSUME UnionInv, UnionNext  PROVE UnionInv'
      BY <2>1, UnionStep DEF UnionNext
  <2>2. ASSUME UnionInv, UNCHANGED unionVars  PROVE UnionInv'
      BY <2>2 DEF unionVars, UnionInv, UnionState, Whole, Holds, UnionValue
  <2> QED
      BY <2>1, <2>2
<1> QED
    BY UnionInitially, <1>1, PTL DEF UnionSpec

(* The parts of UnionsAgree follow: the branch is held, and a union        *)
(* survives a stream.                                                      *)
LEMMA UnionsAgreeByInv == ASSUME UnionInv PROVE UnionsAgree /\ UnionTypeOK
<1>0. /\ shape \in Shapes
      /\ \A o \in Objects : unions[o] \in UnionValue(shape)
      /\ \A o \in Whole : Holds(shape, unions[o])
    BY DEF UnionInv, UnionState
<1>1. UnionTypeOK
    BY <1>0 DEF UnionTypeOK, UnionValue
<1>5. Thrown.d \notin Discriminators
  <2>1. MaxDiscriminator \in Nat
      BY UnionAssumption
  <2> QED
      BY <2>1 DEF Thrown, Discriminators
<1>2. BranchIsHeld
  <2> SUFFICES ASSUME NEW o \in Whole, CaseOf(shape, unions[o].d) # NoCase
               PROVE  unions[o].held = Alternative(shape, CaseOf(shape, unions[o].d))
      BY DEF BranchIsHeld
  <2>1. unions[o].d \in Discriminators
      BY <1>0 DEF Whole, UnionValue
  <2> QED
      BY <1>0, <2>1, CaseOfDiscriminator DEF Holds
<1>3. ReadsAsWritten
  <2> SUFFICES ASSUME NEW o \in Whole,
                      NEW into \in {DefaultConstructed(shape)} \cup {unions[p] : p \in Objects}
               PROVE  LET read == ReadUnion(shape, into, WriteUnion(shape, unions[o], FALSE))
                      IN  IF read = Thrown
                          THEN /\ CaseOf(shape, unions[o].d) = NoCase
                               /\ CaseOf(shape, into.d) # NoCase
                          ELSE EqualUnions(shape, read, unions[o])
      BY DEF ReadsAsWritten
  <2> DEFINE a == unions[o]
             read == ReadUnion(shape, into, WriteUnion(shape, a, FALSE))
  <2>1. into \in UnionValue(shape) /\ a \in UnionValue(shape)
      BY <1>0, MadeHolds DEF Whole
  <2>2. CASE CaseOf(shape, a.d) = NoCase /\ CaseOf(shape, into.d) = NoCase
    <3>1. read = [into EXCEPT !.d = a.d]
        BY <1>0, <2>1, <2>2, ReadOfWritten
    <3>2. read.d = a.d /\ a.d \in Discriminators
        BY <2>1, <3>1 DEF UnionValue
    <3>3. read # Thrown
        BY <1>5, <3>2
    <3> QED
        BY <2>2, <3>2, <3>3 DEF EqualUnions
  <2>3. CASE CaseOf(shape, a.d) = NoCase /\ CaseOf(shape, into.d) # NoCase
    <3>1. read = Thrown
        BY <1>0, <2>1, <2>3, ReadOfWritten
    <3> QED
        BY <2>3, <3>1
  <2>4. CASE CaseOf(shape, a.d) # NoCase
    <3>1. read = Setter(shape, CaseOf(shape, a.d), a.value, a.d)
        BY <1>0, <2>1, <2>4, ReadOfWritten
    <3>2. read.d = a.d /\ read.value = a.value /\ a.d \in Discriminators
      <4>1. a.d \in Discriminators
          BY <2>1 DEF UnionValue
      <4> HIDE DEF read
      <4> QED
          BY <3>1, <4>1 DEF Setter
    <3>3. read # Thrown
        BY <1>5, <3>2
    <3> QED
        BY <3>2, <3>3 DEF EqualUnions
  <2> QED
      BY <2>2, <2>3, <2>4
<1>4. EqualAsWritten
    BY DEF EqualAsWritten, EqualUnions, WriteUnion, NoBranch
<1> QED
    BY <1>1, <1>2, <1>3, <1>4 DEF UnionsAgree, UnionReadsBack

(* Whatever setters, copies and reads there were, and whatever the labels  *)
(* of the union type: the variant holds the branch that the discriminator  *)
(* names, and what is written is read back as an equal union (types.c,     *)
(* streamers.c).                                                           *)
THEOREM UnionsStayAgreed == UnionSpec => []UnionsAgree
BY UnionInvariant, UnionsAgreeByInv, PTL

(* The discriminator, the branch and the value of a union have their       *)
(* types.                                                                  *)
THEOREM UnionTypeCorrect == UnionSpec => []UnionTypeOK
BY UnionInvariant, UnionsAgreeByInv, PTL

-----------------------------------------------------------------------------
(***************************************************************************)
(* Samples between the C library and the application.                      *)
(***************************************************************************)
Makers == Callers \cup {"receiver", "loan"}

Bodies ==
    [life : {"none", "live", "freed"}, refs : Int, instance : Instances \cup {AnyInstance},
     m_t : SUBSET (Serdatas \X Makers), loan : BOOLEAN, bytes : BOOLEAN]

GettingCalls == [op : {"getT"}, sd : Serdatas, own : SUBSET (Serdatas \X Callers)]
ReadingCalls ==
    [op : {"read"}, take : BOOLEAN, loaned : BOOLEAN, got : Seq(Serdatas), todo : SUBSET Serdatas]

BodiesTyped == serdata \in [Serdatas -> Bodies] /\ loanRefs \in [Serdatas -> Int]

PlacesTyped ==
    /\ transport \subseteq Serdatas
    /\ incoming \in Serdatas \cup {Null}
    /\ cache \in Seq([sd : Serdatas, seen : BOOLEAN])
    /\ kept \subseteq Serdatas
    /\ readerOpen \in BOOLEAN
    /\ call \in [Callers -> {Idle} \cup GettingCalls \cup ReadingCalls]
    /\ samples \in [Callers -> Seq(Serdatas)]
    /\ ref \in Serdatas \cup {Null}
    /\ leaked \subseteq Serdatas
    /\ taken \in [Serdatas -> Nat]

ReadTyped == BodiesTyped /\ PlacesTyped

Reading(c) == call[c].op = "read"
Getting(c) == call[c].op = "getT"
Born(s) == serdata[s].life # "none"

(* A serdata is delivered once: the C library has it at one place, and one *)
(* read at a time passes it on.                                            *)
InOnePlace ==
    /\ \A i, j \in DOMAIN cache : cache[i].sd = cache[j].sd => i = j
    /\ incoming \notin Range(Cached)
    /\ kept \cap (Range(Cached) \cup {incoming}) = {}
    /\ \A c \in Callers : Reading(c) => call[c].todo \subseteq Range(Cached)
    /\ \A c, d \in Callers : Reading(c) /\ Reading(d) => c = d

(* An object is that of one serdata. Who makes one in getT() has not       *)
(* published it, and the C library keeps the serdata meanwhile.            *)
ObjectsOwned ==
    /\ \A s \in Serdatas : serdata[s].m_t \subseteq {s} \X Makers
    /\ \A s \in Serdatas : serdata[s].m_t # {} => Born(s)
    /\ \A c \in Callers : Getting(c) =>
           /\ call[c].sd \in kept
           /\ call[c].own \subseteq {<<call[c].sd, c>>}
           /\ <<call[c].sd, c>> \notin serdata[call[c].sd].m_t

(* What the application has or is to get has an object.                    *)
ToBeRead ==
    Referred \cup Range(Cached) \cup ({incoming} \ {Null})
        \cup UNION {Range(call[c].got) : c \in {d \in Callers : Reading(d)}}

ObjectsThere == \A s \in ToBeRead : serdata[s].m_t # {}

(* What is new is nobody's yet.                                            *)
NewIsFree ==
    /\ \A s \in transport : Born(s)
    /\ \A s \in Serdatas : taken[s] > 0 => Born(s) /\ s # incoming

HeldFinite == \A s \in Serdatas : IsFiniteSet(HeldByCallers(s))

ReadInv ==
    /\ ReadTyped /\ InOnePlace /\ ObjectsOwned /\ ObjectsThere /\ NewIsFree /\ HeldFinite
    /\ OwnershipIsExact

-----------------------------------------------------------------------------
(* Counting: occurrences in a sequence, members of a set.                  *)
In(s, X) == IF s \in X THEN 1 ELSE 0

LEMMA OneType == \A s, t : One(s, t) \in {0, 1} /\ One(s, t) \in Int /\ -One(s, t) \in Int
<1>1. \A s, t : One(s, t) = 0 \/ One(s, t) = 1
  BY DEF One
<1> QED
  BY <1>1

LEMMA ReferredAre ==
    /\ \A s : s \in Referred <=>
           (s = ref /\ ref # Null) \/ \E c \in Callers : s \in Range(samples[c])
    /\ \A s : s \in Referred' <=>
           (s = ref' /\ ref' # Null) \/ \E c \in Callers : s \in Range(samples'[c])
<1> DEFINE H == UNION {Range(samples[c]) : c \in Callers}
           G == UNION {Range(samples'[c]) : c \in Callers}
<1>1. \A s : s \in H <=> \E c \in Callers : s \in Range(samples[c])
  BY Zenon
<1>2. \A s : s \in G <=> \E c \in Callers : s \in Range(samples'[c])
  BY Zenon
<1>3. Referred = ({ref} \ {Null}) \cup H /\ Referred' = ({ref'} \ {Null}) \cup G
  BY DEF Referred, Null
<1> HIDE DEF H, G
<1> QED
  BY <1>1, <1>2, <1>3

LEMMA InCounts ==
    ASSUME NEW s, NEW X
    PROVE  Cardinality({s} \cap X) = In(s, X)
<1>1. CASE s \in X
  <2>1. {s} \cap X = {s}
    BY <1>1
  <2> QED
    BY <1>1, <2>1, FS_Singleton DEF In
<1>2. CASE s \notin X
  <2>1. {s} \cap X = {}
    BY <1>2
  <2> QED
    BY <1>2, <2>1, FS_EmptySet DEF In
<1> QED
  BY <1>1, <1>2

LEMMA OccursType ==
    ASSUME NEW S, NEW q \in Seq(S), NEW s
    PROVE  /\ IsFiniteSet({j \in DOMAIN q : q[j] = s})
           /\ Occurs(s, q) \in Nat
           /\ Occurs(s, q) > 0 <=> s \in Range(q)
<1> DEFINE P == {j \in DOMAIN q : q[j] = s}
<1>1. DOMAIN q = 1 .. Len(q) /\ Len(q) \in Nat
  OBVIOUS
<1>2. IsFiniteSet(P)
  <2>1. P \in SUBSET (1 .. Len(q)) /\ IsFiniteSet(1 .. Len(q))
    BY <1>1, FS_Interval
  <2> QED
    BY <2>1, FS_Subset
<1>3. Cardinality(P) \in Nat /\ (Cardinality(P) = 0 <=> P = {})
  BY <1>2, FS_CardinalityType, FS_EmptySet
<1>4. s \in Range(q) <=> P # {}
  BY DEF Range
<1> QED
  BY <1>2, <1>3, <1>4 DEF Occurs

LEMMA OccursEmpty ==
    ASSUME NEW s
    PROVE  Occurs(s, << >>) = 0
<1>1. {j \in DOMAIN << >> : << >>[j] = s} = {}
  OBVIOUS
<1> QED
  BY <1>1, FS_EmptySet DEF Occurs

LEMMA OccursAppend ==
    ASSUME NEW S, NEW q \in Seq(S), NEW s, NEW t \in S
    PROVE  Occurs(s, Append(q, t)) = Occurs(s, q) + One(s, t)
<1> DEFINE P == {j \in DOMAIN q : q[j] = s}
           R == {j \in DOMAIN Append(q, t) : Append(q, t)[j] = s}
<1>1. /\ DOMAIN q = 1 .. Len(q) /\ Len(q) \in Nat
      /\ DOMAIN Append(q, t) = 1 .. Len(q) + 1
      /\ \A j \in 1 .. Len(q) : Append(q, t)[j] = q[j]
      /\ Append(q, t)[Len(q) + 1] = t
  OBVIOUS
<1>2. IsFiniteSet(P) /\ Cardinality(P) \in Nat
  BY OccursType DEF Occurs
<1>3. Occurs(s, q) = Cardinality(P) /\ Occurs(s, Append(q, t)) = Cardinality(R)
  BY DEF Occurs
<1>4. CASE s = t
  <2>1. R = P \cup {Len(q) + 1} /\ Len(q) + 1 \notin P
    BY <1>1, <1>4
  <2> HIDE DEF P, R
  <2>2. Cardinality(R) = Cardinality(P) + 1
    BY <1>2, <2>1, FS_AddElement
  <2>3. One(s, t) = 1
    BY <1>4 DEF One
  <2> QED
    BY <1>3, <2>2, <2>3
<1>5. CASE s # t
  <2>1. R = P
    BY <1>1, <1>5
  <2> HIDE DEF P, R
  <2>2. One(s, t) = 0
    BY <1>5 DEF One
  <2> QED
    BY <1>2, <1>3, <2>1, <2>2
<1> QED
  BY <1>4, <1>5

(* Where nothing occurs twice, the occurrences are the members.            *)
LEMMA OccursOnce ==
    ASSUME NEW S, NEW q \in Seq(S), NEW s,
           \A i, j \in DOMAIN q : q[i] = q[j] => i = j
    PROVE  Occurs(s, q) = In(s, Range(q))
<1> DEFINE P == {j \in DOMAIN q : q[j] = s}
<1>1. CASE s \in Range(q)
  <2>1. PICK j \in DOMAIN q : q[j] = s
    BY <1>1 DEF Range
  <2>2. P = {j}
    BY <2>1
  <2> QED
    BY <1>1, <2>2, FS_Singleton DEF Occurs, In
<1>2. CASE s \notin Range(q)
  <2>1. P = {}
    BY <1>2 DEF Range
  <2> QED
    BY <1>2, <2>1, FS_EmptySet DEF Occurs, In
<1> QED
  BY <1>1, <1>2

LEMMA RemoveAtElements ==
    ASSUME NEW S, NEW q \in Seq(S), NEW j \in DOMAIN q
    PROVE  /\ RemoveAt(q, j) \in Seq(S)
           /\ Len(RemoveAt(q, j)) = Len(q) - 1
           /\ \A i \in 1 .. Len(q) - 1 : RemoveAt(q, j)[i] = IF i < j THEN q[i] ELSE q[i + 1]
<1>1. Len(q) \in Nat /\ j \in 1 .. Len(q)
  OBVIOUS
<1>2. /\ SubSeq(q, 1, j - 1) \in Seq(S) /\ Len(SubSeq(q, 1, j - 1)) = j - 1
      /\ \A i \in 1 .. j - 1 : SubSeq(q, 1, j - 1)[i] = q[i]
  BY <1>1, SubSeqProperties
<1>3. /\ SubSeq(q, j + 1, Len(q)) \in Seq(S) /\ Len(SubSeq(q, j + 1, Len(q))) = Len(q) - j
      /\ \A i \in 1 .. Len(q) - j : SubSeq(q, j + 1, Len(q))[i] = q[j + i]
  BY <1>1, SubSeqProperties
<1> DEFINE a == SubSeq(q, 1, j - 1)
           b == SubSeq(q, j + 1, Len(q))
<1>4. /\ a \o b \in Seq(S) /\ Len(a \o b) = Len(a) + Len(b)
      /\ \A i \in 1 .. Len(a) + Len(b) : (a \o b)[i] = IF i <= Len(a) THEN a[i] ELSE b[i - Len(a)]
  <2> HIDE DEF a, b
  <2>1. a \in Seq(S) /\ b \in Seq(S)
    BY <1>2, <1>3 DEF a, b
  <2> QED
    BY <2>1, ConcatProperties
<1>5. RemoveAt(q, j) = a \o b
  BY DEF RemoveAt
<1>7. Len(a) = j - 1 /\ Len(b) = Len(q) - j /\ j \in Int
  BY <1>1, <1>2, <1>3
<1>8. /\ \A i \in 1 .. j - 1 : a[i] = q[i]
      /\ \A i \in 1 .. Len(q) - j : b[i] = q[j + i]
  BY <1>2, <1>3
<1> HIDE DEF a, b
<1>6. ASSUME NEW i \in 1 .. Len(q) - 1
      PROVE  RemoveAt(q, j)[i] = IF i < j THEN q[i] ELSE q[i + 1]
  <2>1. CASE i < j
    <3>1. i <= Len(a) /\ i \in 1 .. Len(a) + Len(b) /\ i \in 1 .. j - 1
      BY <1>1, <1>7, <2>1
    <3>2. (a \o b)[i] = a[i] /\ a[i] = q[i]
      BY <1>4, <1>8, <3>1
    <3> QED
      BY <1>5, <2>1, <3>2
  <2>2. CASE ~(i < j)
    <3>0. i \in Int /\ j \in Int /\ Len(q) \in Int /\ j <= i /\ i <= Len(q) - 1 /\ 1 <= i
      BY <1>1, <1>7, <2>2
    <3>1. ~(i <= Len(a)) /\ i \in 1 .. Len(a) + Len(b) /\ i - Len(a) \in 1 .. Len(q) - j
          /\ j + (i - Len(a)) = i + 1
      <4>1. Len(a) = j - 1 /\ Len(b) = Len(q) - j
        BY <1>1, <1>7
      <4>2. ~(i <= j - 1)
        BY <3>0
      <4>3. i \in 1 .. (j - 1) + (Len(q) - j)
        BY <3>0
      <4>4. i - (j - 1) \in 1 .. Len(q) - j
        BY <3>0
      <4>5. j + (i - (j - 1)) = i + 1
        BY <3>0
      <4> QED
        BY <4>1, <4>2, <4>3, <4>4, <4>5
    <3>2. (a \o b)[i] = b[i - Len(a)] /\ b[i - Len(a)] = q[i + 1]
      BY <1>4, <1>8, <3>1
    <3> QED
      BY <1>5, <2>2, <3>2
  <2> QED
    BY <2>1, <2>2
<1>9. Len(a) + Len(b) = Len(q) - 1
  BY <1>1, <1>7
<1> QED
  BY <1>4, <1>5, <1>6, <1>9

(* The threads' references are counted one by one.                         *)
Tag(c, tag, P) == {<<c, tag, j>> : j \in P}

LEMMA Tagged ==
    ASSUME NEW c, NEW tag, NEW P, IsFiniteSet(P)
    PROVE  /\ IsFiniteSet(Tag(c, tag, P))
           /\ Cardinality(Tag(c, tag, P)) = Cardinality(P)
<1> DEFINE T == {<<c, tag, j>> : j \in P}
           f == [j \in P |-> <<c, tag, j>>]
<1>1. f \in Bijection(P, T)
  <2>1. f \in [P -> T]
    OBVIOUS
  <2>2. \A a, b \in P : f[a] = f[b] => a = b
    OBVIOUS
  <2>3. \A x \in T : \E j \in P : f[j] = x
    OBVIOUS
  <2> QED
    BY <2>1, <2>2, <2>3 DEF Bijection, Injection, Surjection, IsInjective
<1> QED
  BY <1>1, FS_Bijection DEF ExistsBijection, Tag

-----------------------------------------------------------------------------
(* The references of one thread.                                           *)
HoldsCount(s, q, r) ==
    Occurs(s, q) + IF r.op = "read" /\ r.loaned THEN Occurs(s, r.got) + Latest(r, s) ELSE 0

LEMMA LatestType ==
    ASSUME NEW r, NEW s
    PROVE  Latest(r, s) \in {0, 1}
  BY DEF Latest, One

LEMMA HoldsCounted ==
    ASSUME NEW c, NEW s, NEW q \in Seq(Serdatas), NEW r,
           r.op = "read" => r.got \in Seq(Serdatas)
    PROVE  /\ IsFiniteSet(RefsOf(c, s, q, r))
           /\ Cardinality(RefsOf(c, s, q, r)) = HoldsCount(s, q, r)
           /\ HoldsCount(s, q, r) \in Nat
<1> DEFINE A == {j \in DOMAIN q : q[j] = s}
           B == {j \in DOMAIN r.got : r.got[j] = s}
           L == 1 .. Latest(r, s)
           TA == Tag(c, "samples", A)
           TB == Tag(c, "got", B)
           TL == Tag(c, "latest", L)
<1>1. IsFiniteSet(A) /\ Cardinality(A) = Occurs(s, q) /\ Occurs(s, q) \in Nat
  BY OccursType DEF Occurs
<1>2. IsFiniteSet(TA) /\ Cardinality(TA) = Occurs(s, q)
  <2> HIDE DEF A
  <2> QED
    BY <1>1, Tagged
<1>3. CASE r.op = "read" /\ r.loaned
  <2>1. IsFiniteSet(B) /\ Cardinality(B) = Occurs(s, r.got) /\ Occurs(s, r.got) \in Nat
    BY <1>3, OccursType DEF Occurs
  <2>2. IsFiniteSet(TB) /\ Cardinality(TB) = Occurs(s, r.got)
    <3> HIDE DEF B
    <3> QED
      BY <2>1, Tagged
  <2>3. IsFiniteSet(L) /\ Cardinality(L) = Latest(r, s) /\ Latest(r, s) \in Nat
    <3>1. CASE Latest(r, s) = 0
      BY <3>1, FS_Interval
    <3>2. CASE Latest(r, s) = 1
      <4>1. L = {1}
        BY <3>2
      <4>2. IsFiniteSet({1}) /\ Cardinality({1}) = 1
        BY FS_Singleton
      <4> HIDE DEF L
      <4>3. IsFiniteSet(L) /\ Cardinality(L) = 1
        BY <4>1, <4>2
      <4> QED
        BY <3>2, <4>3
    <3> QED
      BY <3>1, <3>2, LatestType
  <2>4. IsFiniteSet(TL) /\ Cardinality(TL) = Latest(r, s)
    <3> HIDE DEF L
    <3> QED
      BY <2>3, Tagged
  <2>5. TA \cap TB = {} /\ (TA \cup TB) \cap TL = {}
    BY DEF Tag
  <2>6. RefsOf(c, s, q, r) = TA \cup (TB \cup TL)
    BY <1>3 DEF RefsOf, Tag
  <2> HIDE DEF TA, TB, TL
  <2>7. TB \cap TL = {} /\ TA \cap (TB \cup TL) = {}
    BY <2>5
  <2>8. /\ IsFiniteSet(TB \cup TL)
        /\ Cardinality(TB \cup TL) = Occurs(s, r.got) + Latest(r, s) - Cardinality(TB \cap TL)
    BY <2>2, <2>4, FS_Union
  <2>9. /\ IsFiniteSet(TA \cup (TB \cup TL))
        /\ Cardinality(TA \cup (TB \cup TL))
             = Occurs(s, q) + Cardinality(TB \cup TL) - Cardinality(TA \cap (TB \cup TL))
    <3> DEFINE TR == TB \cup TL
    <3>1. IsFiniteSet(TR) /\ IsFiniteSet(TA) /\ Cardinality(TA) = Occurs(s, q)
      BY <1>2, <2>8
    <3> HIDE DEF TR
    <3>2. IsFiniteSet(TA \cup TR)
          /\ Cardinality(TA \cup TR) = Cardinality(TA) + Cardinality(TR) - Cardinality(TA \cap TR)
      BY <3>1, FS_Union
    <3> QED
      BY <3>1, <3>2 DEF TR
  <2>10. HoldsCount(s, q, r) = Occurs(s, q) + (Occurs(s, r.got) + Latest(r, s))
    BY <1>3 DEF HoldsCount
  <2>11. Cardinality(TB \cap TL) = 0 /\ Cardinality(TA \cap (TB \cup TL)) = 0
    BY <2>7, FS_EmptySet
  <2>12. Cardinality(TA \cup (TB \cup TL)) = HoldsCount(s, q, r)
    BY <1>1, <2>1, <2>3, <2>8, <2>9, <2>10, <2>11
  <2> QED
    BY <1>1, <2>1, <2>3, <2>6, <2>9, <2>10, <2>12
<1>4. CASE ~(r.op = "read" /\ r.loaned)
  <2>1. RefsOf(c, s, q, r) = TA
    BY <1>4 DEF RefsOf, Tag
  <2>2. HoldsCount(s, q, r) = Occurs(s, q)
    BY <1>1, <1>4 DEF HoldsCount
  <2> QED
    BY <1>1, <1>2, <2>1, <2>2
<1> QED
  BY <1>3, <1>4

(* What one thread does to its references counts for all of them.          *)
OfAll(C, f) == UNION {f[d] : d \in C}

LEMMA HeldChange ==
    ASSUME NEW C, NEW f, NEW g, NEW c \in C, 
           IsFiniteSet(OfAll(C, f)), IsFiniteSet(f[c]), IsFiniteSet(g[c]),
           \A d \in C : \A x \in f[d] \cup g[d] : x[1] = d,
           \A d \in C \ {c} : g[d] = f[d]
    PROVE  /\ IsFiniteSet(OfAll(C, g))
           /\ Cardinality(OfAll(C, g)) + Cardinality(f[c])
                = Cardinality(OfAll(C, f)) + Cardinality(g[c])
<1> DEFINE R == UNION {f[d] : d \in C \ {c}}
           F == OfAll(C, f)
           G == OfAll(C, g)
<1>1. F = f[c] \cup R /\ G = g[c] \cup R
  BY DEF OfAll
<1>2. f[c] \cap R = {} /\ g[c] \cap R = {}
  OBVIOUS
<1>3. R \in SUBSET F
  BY DEF OfAll
<1> HIDE DEF R, F, G
<1>4. IsFiniteSet(F)
  BY DEF F
<1>5. IsFiniteSet(R)
  BY <1>3, <1>4, FS_Subset
<1>6. /\ IsFiniteSet(G)
      /\ Cardinality(F) = Cardinality(f[c]) + Cardinality(R)
      /\ Cardinality(G) = Cardinality(g[c]) + Cardinality(R)
  <2>1. Cardinality(f[c]) \in Nat /\ Cardinality(g[c]) \in Nat /\ Cardinality(R) \in Nat
    BY <1>5, FS_CardinalityType
  <2>2. Cardinality(F) = Cardinality(f[c]) + Cardinality(R) - Cardinality(f[c] \cap R)
    BY <1>1, <1>5, FS_Union
  <2>3. /\ IsFiniteSet(G)
        /\ Cardinality(G) = Cardinality(g[c]) + Cardinality(R) - Cardinality(g[c] \cap R)
    BY <1>1, <1>5, FS_Union
  <2>4. Cardinality(f[c] \cap R) = 0 /\ Cardinality(g[c] \cap R) = 0
    BY <1>2, FS_EmptySet
  <2> QED
    BY <2>1, <2>2, <2>3, <2>4
<1>7. Cardinality(f[c]) \in Nat /\ Cardinality(g[c]) \in Nat /\ Cardinality(R) \in Nat
  BY <1>5, FS_CardinalityType
<1> QED
  BY <1>6, <1>7 DEF F, G

-----------------------------------------------------------------------------
(* What Claims counts, and how the threads' part of it changes.            *)
LEMMA CallTypes ==
    ASSUME ReadTyped, NEW c \in Callers
    PROVE  /\ samples[c] \in Seq(Serdatas)
           /\ call[c] = Idle \/ call[c] \in GettingCalls \/ call[c] \in ReadingCalls
           /\ Reading(c) => /\ call[c] \in ReadingCalls
                            /\ call[c].got \in Seq(Serdatas) /\ call[c].todo \subseteq Serdatas
           /\ Getting(c) => /\ call[c] \in GettingCalls
                            /\ call[c].sd \in Serdatas
           /\ call[c] = Idle => ~Reading(c) /\ ~Getting(c)
  BY DEF ReadTyped, BodiesTyped, PlacesTyped, Reading, Getting, Idle, GettingCalls, ReadingCalls

LEMMA CachedType ==
    ASSUME NEW q \in Seq([sd : Serdatas, seen : BOOLEAN])
    PROVE  /\ [j \in DOMAIN q |-> q[j].sd] \in Seq(Serdatas)
           /\ DOMAIN [j \in DOMAIN q |-> q[j].sd] = DOMAIN q
           /\ Len([j \in DOMAIN q |-> q[j].sd]) = Len(q)
           /\ \A j \in DOMAIN q : q[j].sd \in Serdatas
<1>1. DOMAIN q = 1 .. Len(q) /\ Len(q) \in Nat
  OBVIOUS
<1>2. \A j \in 1 .. Len(q) : q[j] \in [sd : Serdatas, seen : BOOLEAN]
  BY ElementOfSeq
<1>3. \A j \in 1 .. Len(q) : q[j].sd \in Serdatas
  BY <1>1, <1>2
<1> DEFINE p == [j \in 1 .. Len(q) |-> q[j].sd]
<1>4. p \in Seq(Serdatas) /\ Len(p) = Len(q) /\ DOMAIN p = 1 .. Len(q)
  BY <1>1, <1>3, IsASeq
<1> QED
  BY <1>1, <1>3, <1>4

(* Counts are natural numbers, and a serdata in the cache is counted.      *)
LEMMA ClaimsType ==
    ASSUME ReadTyped, HeldFinite, NEW s \in Serdatas
    PROVE  /\ Claims(s) = One(s, incoming) + One(s, ref) + Occurs(s, Cached) + In(s, kept)
                            + In(s, leaked) + Cardinality(HeldByCallers(s))
           /\ One(s, incoming) \in {0, 1} /\ One(s, ref) \in {0, 1} /\ Occurs(s, Cached) \in Nat
           /\ In(s, kept) \in {0, 1} /\ In(s, leaked) \in {0, 1}
           /\ Cardinality(HeldByCallers(s)) \in Nat
           /\ Claims(s) \in Nat
           /\ Occurs(s, Cached) > 0 <=> s \in Range(Cached)
           /\ Cardinality(HeldByCallers(s)) = 0 <=> HeldByCallers(s) = {}
<1>1. Claims(s) = One(s, incoming) + One(s, ref) + Occurs(s, Cached) + In(s, kept)
                    + In(s, leaked) + Cardinality(HeldByCallers(s))
  BY InCounts DEF Claims
<1>2. One(s, incoming) \in {0, 1} /\ One(s, ref) \in {0, 1}
  BY DEF One
<1>3. In(s, kept) \in {0, 1} /\ In(s, leaked) \in {0, 1}
  BY DEF In
<1>4. Occurs(s, Cached) \in Nat /\ (Occurs(s, Cached) > 0 <=> s \in Range(Cached))
  <2>1. Cached \in Seq(Serdatas)
    BY CachedType DEF Cached, ReadTyped, BodiesTyped, PlacesTyped
  <2> HIDE DEF Cached
  <2> QED
    BY <2>1, OccursType
<1>5. /\ Cardinality(HeldByCallers(s)) \in Nat
      /\ Cardinality(HeldByCallers(s)) = 0 <=> HeldByCallers(s) = {}
  BY FS_CardinalityType, FS_EmptySet DEF HeldFinite
<1>6. Claims(s) \in Nat
  BY <1>1, <1>2, <1>3, <1>4, <1>5
<1> QED
  BY <1>1, <1>2, <1>3, <1>4, <1>5, <1>6

(* What nobody claims is at none of the places.                            *)
LEMMA Unclaimed ==
    ASSUME ReadTyped, HeldFinite, NEW s \in Serdatas, Claims(s) = 0
    PROVE  /\ s # incoming /\ s # ref /\ s \notin Range(Cached) /\ s \notin kept /\ s \notin leaked
           /\ \A c \in Callers : s \notin Range(samples[c])
<1>1. /\ One(s, incoming) = 0 /\ One(s, ref) = 0 /\ Occurs(s, Cached) = 0
      /\ In(s, kept) = 0 /\ In(s, leaked) = 0 /\ Cardinality(HeldByCallers(s)) = 0
  BY ClaimsType
<1>2. HeldByCallers(s) = {} /\ s \notin Range(Cached)
  BY <1>1, ClaimsType
<1>3. s # incoming /\ s # ref /\ s \notin kept /\ s \notin leaked
  BY <1>1 DEF One, In
<1>4. ASSUME NEW c \in Callers, s \in Range(samples[c]) PROVE FALSE
  <2>1. PICK j \in DOMAIN samples[c] : samples[c][j] = s
    BY <1>4 DEF Range
  <2>2. <<c, "samples", j>> \in RefsOf(c, s, samples[c], call[c])
    BY <2>1 DEF RefsOf
  <2> QED
    BY <1>2, <2>2 DEF HeldByCallers
<1> QED
  BY <1>2, <1>3, <1>4

(* The references of the threads change as those of the one that acts.     *)
LEMMA HeldStep ==
    ASSUME ReadTyped, HeldFinite, NEW s \in Serdatas, NEW c \in Callers,
           samples'[c] \in Seq(Serdatas), call'[c].op = "read" => call'[c].got \in Seq(Serdatas),
           \A d \in Callers \ {c} : samples'[d] = samples[d] /\ call'[d] = call[d]
    PROVE  /\ IsFiniteSet(HeldByCallers(s)')
           /\ Cardinality(HeldByCallers(s)')
                = Cardinality(HeldByCallers(s)) + HoldsCount(s, samples'[c], call'[c])
                    - HoldsCount(s, samples[c], call[c])
<1> DEFINE f == [d \in Callers |-> RefsOf(d, s, samples[d], call[d])]
           g == [d \in Callers |-> RefsOf(d, s, samples'[d], call'[d])]
<1>1. HeldByCallers(s) = OfAll(Callers, f)
  BY DEF HeldByCallers, OfAll
<1>2. HeldByCallers(s)' = OfAll(Callers, g)
  BY DEF HeldByCallers, OfAll
<1>3. /\ IsFiniteSet(f[c]) /\ Cardinality(f[c]) = HoldsCount(s, samples[c], call[c])
      /\ HoldsCount(s, samples[c], call[c]) \in Nat
  BY HoldsCounted, CallTypes DEF Reading
<1>4. /\ IsFiniteSet(g[c]) /\ Cardinality(g[c]) = HoldsCount(s, samples'[c], call'[c])
      /\ HoldsCount(s, samples'[c], call'[c]) \in Nat
  BY HoldsCounted
<1>5. \A d \in Callers : \A x \in f[d] \cup g[d] : x[1] = d
  BY DEF RefsOf
<1>6. \A d \in Callers \ {c} : g[d] = f[d]
  OBVIOUS
<1>7. IsFiniteSet(HeldByCallers(s)) /\ Cardinality(HeldByCallers(s)) \in Nat
  BY ClaimsType DEF HeldFinite
<1> HIDE DEF f, g
<1>8. /\ IsFiniteSet(OfAll(Callers, g))
      /\ Cardinality(OfAll(Callers, g)) + Cardinality(f[c])
           = Cardinality(OfAll(Callers, f)) + Cardinality(g[c])
  <2>1. IsFiniteSet(OfAll(Callers, f))
    BY <1>1, <1>7
  <2>2. IsFiniteSet(f[c]) /\ IsFiniteSet(g[c])
    BY <1>3, <1>4
  <2>3. /\ \A d \in Callers : \A x \in f[d] \cup g[d] : x[1] = d
        /\ \A d \in Callers \ {c} : g[d] = f[d]
    BY <1>5, <1>6
  <2> QED
    BY <2>1, <2>2, <2>3, HeldChange
<1>9. Cardinality(OfAll(Callers, g)) \in Nat
  BY <1>8, FS_CardinalityType
<1>10. Cardinality(OfAll(Callers, g)) = Cardinality(OfAll(Callers, f))
            + HoldsCount(s, samples'[c], call'[c]) - HoldsCount(s, samples[c], call[c])
  <2>1. Cardinality(OfAll(Callers, f)) \in Nat
    BY <1>1, <1>7
  <2> QED
    BY <1>3, <1>4, <1>8, <1>9, <2>1
<1> QED
  BY <1>1, <1>2, <1>8, <1>10

(* The same of the claims after a step.                                    *)
LEMMA ClaimsNext ==
    ASSUME cache' \in Seq([sd : Serdatas, seen : BOOLEAN]), HeldFinite', NEW s \in Serdatas
    PROVE  /\ Claims(s)' = One(s, incoming') + One(s, ref') + Occurs(s, Cached') + In(s, kept')
                            + In(s, leaked') + Cardinality(HeldByCallers(s)')
           /\ Claims(s)' \in Nat
           /\ s \in kept' => Claims(s)' > 0
<1>1. Claims(s)' = One(s, incoming') + One(s, ref') + Occurs(s, Cached') + In(s, kept')
                     + In(s, leaked') + Cardinality(HeldByCallers(s)')
  BY InCounts DEF Claims
<1>2. One(s, incoming') \in {0, 1} /\ One(s, ref') \in {0, 1}
  BY DEF One
<1>3. In(s, kept') \in {0, 1} /\ In(s, leaked') \in {0, 1} /\ (s \in kept' => In(s, kept') = 1)
  BY DEF In
<1>4. Occurs(s, Cached') \in Nat
  <2>1. Cached' \in Seq(Serdatas)
    BY CachedType DEF Cached
  <2> HIDE DEF Cached
  <2> QED
    BY <2>1, OccursType
<1>5. Cardinality(HeldByCallers(s)') \in Nat
  BY FS_CardinalityType DEF HeldFinite
<1> QED
  BY <1>1, <1>2, <1>3, <1>4, <1>5

(* What a step does that gives references up or takes some, when it counts *)
(* them right and leaves the calls of getT() alone.                        *)
LEMMA RefStep ==
    ASSUME ReadInv, NEW n \in [Serdatas -> Int], Ref(n),
           \A s \in Serdatas : Claims(s)' = Claims(s) + n[s] /\ Claims(s)' \in Nat,
           \A s \in Serdatas : n[s] > 0 => Claims(s) > 0,
           \A c \in Callers : Getting(c) \/ Getting(c)' => call'[c] = call[c],
           \A c \in Callers : Getting(c) => Claims(call[c].sd)' > 0,
           transport' = transport
    PROVE  /\ serdata' \in [Serdatas -> Bodies] /\ loanRefs' \in [Serdatas -> Int]
           /\ \A s \in Serdatas : /\ serdata'[s].m_t = serdata[s].m_t
                                  /\ Born(s)' <=> Born(s)
           /\ ReferencesExact' /\ ObjectsExact' /\ LoansExact'
<1>0. ReadTyped /\ ReferencesExact /\ ObjectsExact /\ LoansExact /\ ObjectsOwned /\ HeldFinite
  BY DEF ReadInv, OwnershipIsExact
<1>1. ASSUME NEW s \in Serdatas
      PROVE  /\ serdata[s] \in Bodies
             /\ serdata[s].refs \in Int /\ serdata[s].refs = Claims(s) /\ serdata[s].refs >= 0
             /\ serdata[s].refs > 0 <=> serdata[s].life = "live"
             /\ serdata[s].life \in {"none", "live", "freed"}
  BY <1>0, ClaimsType DEF ReadTyped, BodiesTyped, PlacesTyped, ReferencesExact, Bodies
<1>2. ASSUME NEW s \in Serdatas
      PROVE  serdata'[s] = [serdata[s] EXCEPT !.refs = serdata[s].refs + n[s],
                              !.life = IF s \in Dead(n) THEN "freed" ELSE serdata[s].life]
  BY DEF Ref
<1>3. ASSUME NEW s \in Serdatas
      PROVE  /\ serdata'[s] \in Bodies
             /\ serdata'[s].refs = serdata[s].refs + n[s]
             /\ serdata'[s].life = IF s \in Dead(n) THEN "freed" ELSE serdata[s].life
             /\ serdata'[s].m_t = serdata[s].m_t
             /\ serdata'[s].loan = serdata[s].loan
  <2>1. serdata[s] \in Bodies /\ n[s] \in Int
    BY <1>1
  <2>2. serdata[s].refs + n[s] \in Int
    BY <1>1, <2>1
  <2> DEFINE life == IF s \in Dead(n) THEN "freed" ELSE serdata[s].life
             refs == serdata[s].refs + n[s]
  <2>3. life \in {"none", "live", "freed"}
    BY <1>1
  <2>4. serdata'[s] = [serdata[s] EXCEPT !.refs = refs, !.life = life]
    BY <1>2
  <2> SUFFICES /\ serdata'[s] \in Bodies
               /\ serdata'[s].refs = refs
               /\ serdata'[s].life = life
               /\ serdata'[s].m_t = serdata[s].m_t
               /\ serdata'[s].loan = serdata[s].loan
    OBVIOUS
  <2>5. refs \in Int
    BY <2>2
  <2> HIDE DEF life, refs
  <2> QED
    BY <2>1, <2>3, <2>4, <2>5 DEF Bodies
<1>4. serdata' \in [Serdatas -> Bodies]
  BY <1>3 DEF Ref
<1>5. loanRefs' \in [Serdatas -> Int]
  <2>1. \A s \in Serdatas : loanRefs[s] \in Int
    BY <1>0 DEF ReadTyped, BodiesTyped, PlacesTyped
  <2> DEFINE back(s) == IF s \in Dead(n) /\ serdata[s].loan THEN 1 ELSE 0
  <2>2. \A s \in Serdatas : back(s) \in Int
    OBVIOUS
  <2>3. loanRefs' = [s \in Serdatas |-> loanRefs[s] - back(s)]
    BY DEF Ref
  <2> HIDE DEF back
  <2> QED
    BY <2>1, <2>2, <2>3
<1>6. ASSUME NEW s \in Serdatas
      PROVE  /\ s \in Dead(n) => serdata[s].life = "live" /\ serdata'[s].refs = 0
             /\ s \notin Dead(n) => (serdata'[s].refs > 0 <=> serdata[s].refs > 0)
  <2>1. n[s] \in Int /\ serdata[s].refs + n[s] >= 0 /\ (n[s] > 0 => serdata[s].refs > 0)
    BY <1>1
  <2> QED
    BY <1>1, <1>3, <2>1 DEF Dead
<1>7. ReferencesExact'
  <2> SUFFICES ASSUME NEW s \in Serdatas
               PROVE  /\ serdata'[s].refs = Claims(s)'
                      /\ serdata'[s].refs > 0 <=> serdata'[s].life = "live"
    BY DEF ReferencesExact
  <2>1. serdata'[s].refs = Claims(s)'
    BY <1>1, <1>3
  <2>2. serdata'[s].refs > 0 <=> serdata'[s].life = "live"
    <3>1. CASE s \in Dead(n)
      BY <1>3, <1>6, <3>1
    <3>2. CASE s \notin Dead(n)
      BY <1>1, <1>3, <1>6, <3>2
    <3> QED
      BY <3>1, <3>2
  <2> QED
    BY <2>1, <2>2
<1>8. \A s \in Serdatas : serdata'[s].life = "live" <=> serdata[s].life = "live" /\ s \notin Dead(n)
  BY <1>3
<1>9. ObjectsExact'
  <2> DEFINE D == UNION {OnHeap(serdata[s].m_t) : s \in Dead(n)}
  <2>1. heap = LiveObjects \cup Unpublished /\ heap' = heap \ D
    BY <1>0 DEF ObjectsExact, Ref
  <2>2. \A s \in Serdatas : OnHeap(serdata[s].m_t) \subseteq {s} \X Makers
    BY <1>0 DEF ObjectsOwned, OnHeap
  <2>3. LiveObjects' = LiveObjects \ D
    <3> DEFINE L == {u \in Serdatas : serdata[u].life = "live"}
    <3>1. {u \in Serdatas : serdata'[u].life = "live"} = L \ Dead(n)
      BY <1>8
    <3>2. LiveObjects' = UNION {OnHeap(serdata[s].m_t) : s \in L \ Dead(n)}
      BY <1>3, <3>1 DEF LiveObjects
    <3>3. LiveObjects = UNION {OnHeap(serdata[s].m_t) : s \in L}
      BY DEF LiveObjects
    <3>4. \A s \in L \ Dead(n) : \A u \in Dead(n) :
             OnHeap(serdata[s].m_t) \cap OnHeap(serdata[u].m_t) = {}
      BY <2>2 DEF Dead
    <3> HIDE DEF L
    <3> QED
      BY <3>2, <3>3, <3>4
  <2>4. Unpublished' = Unpublished
    <3>1. {d \in Callers : call'[d].op = "getT"} = {d \in Callers : call[d].op = "getT"}
      BY DEF Getting
    <3>2. \A d \in Callers : call[d].op = "getT" => call'[d] = call[d]
      BY DEF Getting
    <3> QED
      BY <3>1, <3>2 DEF Unpublished
  <2>5. Unpublished \cap D = {}
    <3> SUFFICES ASSUME NEW c \in Callers, Getting(c), NEW x \in call[c].own, NEW s \in Dead(n)
                 PROVE  x \notin OnHeap(serdata[s].m_t)
      BY DEF Unpublished, Getting
    <3>1. call[c].sd \in Serdatas /\ call[c].own \subseteq {<<call[c].sd, c>>}
      BY <1>0, CallTypes DEF ObjectsOwned
    <3>2. serdata'[call[c].sd].refs > 0
      BY <1>7, <3>1 DEF ReferencesExact
    <3>3. call[c].sd \notin Dead(n)
      BY <1>6, <3>1, <3>2
    <3> QED
      BY <2>2, <3>1, <3>3 DEF Dead
  <2> HIDE DEF D
  <2> QED
    BY <2>1, <2>3, <2>4, <2>5 DEF ObjectsExact
<1>10. LoansExact'
  <2> SUFFICES ASSUME NEW s \in Serdatas
               PROVE  loanRefs'[s] = Cardinality({s} \cap transport)
                        + IF serdata'[s].life = "live" /\ serdata'[s].loan THEN 1 ELSE 0
    BY DEF LoansExact
  <2>1. loanRefs[s] = In(s, transport)
                        + IF serdata[s].life = "live" /\ serdata[s].loan THEN 1 ELSE 0
    BY <1>0, InCounts DEF LoansExact
  <2>2. loanRefs'[s] = loanRefs[s] - IF s \in Dead(n) /\ serdata[s].loan THEN 1 ELSE 0
    BY DEF Ref
  <2>3. s \in Dead(n) => serdata[s].life = "live"
    BY <1>6
  <2>4. serdata'[s].loan = serdata[s].loan
    BY <1>3
  <2>5. In(s, transport) \in {0, 1}
    BY DEF In
  <2>6. loanRefs'[s] = In(s, transport)
                        + IF serdata'[s].life = "live" /\ serdata'[s].loan THEN 1 ELSE 0
    <3>1. CASE s \in Dead(n)
      <4>1. CASE serdata[s].loan
        BY <1>8, <2>1, <2>2, <2>3, <2>4, <2>5, <3>1, <4>1
      <4>2. CASE ~serdata[s].loan
        BY <1>8, <2>1, <2>2, <2>3, <2>4, <2>5, <3>1, <4>2
      <4> QED
        BY <4>1, <4>2
    <3>2. CASE s \notin Dead(n)
      BY <1>8, <2>1, <2>2, <2>4, <2>5, <3>2
    <3> QED
      BY <3>1, <3>2
  <2> QED
    BY <2>6, InCounts
<1>11. \A s \in Serdatas : serdata'[s].m_t = serdata[s].m_t /\ (Born(s)' <=> Born(s))
  BY <1>3, <1>6 DEF Born
<1> QED
  BY <1>4, <1>5, <1>7, <1>9, <1>10, <1>11

-----------------------------------------------------------------------------
(* What is to be read are serdatas.                                        *)
LEMMA ToBeReadType == ASSUME ReadTyped PROVE ToBeRead \subseteq Serdatas
<1>1. Cached \in Seq(Serdatas)
  BY CachedType DEF ReadTyped, PlacesTyped, Cached
<1>2. \A c \in Callers :
         samples[c] \in Seq(Serdatas) /\ (Reading(c) => call[c].got \in Seq(Serdatas))
  BY CallTypes
<1>3. \A q \in Seq(Serdatas) : Range(q) \subseteq Serdatas
  BY DEF Range
<1>4. incoming \in Serdatas \cup {Null} /\ ref \in Serdatas \cup {Null}
  BY DEF ReadTyped, PlacesTyped
<1>5. Range(Cached) \subseteq Serdatas
  BY <1>1, <1>3
<1>6. Referred \subseteq Serdatas
  <2>1. \A c \in Callers : Range(samples[c]) \subseteq Serdatas
    BY <1>2, <1>3
  <2> QED
    BY <1>4, <2>1, ReferredAre
<1>7. \A c \in Callers : Reading(c) => Range(call[c].got) \subseteq Serdatas
  BY <1>2, <1>3
<1> QED
  BY <1>4, <1>5, <1>6, <1>7 DEF ToBeRead

(* What is left to show of a step that counts its references right.        *)
LEMMA RefKeeps ==
    ASSUME ReadInv, NEW n \in [Serdatas -> Int], Ref(n), PlacesTyped', InOnePlace', HeldFinite',
           \A s \in Serdatas : Claims(s)' = Claims(s) + n[s],
           \A s \in Serdatas : n[s] > 0 => Claims(s) > 0,
           \A c \in Callers : Getting(c) \/ Getting(c)' => call'[c] = call[c],
           \A c \in Callers : Getting(c) => call[c].sd \in kept',
           transport' = transport,
           ToBeRead' \subseteq ToBeRead,
           TakenOnce', \A s \in Serdatas : taken'[s] > 0 => Born(s) /\ s # incoming'
    PROVE  ReadInv'
<1>1. ReadTyped /\ ObjectsOwned /\ ObjectsThere /\ NewIsFree
  BY DEF ReadInv
<1>2. \A s \in Serdatas : Claims(s)' \in Nat /\ (s \in kept' => Claims(s)' > 0)
  BY ClaimsNext DEF PlacesTyped
<1>3. \A c \in Callers : Getting(c) => Claims(call[c].sd)' > 0
  BY <1>1, <1>2, CallTypes
<1>4. /\ serdata' \in [Serdatas -> Bodies] /\ loanRefs' \in [Serdatas -> Int]
      /\ \A s \in Serdatas : serdata'[s].m_t = serdata[s].m_t /\ (Born(s)' <=> Born(s))
      /\ ReferencesExact' /\ ObjectsExact' /\ LoansExact'
  BY <1>2, <1>3, RefStep
<1>5. ReadTyped'
  BY <1>4 DEF ReadTyped, BodiesTyped
<1>6. ObjectsOwned'
  <2>1. \A s \in Serdatas :
           serdata'[s].m_t \subseteq {s} \X Makers /\ (serdata'[s].m_t # {} => Born(s)')
    BY <1>1, <1>4 DEF ObjectsOwned
  <2>2. ASSUME NEW c \in Callers, Getting(c)'
        PROVE  /\ call'[c].sd \in kept'
               /\ call'[c].own \subseteq {<<call'[c].sd, c>>}
               /\ <<call'[c].sd, c>> \notin serdata'[call'[c].sd].m_t
    <3>1. call'[c] = call[c] /\ Getting(c)
      BY <2>2 DEF Getting
    <3>2. call[c].sd \in Serdatas
      BY <1>1, <3>1, CallTypes
    <3> QED
      BY <1>1, <1>4, <3>1, <3>2 DEF ObjectsOwned
  <2> QED
    BY <2>1, <2>2 DEF ObjectsOwned
<1>7. ObjectsThere'
  <2>1. ToBeRead \subseteq Serdatas
    BY <1>1, ToBeReadType
  <2> QED
    BY <1>1, <1>4, <2>1 DEF ObjectsThere
<1>8. NewIsFree'
  <2>1. \A s \in transport' : Born(s)'
    BY <1>1, <1>4 DEF NewIsFree, ReadTyped, PlacesTyped
  <2>2. \A s \in Serdatas : taken'[s] > 0 => Born(s)' /\ s # incoming'
    BY <1>4
  <2> QED
    BY <2>1, <2>2 DEF NewIsFree
<1> QED
  BY <1>4, <1>5, <1>6, <1>7, <1>8 DEF ReadInv, OwnershipIsExact

(* The parts of the invariant.                                             *)
LEMMA Parts ==
    ASSUME ReadInv
    PROVE  /\ ReadTyped /\ PlacesTyped /\ BodiesTyped /\ InOnePlace /\ ObjectsOwned /\ ObjectsThere
           /\ NewIsFree /\ HeldFinite
           /\ ReferencesExact /\ ObjectsExact /\ LoansExact /\ TakenOnce
           /\ Null \notin Serdatas /\ Serdatas \subseteq Nat
  BY ReadPathAssumption DEF ReadInv, ReadTyped, OwnershipIsExact, Null, Serdatas

LEMMA HeldSame ==
    ASSUME HeldFinite, samples' = samples, call' = call
    PROVE  /\ HeldFinite'
           /\ \A s : HeldByCallers(s)' = HeldByCallers(s)
<1>1. \A s : HeldByCallers(s)' = HeldByCallers(s)
  BY DEF HeldByCallers
<1> QED
  BY <1>1 DEF HeldFinite

(* Who has a claim knows a serdata that was born.                          *)
LEMMA ClaimedIsBorn ==
    ASSUME ReadInv, NEW s \in Serdatas, Claims(s) > 0
    PROVE  serdata[s].life = "live" /\ Born(s)
  BY Parts DEF ReferencesExact, Born

LEMMA PlacesAreClaims ==
    ASSUME ReadTyped, HeldFinite, NEW s \in Serdatas,
           \/ s \in {incoming, ref} \cup Range(Cached) \cup kept \cup leaked
           \/ \E c \in Callers : s \in Range(samples[c])
    PROVE  Claims(s) > 0
  BY Unclaimed, ClaimsType

LEMMA DropIncomingKeeps == ASSUME ReadInv, DropIncoming PROVE ReadInv'
<1> USE DEF DropIncoming
<1>1. PICK n \in [Serdatas -> Int] : n = [s \in Serdatas |-> -One(s, incoming)]
  BY DEF One
<1>2. PlacesTyped' /\ InOnePlace'
  <2>1. PlacesTyped'
    BY Parts DEF PlacesTyped
  <2>2. Null \notin Range(Cached)'
    BY Parts, CachedType DEF PlacesTyped, Cached, Range
  <2>3. Null \notin kept
    BY Parts DEF PlacesTyped
  <2>4. Cached' = Cached
    BY DEF Cached
  <2> QED
    BY <2>1, <2>2, <2>3, <2>4, Parts DEF InOnePlace, Reading
<1>3. HeldFinite' /\ \A s \in Serdatas : HeldByCallers(s)' = HeldByCallers(s)
  BY Parts, HeldSame
<1>4. \A s \in Serdatas : Claims(s)' = Claims(s) + n[s]
  <2> TAKE s \in Serdatas
  <2>1. Claims(s)' = One(s, incoming') + One(s, ref') + Occurs(s, Cached') + In(s, kept')
                       + In(s, leaked') + Cardinality(HeldByCallers(s)')
    BY <1>2, <1>3, ClaimsNext DEF PlacesTyped
  <2>2. Occurs(s, Cached') = Occurs(s, Cached)
    BY DEF Cached
  <2>3. One(s, incoming') = 0
    BY Parts DEF One
  <2> QED
    BY <1>1, <1>3, <2>1, <2>2, <2>3, Parts, ClaimsType
<1>5. \A s \in Serdatas : ~(n[s] > 0)
  BY <1>1 DEF One
<1>6. ToBeRead' \subseteq ToBeRead
  BY DEF ToBeRead, Referred, Cached, Reading, Null
<1>7. TakenOnce' /\ \A s \in Serdatas : taken'[s] > 0 => Born(s) /\ s # incoming'
  BY Parts DEF TakenOnce, NewIsFree, Cached
<1>8. \A c \in Callers : Getting(c) => call[c].sd \in kept'
  BY Parts DEF ObjectsOwned
<1>9. Ref(n)
  BY <1>1
<1> QED
  BY <1>2, <1>3, <1>4, <1>5, <1>6, <1>7, <1>8, <1>9, RefKeeps

LEMMA LetGoKeeps == ASSUME ReadInv, LetGo PROVE ReadInv'
<1> USE DEF LetGo
<1>0. PICK t \in kept :
         /\ ~\E c \in Callers : call[c].op = "getT" /\ call[c].sd = t
         /\ Ref([u \in Serdatas |-> -One(u, t)])
         /\ kept' = kept \ {t}
  OBVIOUS
<1>1. PICK n \in [Serdatas -> Int] : n = [s \in Serdatas |-> -One(s, t)]
  BY OneType
<1>2. PlacesTyped' /\ InOnePlace'
  <2>1. PlacesTyped'
    BY <1>0, Parts DEF PlacesTyped
  <2>2. Cached' = Cached
    BY DEF Cached
  <2> QED
    BY <1>0, <2>1, <2>2, Parts DEF InOnePlace, Reading
<1>3. HeldFinite' /\ \A s \in Serdatas : HeldByCallers(s)' = HeldByCallers(s)
  BY Parts, HeldSame
<1>4. \A s \in Serdatas : Claims(s)' = Claims(s) + n[s]
  <2> TAKE s \in Serdatas
  <2>1. Claims(s)' = One(s, incoming') + One(s, ref') + Occurs(s, Cached') + In(s, kept')
                       + In(s, leaked') + Cardinality(HeldByCallers(s)')
    BY <1>2, <1>3, ClaimsNext DEF PlacesTyped
  <2>2. Occurs(s, Cached') = Occurs(s, Cached)
    BY DEF Cached
  <2>3. In(s, kept') = In(s, kept) - One(s, t)
    BY <1>0 DEF One, In
  <2>4. One(s, t) \in {0, 1}
    BY DEF One
  <2> QED
    BY <1>1, <1>3, <2>1, <2>2, <2>3, <2>4, Parts, ClaimsType
<1>5. \A s \in Serdatas : ~(n[s] > 0)
  BY <1>1 DEF One
<1>6. ToBeRead' \subseteq ToBeRead
  BY DEF ToBeRead, Referred, Cached, Reading
<1>7. TakenOnce' /\ \A s \in Serdatas : taken'[s] > 0 => Born(s) /\ s # incoming'
  BY Parts DEF TakenOnce, NewIsFree, Cached
<1>8. \A c \in Callers : Getting(c) => call[c].sd \in kept'
  BY <1>0, Parts DEF ObjectsOwned, Getting
<1>9. Ref(n)
  BY <1>0, <1>1
<1> QED
  BY <1>2, <1>3, <1>4, <1>5, <1>6, <1>7, <1>8, <1>9, RefKeeps

(* The SampleRef of the application.                                       *)
LEMMA RefActionKeeps ==
    ASSUME ReadInv, NEW n \in [Serdatas -> Int], Ref(n),
           ref' \in Referred \cup {Null}, leaked' \subseteq Serdatas,
           \A s \in Serdatas :
               n[s] = One(s, ref') + In(s, leaked') - One(s, ref) - In(s, leaked),
           \A s \in Serdatas : n[s] > 0 => s = ref',
           UNCHANGED <<transport, incoming, cache, kept, readerOpen, call, samples, taken>>
    PROVE  ReadInv'
<1>0. Referred \subseteq Serdatas
      /\ \A s \in Referred : s = ref \/ \E c \in Callers : s \in Range(samples[c])
  <2>1. \A c \in Callers : samples[c] \in Seq(Serdatas)
    BY Parts, CallTypes
  <2>2. \A c \in Callers : Range(samples[c]) \subseteq Serdatas
    BY <2>1 DEF Range
  <2>3. ref \in Serdatas \cup {Null}
    BY Parts DEF PlacesTyped
  <2> QED
    BY <2>2, <2>3, ReferredAre
<1>2. PlacesTyped' /\ InOnePlace'
  <2>1. PlacesTyped'
    BY <1>0, Parts DEF PlacesTyped
  <2>2. Cached' = Cached
    BY DEF Cached
  <2> QED
    BY <2>1, <2>2, Parts DEF InOnePlace, Reading
<1>3. HeldFinite' /\ \A s \in Serdatas : HeldByCallers(s)' = HeldByCallers(s)
  BY Parts, HeldSame
<1>4. \A s \in Serdatas : Claims(s)' = Claims(s) + n[s]
  <2> TAKE s \in Serdatas
  <2>1. Claims(s)' = One(s, incoming') + One(s, ref') + Occurs(s, Cached') + In(s, kept')
                       + In(s, leaked') + Cardinality(HeldByCallers(s)')
    BY <1>2, <1>3, ClaimsNext DEF PlacesTyped
  <2>2. Occurs(s, Cached') = Occurs(s, Cached)
    BY DEF Cached
  <2>3. One(s, ref') \in {0, 1} /\ In(s, leaked') \in {0, 1}
    BY DEF One, In
  <2> QED
    BY <1>3, <2>1, <2>2, <2>3, Parts, ClaimsType
<1>5. \A s \in Serdatas : n[s] > 0 => Claims(s) > 0
  BY <1>0, Parts, PlacesAreClaims
<1>6. ToBeRead' \subseteq ToBeRead
  <2>1. Referred' \subseteq Referred
    BY ReferredAre
  <2> QED
    BY <2>1 DEF ToBeRead, Cached, Reading
<1>7. TakenOnce' /\ \A s \in Serdatas : taken'[s] > 0 => Born(s) /\ s # incoming'
  BY Parts DEF TakenOnce, NewIsFree, Cached
<1>8. \A c \in Callers : Getting(c) => call[c].sd \in kept'
  BY Parts DEF ObjectsOwned
<1> QED
  BY <1>2, <1>3, <1>4, <1>5, <1>6, <1>7, <1>8, RefKeeps

LEMMA ConstructRefKeeps == ASSUME ReadInv, ConstructRef PROVE ReadInv'
<1>1. PICK t \in Referred : ref' = t /\ Ref([u \in Serdatas |-> One(u, t)])
  BY DEF ConstructRef
<1>2. PICK n \in [Serdatas -> Int] : n = [s \in Serdatas |-> One(s, t)]
  BY OneType
<1>3. \A s \in Serdatas : n[s] = One(s, ref') + In(s, leaked') - One(s, ref) - In(s, leaked)
  BY <1>1, <1>2, Parts DEF ConstructRef, One, In
<1>4. \A s \in Serdatas : n[s] > 0 => s = ref'
  BY <1>1, <1>2 DEF One
<1>5. leaked' \subseteq Serdatas
  BY Parts DEF ConstructRef, PlacesTyped
<1>6. Ref(n)
  BY <1>1, <1>2
<1> QED
  BY <1>1, <1>3, <1>4, <1>5, <1>6, RefActionKeeps DEF ConstructRef

LEMMA AssignRefKeeps == ASSUME ReadInv, AssignRef PROVE ReadInv'
<1>1. PICK t \in Referred : ref' = t /\ Ref([u \in Serdatas |-> One(u, t)])
  BY DEF AssignRef
<1>2. PICK n \in [Serdatas -> Int] : n = [s \in Serdatas |-> One(s, t)]
  BY OneType
<1>3. \A s \in Serdatas : n[s] = One(s, ref') + In(s, leaked') - One(s, ref) - In(s, leaked)
  BY <1>1, <1>2, Parts DEF AssignRef, One, In
<1>4. \A s \in Serdatas : n[s] > 0 => s = ref'
  BY <1>1, <1>2 DEF One
<1>5. leaked' \subseteq Serdatas
  BY Parts DEF AssignRef, PlacesTyped
<1>6. Ref(n)
  BY <1>1, <1>2
<1> QED
  BY <1>1, <1>3, <1>4, <1>5, <1>6, RefActionKeeps DEF AssignRef

LEMMA DestroyRefKeeps == ASSUME ReadInv, DestroyRef PROVE ReadInv'
<1>2. PICK n \in [Serdatas -> Int] : n = [s \in Serdatas |-> -One(s, ref)]
  BY OneType
<1>3. \A s \in Serdatas : n[s] = One(s, ref') + In(s, leaked') - One(s, ref) - In(s, leaked)
  BY <1>2, Parts DEF DestroyRef, One, In
<1>4. \A s \in Serdatas : n[s] > 0 => s = ref'
  BY <1>2 DEF One
<1>5. leaked' \subseteq Serdatas
  BY Parts DEF DestroyRef, PlacesTyped
<1>6. Ref(n)
  BY <1>2 DEF DestroyRef
<1> QED
  BY <1>3, <1>4, <1>5, <1>6, RefActionKeeps DEF DestroyRef

LEMMA DropSamplesKeeps == ASSUME ReadInv, NEW c \in Callers, DropSamples(c) PROVE ReadInv'
<1> USE DEF DropSamples
<1>0. \A s \in Serdatas : Occurs(s, samples[c]) \in Nat
  BY Parts, CallTypes, OccursType
<1>1. PICK n \in [Serdatas -> Int] : n = [s \in Serdatas |-> -Occurs(s, samples[c])]
  BY <1>0
<1>2. PlacesTyped' /\ InOnePlace'
  <2>1. samples' \in [Callers -> Seq(Serdatas)]
    BY Parts DEF PlacesTyped
  <2>2. PlacesTyped'
    BY <2>1, Parts DEF PlacesTyped
  <2>3. Cached' = Cached
    BY DEF Cached
  <2> QED
    BY <2>2, <2>3, Parts DEF InOnePlace, Reading
<1>3. ASSUME NEW s \in Serdatas
      PROVE  /\ IsFiniteSet(HeldByCallers(s)')
             /\ Cardinality(HeldByCallers(s)') = Cardinality(HeldByCallers(s)) + n[s]
  <2>1. samples'[c] = << >> /\ call'[c] = Idle /\ call[c] = Idle /\ << >> \in Seq(Serdatas)
    BY Parts DEF PlacesTyped
  <2>2. /\ IsFiniteSet(HeldByCallers(s)')
        /\ Cardinality(HeldByCallers(s)')
             = Cardinality(HeldByCallers(s)) + HoldsCount(s, samples'[c], call'[c])
                 - HoldsCount(s, samples[c], call[c])
    <3>1. samples'[c] \in Seq(Serdatas) /\ call'[c].op # "read"
      BY <2>1 DEF Idle
    <3>2. ReadTyped /\ HeldFinite
      BY Parts
    <3>3. \A d \in Callers \ {c} : samples'[d] = samples[d] /\ call'[d] = call[d]
      BY Parts DEF PlacesTyped
    <3> QED
      BY <3>1, <3>2, <3>3, HeldStep
  <2>3. HoldsCount(s, samples'[c], call'[c]) = 0
    BY <2>1, OccursEmpty DEF HoldsCount, Idle
  <2>4. HoldsCount(s, samples[c], call[c]) = Occurs(s, samples[c])
    BY <1>0, <2>1 DEF HoldsCount, Idle
  <2>5. n[s] = -Occurs(s, samples[c]) /\ Occurs(s, samples[c]) \in Nat
    BY <1>0, <1>1
  <2>6. Cardinality(HeldByCallers(s)) \in Nat
    BY Parts, ClaimsType
  <2> QED
    BY <2>2, <2>3, <2>4, <2>5, <2>6
<1>4. HeldFinite' /\ \A s \in Serdatas : Claims(s)' = Claims(s) + n[s]
  <2>1. HeldFinite'
    BY <1>3 DEF HeldFinite
  <2> SUFFICES ASSUME NEW s \in Serdatas PROVE Claims(s)' = Claims(s) + n[s]
    BY <2>1
  <2>2. Claims(s)' = One(s, incoming') + One(s, ref') + Occurs(s, Cached') + In(s, kept')
                       + In(s, leaked') + Cardinality(HeldByCallers(s)')
    BY <1>2, <2>1, ClaimsNext DEF PlacesTyped
  <2>3. Occurs(s, Cached') = Occurs(s, Cached)
    BY DEF Cached
  <2>4. Cardinality(HeldByCallers(s)') = Cardinality(HeldByCallers(s)) + n[s] /\ n[s] \in Int
    BY <1>3
  <2>5. /\ Claims(s) = One(s, incoming) + One(s, ref) + Occurs(s, Cached) + In(s, kept)
                          + In(s, leaked) + Cardinality(HeldByCallers(s))
        /\ One(s, incoming) \in Int /\ One(s, ref) \in Int /\ Occurs(s, Cached) \in Int
        /\ In(s, kept) \in Int /\ In(s, leaked) \in Int
        /\ Cardinality(HeldByCallers(s)) \in Int
    BY Parts, ClaimsType
  <2>6. /\ One(s, incoming') = One(s, incoming) /\ One(s, ref') = One(s, ref)
        /\ In(s, kept') = In(s, kept) /\ In(s, leaked') = In(s, leaked)
    OBVIOUS
  <2> QED
    BY <2>2, <2>3, <2>4, <2>5, <2>6
<1>5. \A s \in Serdatas : ~(n[s] > 0)
  BY <1>0, <1>1
<1>6. ToBeRead' \subseteq ToBeRead
  <2>1. \A d \in Callers : Range(samples'[d]) \subseteq Range(samples[d])
    BY Parts DEF PlacesTyped, Range
  <2>2. Referred' \subseteq Referred
    BY <2>1, ReferredAre
  <2> QED
    BY <2>2 DEF ToBeRead, Cached, Reading
<1>7. TakenOnce' /\ \A s \in Serdatas : taken'[s] > 0 => Born(s) /\ s # incoming'
  BY Parts DEF TakenOnce, NewIsFree, Cached
<1>8. \A d \in Callers : Getting(d) => call[d].sd \in kept'
  BY Parts DEF ObjectsOwned
<1>9. Ref(n)
  BY <1>1
<1> QED
  BY <1>2, <1>4, <1>5, <1>6, <1>7, <1>8, <1>9, RefKeeps

-----------------------------------------------------------------------------
(* How the claims to a serdata change, place by place.                     *)
LEMMA ClaimsChange ==
    ASSUME ReadInv, PlacesTyped', HeldFinite', NEW s \in Serdatas
    PROVE  /\ Claims(s)' = Claims(s) + (One(s, incoming') - One(s, incoming))
                 + (One(s, ref') - One(s, ref)) + (Occurs(s, Cached') - Occurs(s, Cached))
                 + (In(s, kept') - In(s, kept)) + (In(s, leaked') - In(s, leaked))
                 + (Cardinality(HeldByCallers(s)') - Cardinality(HeldByCallers(s)))
           /\ Claims(s) \in Int /\ Occurs(s, Cached') \in Int /\ Occurs(s, Cached) \in Int
           /\ One(s, incoming') \in Int /\ One(s, incoming) \in Int
           /\ One(s, ref') \in Int /\ One(s, ref) \in Int
           /\ In(s, kept') \in Int /\ In(s, kept) \in Int
           /\ In(s, leaked') \in Int /\ In(s, leaked) \in Int
           /\ Cardinality(HeldByCallers(s)') \in Int /\ Cardinality(HeldByCallers(s)) \in Int
<1>1. Claims(s)' = One(s, incoming') + One(s, ref') + Occurs(s, Cached') + In(s, kept')
                     + In(s, leaked') + Cardinality(HeldByCallers(s)')
  BY ClaimsNext DEF PlacesTyped
<1>2. /\ Claims(s) = One(s, incoming) + One(s, ref) + Occurs(s, Cached) + In(s, kept)
                        + In(s, leaked) + Cardinality(HeldByCallers(s))
      /\ Occurs(s, Cached) \in Int /\ Cardinality(HeldByCallers(s)) \in Int
  BY Parts, ClaimsType
<1>3. \A t, u : One(t, u) \in Int
  BY DEF One
<1>4. \A t, X : In(t, X) \in Int
  BY DEF In
<1>5. Occurs(s, Cached') \in Int
  <2>1. Cached' \in Seq(Serdatas)
    BY CachedType DEF Cached, PlacesTyped
  <2> HIDE DEF Cached
  <2>2. Occurs(s, Cached') \in Nat
    BY <2>1, OccursType
  <2> QED
    BY <2>2
<1>6. Cardinality(HeldByCallers(s)') \in Int
  BY FS_CardinalityType DEF HeldFinite
<1>7. /\ One(s, incoming') \in Int /\ One(s, incoming) \in Int
      /\ One(s, ref') \in Int /\ One(s, ref) \in Int
      /\ In(s, kept') \in Int /\ In(s, kept) \in Int
      /\ In(s, leaked') \in Int /\ In(s, leaked) \in Int
  BY <1>3, <1>4
<1>8. Claims(s) \in Int
  BY <1>2, <1>7
<1>9. Claims(s)' = Claims(s) + (One(s, incoming') - One(s, incoming))
                 + (One(s, ref') - One(s, ref)) + (Occurs(s, Cached') - Occurs(s, Cached))
                 + (In(s, kept') - In(s, kept)) + (In(s, leaked') - In(s, leaked))
                 + (Cardinality(HeldByCallers(s)') - Cardinality(HeldByCallers(s)))
  BY <1>1, <1>2, <1>5, <1>6, <1>7
<1> QED
  BY <1>2, <1>5, <1>6, <1>7, <1>8, <1>9

(* A step that leaves the callers' handles, the deserialized samples and   *)
(* the lost references alone changes the claims by what it does to the     *)
(* reader, the cache and the calls.                                        *)
LEMMA ClaimsMove ==
    ASSUME ReadInv, PlacesTyped', HeldFinite', NEW s \in Serdatas, UNCHANGED <<ref, kept, leaked>>
    PROVE  /\ Claims(s)' = Claims(s) + (One(s, incoming') - One(s, incoming))
                 + (Occurs(s, Cached') - Occurs(s, Cached))
                 + (Cardinality(HeldByCallers(s)') - Cardinality(HeldByCallers(s)))
           /\ Claims(s) \in Int /\ Occurs(s, Cached') \in Int /\ Occurs(s, Cached) \in Int
           /\ One(s, incoming') \in Int /\ One(s, incoming) \in Int
           /\ Cardinality(HeldByCallers(s)') \in Int /\ Cardinality(HeldByCallers(s)) \in Int
<1> DEFINE i == One(s, incoming') - One(s, incoming)
           r == One(s, ref') - One(s, ref)
           o == Occurs(s, Cached') - Occurs(s, Cached)
           k == In(s, kept') - In(s, kept)
           l == In(s, leaked') - In(s, leaked)
           h == Cardinality(HeldByCallers(s)') - Cardinality(HeldByCallers(s))
<1>1. /\ Claims(s)' = Claims(s) + i + r + o + k + l + h
      /\ Claims(s) \in Int /\ Occurs(s, Cached') \in Int /\ Occurs(s, Cached) \in Int
      /\ One(s, incoming') \in Int /\ One(s, incoming) \in Int
      /\ One(s, ref) \in Int /\ In(s, kept) \in Int /\ In(s, leaked) \in Int
      /\ Cardinality(HeldByCallers(s)') \in Int /\ Cardinality(HeldByCallers(s)) \in Int
  BY ClaimsChange
<1>2. One(s, ref') = One(s, ref) /\ In(s, kept') = In(s, kept) /\ In(s, leaked') = In(s, leaked)
  OBVIOUS
<1>3. r = 0 /\ k = 0 /\ l = 0
  BY <1>1, <1>2
<1>4. i \in Int /\ o \in Int /\ h \in Int
  BY <1>1
<1>5. Claims(s)' = Claims(s) + i + o + h
  <2> HIDE DEF i, r, o, k, l, h
  <2> QED
    BY <1>1, <1>3, <1>4
<1> QED
  BY <1>1, <1>5

(* A step that counts nothing is one of the references, by 0.              *)
LEMMA NoRef ==
    ASSUME ReadInv, UNCHANGED <<serdata, heap, loanRefs>>
    PROVE  Ref([s \in Serdatas |-> 0])
<1> DEFINE n == [s \in Serdatas |-> 0]
<1>1. \A s \in Serdatas : n[s] = 0
  OBVIOUS
<1>2. Dead(n) = {}
  BY <1>1 DEF Dead
<1>3. serdata \in [Serdatas -> Bodies] /\ loanRefs \in [Serdatas -> Int]
  BY Parts DEF BodiesTyped
<1> HIDE DEF n
<1>4. serdata' = [s \in Serdatas |->
           [serdata[s] EXCEPT !.refs = serdata[s].refs + n[s],
                              !.life = IF s \in Dead(n) THEN "freed" ELSE serdata[s].life]]
  <2>1. ASSUME NEW s \in Serdatas
        PROVE  serdata[s] = [serdata[s] EXCEPT !.refs = serdata[s].refs + n[s],
                              !.life = IF s \in Dead(n) THEN "freed" ELSE serdata[s].life]
    <3>1. serdata[s] \in Bodies
      BY <1>3
    <3>2. serdata[s].refs + n[s] = serdata[s].refs
      BY <1>1, <3>1 DEF Bodies
    <3> QED
      BY <1>2, <3>1, <3>2 DEF Bodies
  <2> QED
    BY <1>3, <2>1
<1>5. heap' = heap \ UNION {OnHeap(serdata[s].m_t) : s \in Dead(n)}
  BY <1>2
<1>6. loanRefs' = [s \in Serdatas |->
           loanRefs[s] - IF s \in Dead(n) /\ serdata[s].loan THEN 1 ELSE 0]
  BY <1>2, <1>3
<1>7. Ref(n)
  BY <1>4, <1>5, <1>6 DEF Ref
<1> QED
  BY <1>7 DEF n

-----------------------------------------------------------------------------
(* The serdatas of a cache.                                                *)
Samples == [sd : Serdatas, seen : BOOLEAN]
SdOf(q) == [j \in DOMAIN q |-> q[j].sd]
Distinct(q) == \A i, j \in DOMAIN q : q[i].sd = q[j].sd => i = j

LEMMA SdOfType ==
    ASSUME NEW q \in Seq(Samples)
    PROVE  /\ SdOf(q) \in Seq(Serdatas) /\ Len(SdOf(q)) = Len(q) /\ DOMAIN SdOf(q) = DOMAIN q
           /\ DOMAIN q = 1 .. Len(q) /\ Len(q) \in Nat
           /\ \A j \in DOMAIN q : SdOf(q)[j] = q[j].sd /\ q[j].sd \in Serdatas /\ q[j] \in Samples
           /\ \A s : s \in Range(SdOf(q)) <=> \E j \in DOMAIN q : s = q[j].sd
<1>1. SdOf(q) \in Seq(Serdatas) /\ Len(SdOf(q)) = Len(q) /\ DOMAIN SdOf(q) = DOMAIN q
  BY CachedType DEF SdOf, Samples
<1>2. DOMAIN q = 1 .. Len(q) /\ Len(q) \in Nat
  OBVIOUS
<1>3. \A j \in DOMAIN q : SdOf(q)[j] = q[j].sd
  BY DEF SdOf
<1>4. \A j \in DOMAIN q : q[j].sd \in Serdatas /\ q[j] \in Samples
  <2>1. \A j \in 1 .. Len(q) : q[j] \in Samples
    BY ElementOfSeq
  <2> QED
    BY <1>2, <2>1 DEF Samples
<1>5. \A s : s \in Range(SdOf(q)) <=> \E j \in DOMAIN q : s = q[j].sd
  BY <1>1, <1>3 DEF Range
<1> QED
  BY <1>1, <1>2, <1>3, <1>4, <1>5

LEMMA SdOfAppend ==
    ASSUME NEW q \in Seq(Samples), NEW e \in Samples, Distinct(q), e.sd \notin Range(SdOf(q))
    PROVE  /\ Append(q, e) \in Seq(Samples)
           /\ Distinct(Append(q, e))
           /\ Range(SdOf(Append(q, e))) = Range(SdOf(q)) \cup {e.sd}
           /\ \A s : Occurs(s, SdOf(Append(q, e))) = Occurs(s, SdOf(q)) + One(s, e.sd)
<1> DEFINE a == Append(q, e)
<1>1. /\ a \in Seq(Samples) /\ Len(a) = Len(q) + 1 /\ DOMAIN a = 1 .. Len(q) + 1
      /\ \A j \in 1 .. Len(q) : a[j] = q[j]
      /\ a[Len(q) + 1] = e
  OBVIOUS
<1> HIDE DEF a
<1>2. /\ DOMAIN q = 1 .. Len(q) /\ Len(q) \in Nat
      /\ \A j \in 1 .. Len(q) : q[j].sd # e.sd
  BY SdOfType
<1>3. Distinct(a)
  <2> SUFFICES ASSUME NEW i \in 1 .. Len(q) + 1, NEW j \in 1 .. Len(q) + 1, a[i].sd = a[j].sd
               PROVE  i = j
    BY <1>1 DEF Distinct
  <2>1. i \in 1 .. Len(q) \/ i = Len(q) + 1
    BY <1>2
  <2>2. j \in 1 .. Len(q) \/ j = Len(q) + 1
    BY <1>2
  <2> QED
    BY <1>1, <1>2, <2>1, <2>2 DEF Distinct
<1>4. SdOf(a) = Append(SdOf(q), e.sd)
  <2>1. /\ SdOf(a) \in Seq(Serdatas) /\ Len(SdOf(a)) = Len(q) + 1
        /\ \A j \in 1 .. Len(q) + 1 : SdOf(a)[j] = a[j].sd
    BY <1>1, SdOfType
  <2>2. /\ SdOf(q) \in Seq(Serdatas) /\ Len(SdOf(q)) = Len(q)
        /\ \A j \in 1 .. Len(q) : SdOf(q)[j] = q[j].sd
    BY SdOfType
  <2>3. e.sd \in Serdatas
    BY DEF Samples
  <2> DEFINE p == SdOf(q)
             d == e.sd
             b == Append(p, d)
  <2> HIDE DEF p, d
  <2>4. p \in Seq(Serdatas) /\ d \in Serdatas /\ Len(p) = Len(q)
    BY <2>2, <2>3 DEF p, d
  <2>5. /\ b \in Seq(Serdatas) /\ Len(b) = Len(q) + 1
        /\ \A j \in 1 .. Len(q) : b[j] = p[j]
        /\ b[Len(q) + 1] = d
    BY <2>4
  <2> HIDE DEF b
  <2>6. \A j \in 1 .. Len(q) + 1 : SdOf(a)[j] = b[j]
    <3> TAKE j \in 1 .. Len(q) + 1
    <3>1. j \in 1 .. Len(q) \/ j = Len(q) + 1
      BY <1>2
    <3> QED
      BY <1>1, <2>1, <2>2, <2>5, <3>1 DEF p, d
  <2>7. SdOf(a) = b
    BY <2>1, <2>5, <2>6, SeqEqual
  <2> QED
    BY <2>7 DEF b, p, d
<1>5. \A s : s \in Range(SdOf(a)) <=> s \in Range(SdOf(q)) \/ s = e.sd
  <2> TAKE s
  <2>1. s \in Range(SdOf(a)) <=> \E j \in 1 .. Len(q) + 1 : s = a[j].sd
    BY <1>1, SdOfType
  <2>2. s \in Range(SdOf(q)) <=> \E j \in 1 .. Len(q) : s = q[j].sd
    BY SdOfType
  <2>3. \A j : j \in 1 .. Len(q) + 1 <=> j \in 1 .. Len(q) \/ j = Len(q) + 1
    BY <1>2
  <2> QED
    BY <1>1, <2>1, <2>2, <2>3
<1>6. \A s : Occurs(s, SdOf(a)) = Occurs(s, SdOf(q)) + One(s, e.sd)
  <2>1. SdOf(q) \in Seq(Serdatas) /\ e.sd \in Serdatas
    BY SdOfType DEF Samples
  <2> QED
    BY <1>4, <2>1, OccursAppend
<1>7. Range(SdOf(a)) = Range(SdOf(q)) \cup {e.sd}
  BY <1>5
<1> QED
  BY <1>1, <1>3, <1>6, <1>7 DEF a

LEMMA SdOfRemove ==
    ASSUME NEW q \in Seq(Samples), Distinct(q), NEW j \in DOMAIN q
    PROVE  /\ RemoveAt(q, j) \in Seq(Samples)
           /\ Distinct(RemoveAt(q, j))
           /\ Range(SdOf(RemoveAt(q, j))) = Range(SdOf(q)) \ {q[j].sd}
           /\ \A s : Occurs(s, SdOf(RemoveAt(q, j))) = Occurs(s, SdOf(q)) - One(s, q[j].sd)
<1> DEFINE a == RemoveAt(q, j)
           at(i) == IF i < j THEN i ELSE i + 1
<1>1. DOMAIN q = 1 .. Len(q) /\ Len(q) \in Nat /\ j \in 1 .. Len(q)
  OBVIOUS
<1>2. /\ a \in Seq(Samples) /\ DOMAIN a = 1 .. Len(q) - 1
      /\ \A i \in 1 .. Len(q) - 1 : a[i] = q[at(i)] /\ at(i) \in 1 .. Len(q) /\ at(i) # j
  <2>1. /\ a \in Seq(Samples) /\ Len(a) = Len(q) - 1
        /\ \A i \in 1 .. Len(q) - 1 : a[i] = IF i < j THEN q[i] ELSE q[i + 1]
    BY RemoveAtElements
  <2> HIDE DEF a
  <2>2. DOMAIN a = 1 .. Len(q) - 1
    BY <2>1
  <2>3. \A i \in 1 .. Len(q) - 1 : at(i) \in 1 .. Len(q) /\ at(i) # j
    BY <1>1
  <2>4. \A i \in 1 .. Len(q) - 1 : a[i] = q[at(i)]
    BY <2>1
  <2> QED
    BY <2>1, <2>2, <2>3, <2>4
<1>3. /\ \A i, k \in 1 .. Len(q) - 1 : at(i) = at(k) => i = k
      /\ \A k \in 1 .. Len(q) : k # j => \E i \in 1 .. Len(q) - 1 : at(i) = k
  <2>1. \A i, k \in 1 .. Len(q) - 1 : at(i) = at(k) => i = k
    BY <1>1
  <2>2. ASSUME NEW k \in 1 .. Len(q), k # j PROVE \E i \in 1 .. Len(q) - 1 : at(i) = k
    <3>1. CASE k < j
      <4>1. k \in 1 .. Len(q) - 1 /\ at(k) = k
        BY <1>1, <3>1
      <4> QED
        BY <4>1
    <3>2. CASE ~(k < j)
      <4>1. k - 1 \in 1 .. Len(q) - 1 /\ at(k - 1) = k
        BY <1>1, <2>2, <3>2
      <4> QED
        BY <4>1
    <3> QED
      BY <3>1, <3>2
  <2> QED
    BY <2>1, <2>2
<1> HIDE DEF a, at
<1>4. Distinct(a)
  <2> SUFFICES ASSUME NEW i \in 1 .. Len(q) - 1, NEW k \in 1 .. Len(q) - 1, a[i].sd = a[k].sd
               PROVE  i = k
    BY <1>2 DEF Distinct
  <2>1. q[at(i)].sd = q[at(k)].sd /\ at(i) \in DOMAIN q /\ at(k) \in DOMAIN q
    BY <1>1, <1>2
  <2>2. at(i) = at(k)
    BY <2>1 DEF Distinct
  <2> QED
    BY <1>3, <2>2
<1>5. \A s : s \in Range(SdOf(a)) <=> s \in Range(SdOf(q)) /\ s # q[j].sd
  <2> TAKE s
  <2>1. s \in Range(SdOf(a)) <=> \E i \in 1 .. Len(q) - 1 : s = a[i].sd
    BY <1>2, SdOfType
  <2>2. s \in Range(SdOf(q)) <=> \E k \in 1 .. Len(q) : s = q[k].sd
    BY SdOfType
  <2>3. ASSUME NEW i \in 1 .. Len(q) - 1, s = a[i].sd
        PROVE  s \in Range(SdOf(q)) /\ s # q[j].sd
    <3>1. s = q[at(i)].sd /\ at(i) \in 1 .. Len(q) /\ at(i) # j
      BY <1>2, <2>3
    <3> QED
      BY <1>1, <2>2, <3>1 DEF Distinct
  <2>4. ASSUME NEW k \in 1 .. Len(q), s = q[k].sd, s # q[j].sd
        PROVE  s \in Range(SdOf(a))
    <3>1. PICK i \in 1 .. Len(q) - 1 : at(i) = k
      BY <1>3, <2>4
    <3>2. a[i].sd = s
      BY <1>2, <2>4, <3>1
    <3> QED
      BY <2>1, <3>2
  <2> QED
    BY <2>1, <2>2, <2>3, <2>4
<1>6. ASSUME NEW s PROVE Occurs(s, SdOf(a)) = Occurs(s, SdOf(q)) - One(s, q[j].sd)
  <2>1. /\ SdOf(a) \in Seq(Serdatas) /\ SdOf(q) \in Seq(Serdatas)
        /\ \A i, k \in DOMAIN SdOf(a) : SdOf(a)[i] = SdOf(a)[k] => i = k
        /\ \A i, k \in DOMAIN SdOf(q) : SdOf(q)[i] = SdOf(q)[k] => i = k
    BY <1>2, <1>4, SdOfType DEF Distinct
  <2>2. Occurs(s, SdOf(a)) = In(s, Range(SdOf(a))) /\ Occurs(s, SdOf(q)) = In(s, Range(SdOf(q)))
    BY <2>1, OccursOnce
  <2>3. q[j].sd \in Range(SdOf(q))
    BY SdOfType
  <2>4. In(s, Range(SdOf(a))) = In(s, Range(SdOf(q))) - One(s, q[j].sd)
    BY <1>5, <2>3 DEF In, One
  <2> QED
    BY <2>2, <2>4
<1>7. Range(SdOf(a)) = Range(SdOf(q)) \ {q[j].sd}
  BY <1>5
<1> QED
  BY <1>2, <1>4, <1>6, <1>7 DEF a

-----------------------------------------------------------------------------
(* The reader cache.                                                       *)
LEMMA CacheIsTyped ==
    ASSUME ReadInv
    PROVE  /\ cache \in Seq(Samples) /\ Cached = SdOf(cache) /\ Cached' = SdOf(cache')
           /\ Distinct(cache) /\ incoming \notin Range(Cached)
           /\ Range(Cached) \subseteq Serdatas
<1>1. cache \in Seq(Samples) /\ Cached = SdOf(cache) /\ Cached' = SdOf(cache')
  BY Parts DEF PlacesTyped, Samples, Cached, SdOf
<1>2. \A j \in DOMAIN cache : cache[j].sd \in Serdatas
  BY <1>1, SdOfType
<1> QED
  BY <1>1, <1>2, Parts, SdOfType DEF InOnePlace, Distinct

LEMMA CloseReaderKeeps == ASSUME ReadInv, NEW c \in Callers, CloseReader(c) PROVE ReadInv'
<1> USE DEF CloseReader
<1>0. \A s \in Serdatas : Occurs(s, Cached) \in Nat
  BY Parts, ClaimsType
<1>1. PICK n \in [Serdatas -> Int] : n = [s \in Serdatas |-> -Occurs(s, Cached)]
  BY <1>0
<1>2. cache' \in Seq(Samples) /\ Range(Cached') = {} /\ \A s \in Serdatas : Occurs(s, Cached') = 0
  <2>1. cache' = << >> /\ cache' \in Seq(Samples)
    OBVIOUS
  <2>2. SdOf(cache') \in Seq(Serdatas) /\ SdOf(cache') = Cached' /\ Range(Cached') = {}
    <3>1. /\ SdOf(cache') \in Seq(Serdatas)
          /\ \A s : s \in Range(SdOf(cache')) <=> \E j \in DOMAIN cache' : s = cache'[j].sd
      BY <2>1, SdOfType
    <3>2. Range(SdOf(cache')) = {}
      BY <2>1, <3>1
    <3> QED
      BY <3>1, <3>2, CacheIsTyped
  <2>3. ASSUME NEW s \in Serdatas PROVE Occurs(s, Cached') = 0
    <3>1. Cached' \in Seq(Serdatas) /\ s \notin Range(Cached')
      BY <2>2
    <3> HIDE DEF Cached
    <3>2. Occurs(s, Cached') \in Nat /\ ~(Occurs(s, Cached') > 0)
      BY <3>1, OccursType
    <3> QED
      BY <3>2
  <2> QED
    BY <2>1, <2>2, <2>3
<1>3. PlacesTyped' /\ InOnePlace'
  <2>1. PlacesTyped'
    BY <1>2, Parts DEF PlacesTyped, Samples
  <2>2. \A i, j \in DOMAIN cache' : cache'[i].sd = cache'[j].sd => i = j
    OBVIOUS
  <2>3. incoming' \notin Range(Cached') /\ kept' \cap (Range(Cached') \cup {incoming'}) = {}
    BY <1>2, Parts DEF InOnePlace
  <2>4. \A d \in Callers : ~(call'[d].op = "read")
    BY DEF CacheIsFree
  <2> QED
    BY <2>1, <2>2, <2>3, <2>4 DEF InOnePlace, Reading
<1>4. HeldFinite' /\ \A s \in Serdatas : HeldByCallers(s)' = HeldByCallers(s)
  BY Parts, HeldSame
<1>5. ASSUME NEW s \in Serdatas PROVE Claims(s)' = Claims(s) + n[s]
  <2>1. Occurs(s, Cached') = 0 /\ HeldByCallers(s)' = HeldByCallers(s) /\ n[s] = -Occurs(s, Cached)
    BY <1>1, <1>2, <1>4
  <2> QED
    BY <1>3, <1>4, <2>1, ClaimsChange
<1>6. \A s \in Serdatas : ~(n[s] > 0)
  BY <1>0, <1>1
<1>7. ToBeRead' \subseteq ToBeRead
  BY <1>2 DEF ToBeRead, Referred, Reading
<1>8. TakenOnce' /\ \A s \in Serdatas : taken'[s] > 0 => Born(s) /\ s # incoming'
  BY <1>2, Parts DEF TakenOnce, NewIsFree
<1>9. \A d \in Callers : Getting(d) => call[d].sd \in kept'
  BY Parts DEF ObjectsOwned
<1>10. Ref(n)
  BY <1>1
<1> QED
  BY <1>3, <1>4, <1>5, <1>6, <1>7, <1>8, <1>9, <1>10, RefKeeps

(* The part of Store after which the cache holds base and the new sample.  *)
LEMMA StoreStep ==
    ASSUME ReadInv, NEW n \in [Serdatas -> Int], Ref(n), NEW base \in Seq(Samples),
           incoming # Null, CacheIsFree,
           Distinct(base), Range(SdOf(base)) \subseteq Range(Cached),
           \A s \in Serdatas : Occurs(s, SdOf(base)) = Occurs(s, Cached) + n[s] /\ ~(n[s] > 0),
           cache' = Append(base, NewSample), incoming' = Null,
           UNCHANGED <<transport, kept, readerOpen, call, samples, ref, leaked, taken>>
    PROVE  ReadInv'
<1>0. incoming \in Serdatas /\ NewSample \in Samples /\ NewSample.sd = incoming
  BY Parts DEF PlacesTyped, Samples, NewSample
<1>1. /\ cache' \in Seq(Samples) /\ Distinct(cache')
      /\ Range(Cached') \subseteq Range(Cached) \cup {incoming}
      /\ \A s \in Serdatas : Occurs(s, Cached') = Occurs(s, SdOf(base)) + One(s, incoming)
  <2>1. incoming \notin Range(SdOf(base)) /\ Cached' = SdOf(cache')
    BY CacheIsTyped
  <2> QED
    BY <1>0, <2>1, SdOfAppend
<1>2. Null \notin Range(Cached) /\ Null \notin kept /\ incoming \notin kept
  BY CacheIsTyped, Parts DEF PlacesTyped, InOnePlace
<1>3. PlacesTyped' /\ InOnePlace'
  <2>1. PlacesTyped'
    BY <1>1, Parts DEF PlacesTyped, Samples
  <2>2. incoming' \notin Range(Cached') /\ kept' \cap (Range(Cached') \cup {incoming'}) = {}
    BY <1>1, <1>2, Parts DEF InOnePlace
  <2>3. \A d \in Callers : ~(call'[d].op = "read")
    BY DEF CacheIsFree
  <2> QED
    BY <1>1, <2>1, <2>2, <2>3 DEF InOnePlace, Reading, Distinct
<1>4. HeldFinite' /\ \A s \in Serdatas : HeldByCallers(s)' = HeldByCallers(s)
  BY Parts, HeldSame
<1>5. ASSUME NEW s \in Serdatas PROVE Claims(s)' = Claims(s) + n[s]
  <2>1. /\ Occurs(s, Cached') = Occurs(s, Cached) + n[s] + One(s, incoming)
        /\ HeldByCallers(s)' = HeldByCallers(s) /\ n[s] \in Int
    BY <1>1, <1>4
  <2> DEFINE i == One(s, incoming)
             i2 == One(s, incoming')
             o == Occurs(s, Cached)
             o2 == Occurs(s, Cached')
             h == Cardinality(HeldByCallers(s))
             h2 == Cardinality(HeldByCallers(s)')
             old == Claims(s)
  <2>2. /\ Claims(s)' = old + (i2 - i) + (o2 - o) + (h2 - h)
        /\ old \in Int /\ o \in Int /\ i \in Int /\ h \in Int
    BY <1>3, <1>4, ClaimsMove
  <2>3. i2 = 0 /\ h2 = h /\ o2 = o + n[s] + i /\ n[s] \in Int
    BY <2>1, Parts DEF One
  <2> HIDE DEF i, i2, o, o2, h, h2, old
  <2>4. Claims(s)' = old + n[s]
    BY <2>2, <2>3
  <2> QED
    BY <2>4 DEF old
<1>6. ToBeRead' \subseteq ToBeRead
  BY <1>0, <1>1, Parts DEF ToBeRead, Referred, Reading
<1>7. TakenOnce' /\ \A s \in Serdatas : taken'[s] > 0 => Born(s) /\ s # incoming'
  BY <1>1, Parts DEF TakenOnce, NewIsFree
<1>8. \A d \in Callers : Getting(d) => call[d].sd \in kept'
  BY Parts DEF ObjectsOwned
<1> QED
  BY <1>3, <1>4, <1>5, <1>6, <1>7, <1>8, RefKeeps

LEMMA StoreKeeps == ASSUME ReadInv, Store PROVE ReadInv'
<1>1. CASE cache' = Append(cache, NewSample) /\ UNCHANGED <<serdata, heap, loanRefs>>
  <2>0. [s \in Serdatas |-> 0] \in [Serdatas -> Int]
    OBVIOUS
  <2>1. PICK n \in [Serdatas -> Int] : n = [s \in Serdatas |-> 0]
    BY <2>0, Zenon
  <2>2. Ref(n)
    BY <1>1, <2>1, NoRef
  <2>3. \A s \in Serdatas : Occurs(s, SdOf(cache)) = Occurs(s, Cached) + n[s] /\ ~(n[s] > 0)
    <3> TAKE s \in Serdatas
    <3>1. n[s] = 0 /\ Occurs(s, SdOf(cache)) = Occurs(s, Cached) /\ Occurs(s, Cached) \in Nat
      BY <2>1, CacheIsTyped, Parts, ClaimsType
    <3> QED
      BY <3>1
  <2> QED
    BY <1>1, <2>2, <2>3, CacheIsTyped, StoreStep DEF Store
<1>2. ASSUME NEW j \in SameInstance, cache' = Append(RemoveAt(cache, j), NewSample),
             Ref([s \in Serdatas |-> -One(s, cache[j].sd)])
      PROVE  ReadInv'
  <2>1. PICK n \in [Serdatas -> Int] : n = [s \in Serdatas |-> -One(s, cache[j].sd)]
    BY OneType
  <2>2. j \in DOMAIN cache
    BY DEF SameInstance
  <2>3. /\ RemoveAt(cache, j) \in Seq(Samples) /\ Distinct(RemoveAt(cache, j))
        /\ Range(SdOf(RemoveAt(cache, j))) \subseteq Range(Cached)
        /\ \A s : Occurs(s, SdOf(RemoveAt(cache, j))) = Occurs(s, Cached) - One(s, cache[j].sd)
    BY <2>2, CacheIsTyped, SdOfRemove
  <2>4. \A s \in Serdatas :
           Occurs(s, SdOf(RemoveAt(cache, j))) = Occurs(s, Cached) + n[s] /\ ~(n[s] > 0)
    <3> TAKE s \in Serdatas
    <3>1. n[s] = -One(s, cache[j].sd) /\ One(s, cache[j].sd) \in {0, 1} /\ Occurs(s, Cached) \in Nat
      BY <2>1, OneType, Parts, ClaimsType
    <3> QED
      BY <2>3, <3>1
  <2> QED
    BY <1>2, <2>1, <2>3, <2>4, StoreStep DEF Store
<1> QED
  BY <1>1, <1>2 DEF Store

-----------------------------------------------------------------------------
(* The reads.                                                              *)

(* What a thread does with its own samples and its read.                   *)
LEMMA ReadStep ==
    ASSUME ReadInv, NEW c \in Callers, NEW n \in [Serdatas -> Int], Ref(n),
           ~Getting(c), call'[c] = Idle \/ call'[c] \in ReadingCalls,
           samples' \in [Callers -> Seq(Serdatas)],
           call' \in [Callers -> {Idle} \cup GettingCalls \cup ReadingCalls],
           \A d \in Callers \ {c} : samples'[d] = samples[d] /\ call'[d] = call[d],
           \A d \in Callers \ {c} : ~Reading(d),
           cache' \in Seq(Samples), Distinct(cache'), Range(Cached') \subseteq Range(Cached),
           call'[c] \in ReadingCalls => call'[c].todo \subseteq Range(Cached'),
           \A s \in Serdatas :
               n[s] = (Occurs(s, Cached') - Occurs(s, Cached))
                        + (HoldsCount(s, samples'[c], call'[c]) - HoldsCount(s, samples[c], call[c])),
           \A s \in Serdatas : n[s] > 0 => s \in Range(Cached),
           \/ call'[c] = Idle
           \/ Range(call'[c].got) \subseteq ToBeRead,
           Range(samples'[c]) \subseteq ToBeRead,
           TakenOnce', taken' \in [Serdatas -> Nat],
           \A s \in Serdatas : taken'[s] > 0 => taken[s] > 0 \/ s \in Range(Cached),
           UNCHANGED <<transport, incoming, kept, readerOpen, ref, leaked>>
    PROVE  ReadInv'
<1>1. call'[c].op = "read" => call'[c] \in ReadingCalls /\ call'[c].got \in Seq(Serdatas)
  BY DEF Idle, ReadingCalls
<1>2. ~Getting(c)'
  BY DEF Getting, Idle, ReadingCalls
<1>3. PlacesTyped'
  BY Parts DEF PlacesTyped, Samples
<1>4. InOnePlace'
  <2>1. \A d \in Callers : Reading(d)' => d = c
    BY DEF Reading
  <2>2. \A d \in Callers : Reading(d)' => call'[d].todo \subseteq Range(Cached')
    BY <1>1, <2>1 DEF Reading
  <2>3. incoming' \notin Range(Cached') /\ kept' \cap (Range(Cached') \cup {incoming'}) = {}
    BY Parts DEF InOnePlace
  <2> QED
    BY <2>1, <2>2, <2>3 DEF InOnePlace, Distinct
<1>5. ASSUME NEW s \in Serdatas
      PROVE  /\ IsFiniteSet(HeldByCallers(s)')
             /\ Cardinality(HeldByCallers(s)')
                  = Cardinality(HeldByCallers(s)) + HoldsCount(s, samples'[c], call'[c])
                      - HoldsCount(s, samples[c], call[c])
  BY <1>1, Parts, HeldStep
<1>6. HeldFinite'
  BY <1>5 DEF HeldFinite
<1>7. ASSUME NEW s \in Serdatas PROVE Claims(s)' = Claims(s) + n[s]
  <2> DEFINE i == One(s, incoming)
             i2 == One(s, incoming')
             o == Occurs(s, Cached)
             o2 == Occurs(s, Cached')
             h == Cardinality(HeldByCallers(s))
             h2 == Cardinality(HeldByCallers(s)')
             b == HoldsCount(s, samples[c], call[c])
             b2 == HoldsCount(s, samples'[c], call'[c])
             old == Claims(s)
  <2>1. /\ Claims(s)' = old + (i2 - i) + (o2 - o) + (h2 - h)
        /\ old \in Int /\ o2 \in Int /\ o \in Int /\ i \in Int /\ h \in Int
    BY <1>3, <1>6, ClaimsMove
  <2>2. b2 \in Int /\ b \in Int
    <3>1. samples[c] \in Seq(Serdatas) /\ (Reading(c) => call[c].got \in Seq(Serdatas))
      BY Parts, CallTypes
    <3>2. b \in Nat
      BY <3>1, HoldsCounted DEF Reading
    <3>3. b2 \in Nat
      BY <1>1, HoldsCounted DEF Reading
    <3> QED
      BY <3>2, <3>3
  <2>3. i2 = i
    OBVIOUS
  <2>4. h2 = h + b2 - b
    BY <1>5
  <2>5. n[s] = (o2 - o) + (b2 - b) /\ n[s] \in Int
    OBVIOUS
  <2> HIDE DEF i, i2, o, o2, h, h2, b, b2, old
  <2>6. h2 - h = b2 - b
    BY <2>1, <2>2, <2>4
  <2>7. Claims(s)' = old + ((o2 - o) + (b2 - b))
    BY <2>1, <2>2, <2>3, <2>6
  <2> QED
    BY <2>5, <2>7 DEF old
<1>8. \A s \in Serdatas : n[s] > 0 => Claims(s) > 0
  BY Parts, PlacesAreClaims
<1>9. \A d \in Callers : Getting(d) \/ Getting(d)' => call'[d] = call[d]
  BY <1>2 DEF Getting
<1>10. \A d \in Callers : Getting(d) => call[d].sd \in kept'
  BY Parts DEF ObjectsOwned
<1>11. ToBeRead' \subseteq ToBeRead
  <2>1. \A d \in Callers : Range(samples'[d]) \subseteq ToBeRead
    <3>1. \A d \in Callers : Range(samples[d]) \subseteq ToBeRead
      BY ReferredAre DEF ToBeRead
    <3> QED
      BY <3>1
  <2>2. \A d \in Callers : Reading(d)' => d = c /\ Range(call'[d].got) \subseteq ToBeRead
    <3>1. \A d \in Callers : Reading(d)' => d = c
      BY DEF Reading
    <3>2. Reading(c)' => call'[c] # Idle
      BY DEF Reading, Idle
    <3> QED
      BY <3>1, <3>2
  <2>3. Referred' \subseteq ToBeRead
    <3>1. \A s : s = ref' /\ ref' # Null => s \in ToBeRead
      BY ReferredAre DEF ToBeRead
    <3> QED
      BY <2>1, <3>1, ReferredAre
  <2>4. Range(Cached') \cup ({incoming'} \ {Null}) \subseteq ToBeRead
    BY DEF ToBeRead
  <2>5. UNION {Range(call'[d].got) : d \in {e \in Callers : Reading(e)'}} \subseteq ToBeRead
    BY <2>2
  <2>6. ToBeRead' = Referred' \cup Range(Cached') \cup ({incoming'} \ {Null})
                      \cup UNION {Range(call'[d].got) : d \in {e \in Callers : Reading(e)'}}
    BY DEF ToBeRead, Null
  <2> QED
    BY <2>3, <2>4, <2>5, <2>6
<1>12. \A s \in Serdatas : taken'[s] > 0 => Born(s) /\ s # incoming'
  <2>1. \A s \in Range(Cached) : Born(s) /\ s # incoming
    BY Parts, CacheIsTyped, PlacesAreClaims, ClaimedIsBorn
  <2> QED
    BY <2>1, Parts DEF NewIsFree
<1> QED
  BY <1>3, <1>4, <1>6, <1>7, <1>8, <1>9, <1>10, <1>11, <1>12, RefKeeps

(* What collecting one more does to the samples got.                       *)
LEMMA LastOf ==
    ASSUME NEW q \in Seq(Serdatas), NEW t \in Serdatas
    PROVE  /\ Append(q, t) # << >> /\ Last(Append(q, t)) = t
           /\ Append(q, t) \in Seq(Serdatas)
           /\ Range(Append(q, t)) = Range(q) \cup {t}
<1> DEFINE a == Append(q, t)
<1>1. /\ a \in Seq(Serdatas) /\ Len(a) = Len(q) + 1 /\ Len(q) \in Nat
      /\ DOMAIN a = 1 .. Len(q) + 1 /\ DOMAIN q = 1 .. Len(q)
      /\ \A j \in 1 .. Len(q) : a[j] = q[j]
      /\ a[Len(q) + 1] = t
  OBVIOUS
<1> HIDE DEF a
<1>2. a # << >> /\ Last(a) = t
  BY <1>1 DEF Last
<1>3. \A j : j \in 1 .. Len(q) + 1 <=> j \in 1 .. Len(q) \/ j = Len(q) + 1
  BY <1>1
<1>4. \A s : s \in Range(a) <=> s \in Range(q) \/ s = t
  BY <1>1, <1>3 DEF Range
<1>5. Range(a) = Range(q) \cup {t}
  BY <1>4
<1> QED
  BY <1>1, <1>2, <1>5 DEF a

(* A read that begins counts nothing.                                      *)
LEMMA BeginReadKeeps == ASSUME ReadInv, NEW c \in Callers, BeginRead(c) PROVE ReadInv'
<1>0. call[c] = Idle /\ ~Getting(c) /\ \A d \in Callers : ~Reading(d)
  BY DEF BeginRead, CacheIsFree, Getting, Reading, Idle
<1>1. PICK r \in ReadingCalls :
         r.got = << >> /\ r.todo \subseteq Range(Cached) /\ call' = [call EXCEPT ![c] = r]
  <2>1. PICK q \in Requests, first \in SUBSET DOMAIN cache :
           call' = [call EXCEPT ![c] =
                       [op |-> "read", take |-> q.take, loaned |-> q.loaned, got |-> << >>,
                        todo |-> {cache[j].sd : j \in first}]]
    BY DEF BeginRead
  <2> DEFINE todo == {cache[j].sd : j \in first}
  <2>2. todo \subseteq Range(Cached) /\ todo \subseteq Serdatas
    BY CacheIsTyped, SdOfType
  <2>3. q.take \in BOOLEAN /\ q.loaned \in BOOLEAN
    BY DEF Requests
  <2> HIDE DEF todo
  <2> DEFINE r == [op |-> "read", take |-> q.take, loaned |-> q.loaned, got |-> << >>,
                   todo |-> todo]
  <2>4. r \in ReadingCalls /\ r.got = << >> /\ r.todo = todo
    BY <2>2, <2>3 DEF ReadingCalls
  <2>5. call' = [call EXCEPT ![c] = r]
    BY <2>1 DEF todo
  <2> HIDE DEF r
  <2> QED
    BY <2>2, <2>4, <2>5
<1>2. /\ call'[c] = r /\ samples' = samples /\ cache' = cache /\ Cached' = Cached
      /\ \A d \in Callers \ {c} : call'[d] = call[d]
      /\ call' \in [Callers -> {Idle} \cup GettingCalls \cup ReadingCalls]
  BY <1>1, Parts DEF BeginRead, PlacesTyped, Cached
<1>3. [s \in Serdatas |-> 0] \in [Serdatas -> Int]
  OBVIOUS
<1>4. PICK n \in [Serdatas -> Int] : n = [s \in Serdatas |-> 0]
  BY <1>3, Zenon
<1>5. Ref(n)
  BY <1>4, NoRef DEF BeginRead
<1>6. ASSUME NEW s \in Serdatas
      PROVE  /\ n[s] = 0
             /\ n[s] = (Occurs(s, Cached') - Occurs(s, Cached))
                        + (HoldsCount(s, samples'[c], call'[c]) - HoldsCount(s, samples[c], call[c]))
  <2>1. Occurs(s, samples[c]) \in Nat /\ Occurs(s, Cached) \in Nat
    BY Parts, CallTypes, ClaimsType, OccursType
  <2>2. HoldsCount(s, samples[c], call[c]) = Occurs(s, samples[c])
    BY <1>0, <2>1 DEF HoldsCount, Idle
  <2>3. Occurs(s, r.got) = 0 /\ Latest(r, s) = 0
    BY <1>1, OccursEmpty DEF Latest
  <2>4. HoldsCount(s, samples'[c], call'[c]) = Occurs(s, samples[c])
    BY <1>2, <2>1, <2>3 DEF HoldsCount
  <2>5. Occurs(s, Cached') = Occurs(s, Cached)
    BY <1>2
  <2> QED
    BY <1>4, <2>1, <2>2, <2>4, <2>5
<1>7. Range(r.got) \subseteq ToBeRead /\ Range(samples'[c]) \subseteq ToBeRead
  <2>1. Range(r.got) = {}
    BY <1>1 DEF Range
  <2> QED
    BY <1>2, <2>1, ReferredAre DEF ToBeRead
<1>8. /\ samples' \in [Callers -> Seq(Serdatas)] /\ taken' \in [Serdatas -> Nat]
      /\ TakenOnce' /\ taken' = taken
      /\ cache' \in Seq(Samples) /\ Distinct(cache')
  BY <1>2, Parts, CacheIsTyped DEF BeginRead, PlacesTyped, TakenOnce
<1>9. \A s \in Serdatas : ~(n[s] > 0)
  BY <1>6
<1> QED
  BY <1>0, <1>1, <1>2, <1>5, <1>6, <1>7, <1>8, <1>9, ReadStep DEF BeginRead

(* The holder gives latest_sample up, the LoanedSamples those they had.    *)
LEMMA EndReadKeeps == ASSUME ReadInv, NEW c \in Callers, EndRead(c) PROVE ReadInv'
<1> DEFINE r == call[c]
<1>0. Reading(c) /\ ~Getting(c) /\ r \in ReadingCalls /\ r.got \in Seq(Serdatas)
      /\ samples[c] \in Seq(Serdatas) /\ r.op = "read" /\ r.loaned \in BOOLEAN
  BY Parts, CallTypes DEF EndRead, Reading, Getting, ReadingCalls
<1>1. /\ call'[c] = Idle /\ cache' = cache /\ Cached' = Cached
      /\ \A d \in Callers \ {c} : call'[d] = call[d] /\ samples'[d] = samples[d]
      /\ call' \in [Callers -> {Idle} \cup GettingCalls \cup ReadingCalls]
      /\ samples'[c] = IF r.loaned THEN r.got ELSE samples[c]
      /\ samples' \in [Callers -> Seq(Serdatas)]
  BY <1>0, Parts DEF EndRead, PlacesTyped, Cached
<1> DEFINE given(s) == IF r.loaned THEN -Latest(r, s) - Occurs(s, samples[c]) ELSE 0
<1>2. \A s \in Serdatas :
         Occurs(s, samples[c]) \in Nat /\ Occurs(s, r.got) \in Nat /\ Latest(r, s) \in {0, 1}
  BY <1>0, OccursType, LatestType
<1>3. \A s \in Serdatas : given(s) \in Int /\ ~(given(s) > 0)
  BY <1>2
<1>4. [s \in Serdatas |-> given(s)] \in [Serdatas -> Int]
  BY <1>3
<1>5. PICK n \in [Serdatas -> Int] : n = [s \in Serdatas |-> given(s)]
  BY <1>4, Zenon
<1>6. Ref(n)
  BY <1>5 DEF EndRead
<1>7. ASSUME NEW s \in Serdatas
      PROVE  n[s] = (Occurs(s, Cached') - Occurs(s, Cached))
                     + (HoldsCount(s, samples'[c], call'[c]) - HoldsCount(s, samples[c], call[c]))
  <2>1. Occurs(s, Cached') = Occurs(s, Cached) /\ Occurs(s, Cached) \in Nat
    BY <1>1, Parts, ClaimsType
  <2>2. HoldsCount(s, samples'[c], call'[c]) = Occurs(s, samples'[c])
    <3>1. Occurs(s, samples'[c]) \in Nat
      BY <1>0, <1>1, OccursType
    <3> QED
      BY <1>1, <3>1 DEF HoldsCount, Idle
  <2>3. CASE r.loaned
    <3>1. HoldsCount(s, samples[c], call[c])
            = Occurs(s, samples[c]) + (Occurs(s, r.got) + Latest(r, s))
      BY <1>0, <2>3 DEF HoldsCount
    <3>2. Occurs(s, samples'[c]) = Occurs(s, r.got)
      BY <1>1, <2>3
    <3>3. n[s] = -Latest(r, s) - Occurs(s, samples[c])
      BY <1>5, <2>3
    <3> QED
      BY <1>2, <2>1, <2>2, <3>1, <3>2, <3>3
  <2>4. CASE ~r.loaned
    <3>1. HoldsCount(s, samples[c], call[c]) = Occurs(s, samples[c])
      BY <1>2, <2>4 DEF HoldsCount
    <3>2. Occurs(s, samples'[c]) = Occurs(s, samples[c])
      BY <1>1, <2>4
    <3>3. n[s] = 0
      BY <1>5, <2>4
    <3> QED
      BY <1>2, <2>1, <2>2, <3>1, <3>2, <3>3
  <2> QED
    BY <2>3, <2>4
<1>8. Range(samples'[c]) \subseteq ToBeRead
  <2>1. Range(samples[c]) \subseteq ToBeRead
    BY ReferredAre DEF ToBeRead
  <2>2. Range(call[c].got) \subseteq ToBeRead
    BY <1>0 DEF ToBeRead
  <2> QED
    BY <1>1, <2>1, <2>2
<1>9. /\ taken' \in [Serdatas -> Nat] /\ TakenOnce' /\ taken' = taken
      /\ cache' \in Seq(Samples) /\ Distinct(cache')
  BY <1>1, Parts, CacheIsTyped DEF EndRead, PlacesTyped, TakenOnce
<1>10. \A s \in Serdatas : ~(n[s] > 0)
  BY <1>3, <1>5
<1>11. \A d \in Callers \ {c} : ~Reading(d)
  BY <1>0, Parts DEF InOnePlace
<1>12. call'[c] \notin ReadingCalls
  BY <1>1 DEF Idle, ReadingCalls
<1> QED
  BY <1>0, <1>1, <1>6, <1>7, <1>8, <1>9, <1>10, <1>11, <1>12, ReadStep DEF EndRead

(* A collected sample is referred to twice, less the one latest_sample had *)
(* and, when it is taken, the one of the cache.                            *)
LEMMA CollectKeeps == ASSUME ReadInv, NEW c \in Callers, Collect(c) PROVE ReadInv'
<1> DEFINE r == call[c]
<1>0. Reading(c) /\ ~Getting(c) /\ r \in ReadingCalls /\ r.got \in Seq(Serdatas)
      /\ samples[c] \in Seq(Serdatas) /\ r.op = "read" /\ r.loaned \in BOOLEAN /\ r.take \in BOOLEAN
      /\ r.todo \subseteq Range(Cached)
  BY Parts, CallTypes DEF Collect, Reading, Getting, ReadingCalls, InOnePlace
<1>1. PICK j \in DOMAIN cache :
         /\ IsNext(r, j)
         /\ cache' = IF r.take THEN RemoveAt(cache, j) ELSE MarkSeen(j)
         /\ Ref([s \in Serdatas |->
                   Appended(r, s, cache[j].sd) - IF r.take THEN One(s, cache[j].sd) ELSE 0])
         /\ call' = [call EXCEPT ![c] = Passed(r, cache[j].sd)]
         /\ taken' = IF r.take THEN [taken EXCEPT ![cache[j].sd] = taken[cache[j].sd] + 1]
                     ELSE taken
  BY DEF Collect
<1> DEFINE t == cache[j].sd
           p == Passed(r, t)
           given(s) == Appended(r, s, t) - IF r.take THEN One(s, t) ELSE 0
<1>2. t \in Serdatas /\ t \in Range(Cached) /\ t \in r.todo
  BY <1>1, CacheIsTyped, SdOfType DEF IsNext
<1>3. /\ p \in ReadingCalls /\ p.op = "read" /\ p.loaned = r.loaned
      /\ p.got = Append(r.got, t) /\ p.todo = r.todo \ {t}
      /\ p.got \in Seq(Serdatas) /\ p.got # << >> /\ Last(p.got) = t
      /\ Range(p.got) = Range(r.got) \cup {t}
  <2>1. Append(r.got, t) \in Seq(Serdatas) /\ r.todo \ {t} \in SUBSET Serdatas
    BY <1>0, <1>2, CacheIsTyped
  <2>2. p = [r EXCEPT !.todo = r.todo \ {t}, !.got = Append(r.got, t)]
    BY DEF Passed
  <2> HIDE DEF t, p
  <2>3. p \in ReadingCalls /\ p.op = "read" /\ p.loaned = r.loaned
        /\ p.got = Append(r.got, t) /\ p.todo = r.todo \ {t}
    BY <1>0, <2>1, <2>2 DEF ReadingCalls
  <2> QED
    BY <1>0, <1>2, <2>3, LastOf
<1>4. /\ call'[c] = p /\ samples' = samples
      /\ \A d \in Callers \ {c} : call'[d] = call[d]
      /\ call' \in [Callers -> {Idle} \cup GettingCalls \cup ReadingCalls]
  BY <1>1, <1>3, Parts DEF Collect, PlacesTyped
<1>5. /\ cache' \in Seq(Samples) /\ Distinct(cache')
      /\ Range(Cached') = IF r.take THEN Range(Cached) \ {t} ELSE Range(Cached)
      /\ \A s : Occurs(s, Cached') = Occurs(s, Cached) - IF r.take THEN One(s, t) ELSE 0
  <2>1. CASE r.take
    <3>1. cache' = RemoveAt(cache, j)
      BY <1>1, <2>1
    <3>2. /\ cache' \in Seq(Samples) /\ Distinct(cache')
          /\ Range(SdOf(cache')) = Range(SdOf(cache)) \ {t}
          /\ \A s : Occurs(s, SdOf(cache')) = Occurs(s, SdOf(cache)) - One(s, t)
      BY <3>1, CacheIsTyped, SdOfRemove
    <3> QED
      BY <2>1, <3>2, CacheIsTyped
  <2>2. CASE ~r.take
    <3>1. cache' = [cache EXCEPT ![j] = [sd |-> t, seen |-> TRUE]]
      BY <1>1, <2>2 DEF MarkSeen
    <3>2. [sd |-> t, seen |-> TRUE] \in Samples
      BY <1>2 DEF Samples
    <3>3. /\ cache' \in Seq(Samples) /\ DOMAIN cache' = DOMAIN cache
          /\ \A i \in DOMAIN cache : cache'[i].sd = cache[i].sd
      BY <3>1, <3>2, CacheIsTyped
    <3>4. SdOf(cache') = SdOf(cache) /\ Distinct(cache')
      BY <3>3, CacheIsTyped DEF SdOf, Distinct
    <3>5. ASSUME NEW s PROVE Occurs(s, Cached) \in Nat
      <4>1. Cached \in Seq(Serdatas)
        BY CacheIsTyped, SdOfType
      <4> QED
        BY <4>1, OccursType
    <3> QED
      BY <2>2, <3>3, <3>4, <3>5, CacheIsTyped
  <2> QED
    BY <2>1, <2>2
<1>6. ASSUME NEW s \in Serdatas
      PROVE  /\ Occurs(s, samples[c]) \in Nat /\ Occurs(s, r.got) \in Nat /\ Occurs(s, Cached) \in Nat
             /\ Latest(r, s) \in {0, 1} /\ One(s, t) \in {0, 1}
             /\ (~r.loaned => Latest(r, s) = 0)
             /\ given(s) \in Int
  <2>1. /\ Occurs(s, samples[c]) \in Nat /\ Occurs(s, r.got) \in Nat /\ Occurs(s, Cached) \in Nat
        /\ Latest(r, s) \in {0, 1} /\ (~r.loaned => Latest(r, s) = 0)
    BY <1>0, OccursType, LatestType, Parts, ClaimsType DEF Latest
  <2>2. One(s, t) \in {0, 1}
    BY DEF One
  <2> HIDE DEF t
  <2>3. Appended(r, s, t) \in Int
    BY <2>1, <2>2 DEF Appended
  <2> QED
    BY <2>1, <2>2, <2>3
<1> HIDE DEF t, p, r
<1>7. [s \in Serdatas |-> given(s)] \in [Serdatas -> Int]
  BY <1>6
<1>8. PICK n \in [Serdatas -> Int] : n = [s \in Serdatas |-> given(s)]
  BY <1>7, Zenon
<1>9. Ref(n)
  BY <1>1, <1>8 DEF t, r
<1>10. ASSUME NEW s \in Serdatas
       PROVE  HoldsCount(s, samples'[c], p) - HoldsCount(s, samples[c], r) = Appended(r, s, t)
              /\ HoldsCount(s, samples'[c], p) \in Int /\ HoldsCount(s, samples[c], r) \in Int
              /\ Appended(r, s, t) \in Int
  <2>1. samples'[c] = samples[c] /\ p.loaned = r.loaned /\ p.op = "read" /\ r.op = "read"
    BY <1>0, <1>3, <1>4 DEF r
  <2>2. CASE r.loaned
    <3>1. HoldsCount(s, samples[c], r) = Occurs(s, samples[c]) + (Occurs(s, r.got) + Latest(r, s))
      BY <2>1, <2>2 DEF HoldsCount
    <3>2. HoldsCount(s, samples'[c], p) = Occurs(s, samples[c]) + (Occurs(s, p.got) + Latest(p, s))
      BY <2>1, <2>2 DEF HoldsCount
    <3>3. Latest(p, s) = One(s, t)
      BY <1>3, <2>1, <2>2 DEF Latest
    <3>4. Occurs(s, p.got) = Occurs(s, r.got) + One(s, t)
      BY <1>0, <1>2, <1>3, OccursAppend DEF r
    <3>5. Appended(r, s, t) = 2 * One(s, t) - Latest(r, s)
      BY <2>2 DEF Appended
    <3> QED
      BY <1>6, <3>1, <3>2, <3>3, <3>4, <3>5
  <2>3. CASE ~r.loaned
    <3>1. /\ HoldsCount(s, samples[c], r) = Occurs(s, samples[c])
          /\ HoldsCount(s, samples'[c], p) = Occurs(s, samples[c])
      BY <1>6, <2>1, <2>3 DEF HoldsCount
    <3>2. Appended(r, s, t) = 0
      BY <2>3 DEF Appended
    <3> QED
      BY <1>6, <3>1, <3>2
  <2> QED
    BY <2>2, <2>3
<1>11. ASSUME NEW s \in Serdatas
       PROVE  n[s] = (Occurs(s, Cached') - Occurs(s, Cached))
                      + (HoldsCount(s, samples'[c], call'[c]) - HoldsCount(s, samples[c], call[c]))
  <2>1. n[s] = Appended(r, s, t) - IF r.take THEN One(s, t) ELSE 0
    BY <1>8
  <2>2. Occurs(s, Cached') = Occurs(s, Cached) - IF r.take THEN One(s, t) ELSE 0
    BY <1>5
  <2>3. HoldsCount(s, samples'[c], call'[c]) - HoldsCount(s, samples[c], call[c])
          = Appended(r, s, t)
    BY <1>4, <1>10 DEF r
  <2>4. Occurs(s, Cached) \in Nat /\ One(s, t) \in {0, 1} /\ Appended(r, s, t) \in Int
    BY <1>6, <1>10
  <2>5. CASE r.take
    BY <2>1, <2>2, <2>3, <2>4, <2>5
  <2>6. CASE ~r.take
    BY <2>1, <2>2, <2>3, <2>4, <2>6
  <2> QED
    BY <2>5, <2>6
<1>12. ASSUME NEW s \in Serdatas, n[s] > 0 PROVE s \in Range(Cached)
  <2>1. CASE s = t
    BY <1>2, <2>1
  <2>2. CASE s # t
    <3>1. One(s, t) = 0
      BY <2>2 DEF One
    <3>2. n[s] = Appended(r, s, t) - 0
      BY <1>8, <3>1
    <3>3. Appended(r, s, t) = 0 \/ Appended(r, s, t) = 0 - Latest(r, s)
      BY <1>6, <3>1 DEF Appended
    <3> QED
      BY <1>6, <1>12, <3>2, <3>3
  <2> QED
    BY <2>1, <2>2
<1>13. Range(call'[c].got) \subseteq ToBeRead /\ Range(samples'[c]) \subseteq ToBeRead
  <2>1. Range(samples[c]) \subseteq ToBeRead /\ t \in ToBeRead
    BY <1>2, ReferredAre DEF ToBeRead
  <2>2. Range(call[c].got) \subseteq ToBeRead
    BY <1>0 DEF ToBeRead
  <2> QED
    BY <1>3, <1>4, <2>1, <2>2 DEF r
<1>14. /\ taken' \in [Serdatas -> Nat] /\ TakenOnce'
       /\ \A s \in Serdatas : taken'[s] > 0 => taken[s] > 0 \/ s \in Range(Cached)
  <2>0. taken \in [Serdatas -> Nat]
    BY Parts DEF PlacesTyped
  <2>1. CASE r.take
    <3>1. taken' = [taken EXCEPT ![t] = taken[t] + 1]
      BY <1>1, <2>1 DEF t, r
    <3>2. taken[t] = 0
      <4>1. taken[t] <= 1 /\ taken[t] # 1 /\ taken[t] \in Nat
        BY <1>2, <2>0, Parts DEF TakenOnce
      <4> QED
        BY <4>1
    <3>3. \A s \in Serdatas : taken'[s] = IF s = t THEN 1 ELSE taken[s]
      BY <1>2, <2>0, <3>1, <3>2
    <3>4. taken' \in [Serdatas -> Nat]
      BY <1>2, <2>0, <3>1
    <3>5. Range(Cached') = Range(Cached) \ {t}
      BY <1>5, <2>1
    <3> QED
      BY <1>2, <2>0, <3>3, <3>4, <3>5, Parts DEF TakenOnce
  <2>2. CASE ~r.take
    <3>1. taken' = taken /\ Range(Cached') = Range(Cached)
      BY <1>1, <1>5, <2>2 DEF r
    <3> QED
      BY <2>0, <3>1, Parts DEF TakenOnce
  <2> QED
    BY <2>1, <2>2
<1>15. call'[c] \in ReadingCalls /\ call'[c].todo \subseteq Range(Cached')
  BY <1>0, <1>3, <1>4, <1>5 DEF r
<1>16. /\ samples' \in [Callers -> Seq(Serdatas)] /\ Range(Cached') \subseteq Range(Cached)
       /\ \A d \in Callers \ {c} : ~Reading(d) /\ samples'[d] = samples[d]
  BY <1>0, <1>4, <1>5, Parts DEF InOnePlace, PlacesTyped
<1> QED
  BY <1>0, <1>4, <1>5, <1>9, <1>11, <1>12, <1>13, <1>14, <1>15, <1>16, ReadStep DEF Collect

-----------------------------------------------------------------------------
(* getT(): the places of the serdatas stay.                                *)
LEMMA GettingStep ==
    ASSUME ReadInv, NEW c \in Callers, ~Reading(c), ~Reading(c)',
           call' \in [Callers -> {Idle} \cup GettingCalls \cup ReadingCalls],
           \A d \in Callers \ {c} : call'[d] = call[d],
           UNCHANGED <<transport, incoming, cache, kept, readerOpen, samples, ref, leaked, taken>>
    PROVE  /\ PlacesTyped' /\ InOnePlace' /\ HeldFinite' /\ TakenOnce'
           /\ \A s \in Serdatas : Claims(s)' = Claims(s)
           /\ ToBeRead' \subseteq ToBeRead
<1>1. /\ Cached' = Cached
      /\ \A d \in Callers : (Reading(d)' <=> Reading(d)) /\ (Reading(d) => call'[d] = call[d])
  BY DEF Cached, Reading
<1>2. PlacesTyped' /\ InOnePlace' /\ TakenOnce'
  BY <1>1, Parts DEF PlacesTyped, InOnePlace, TakenOnce
<1>3. \A s \in Serdatas : HeldByCallers(s)' = HeldByCallers(s)
  <2> TAKE s \in Serdatas
  <2>1. \A d \in Callers : RefsOf(d, s, samples'[d], call'[d]) = RefsOf(d, s, samples[d], call[d])
    <3> TAKE d \in Callers
    <3>1. CASE d = c
      BY <3>1 DEF RefsOf, Reading
    <3>2. CASE d # c
      BY <3>2
    <3> QED
      BY <3>1, <3>2
  <2> QED
    BY <2>1 DEF HeldByCallers
<1>4. HeldFinite'
  BY <1>3, Parts DEF HeldFinite
<1>5. ASSUME NEW s \in Serdatas PROVE Claims(s)' = Claims(s)
  BY <1>1, <1>3 DEF Claims
<1>6. ToBeRead' \subseteq ToBeRead
  <2>1. Referred' \subseteq Referred
    BY ReferredAre
  <2>2. \A d \in Callers : Reading(d)' => Range(call'[d].got) \subseteq ToBeRead
    BY <1>1 DEF ToBeRead
  <2>3. UNION {Range(call'[d].got) : d \in {e \in Callers : Reading(e)'}} \subseteq ToBeRead
    BY <2>2
  <2>4. ToBeRead' = Referred' \cup Range(Cached') \cup ({incoming'} \ {Null})
                      \cup UNION {Range(call'[d].got) : d \in {e \in Callers : Reading(e)'}}
    BY DEF ToBeRead, Null
  <2>5. Referred \cup Range(Cached) \cup ({incoming} \ {Null}) \subseteq ToBeRead
    BY DEF ToBeRead
  <2> QED
    BY <1>1, <2>1, <2>3, <2>4, <2>5
<1> QED
  BY <1>2, <1>4, <1>5, <1>6

LEMMA GetTKeeps == ASSUME ReadInv, NEW c \in Callers, GetT(c) PROVE ReadInv'
<1>1. PICK s \in kept :
         /\ serdata[s].m_t = {}
         /\ LET own == IF serdata[s].bytes THEN Object(s, c) ELSE {}
            IN  /\ heap' = heap \cup own
                /\ call' = [call EXCEPT ![c] = [op |-> "getT", sd |-> s, own |-> own]]
  BY DEF GetT
<1> DEFINE own == IF serdata[s].bytes THEN Object(s, c) ELSE {}
           r == [op |-> "getT", sd |-> s, own |-> own]
<1>2. s \in Serdatas /\ own \subseteq {<<s, c>>} /\ own \in SUBSET (Serdatas \X Callers)
  BY Parts DEF PlacesTyped, Object
<1>3. heap' = heap \cup own /\ call' = [call EXCEPT ![c] = r] /\ call[c] = Idle
  BY <1>1 DEF GetT
<1> HIDE DEF own
<1>4. r \in GettingCalls /\ r.op = "getT" /\ r.sd = s /\ r.own = own
  BY <1>2 DEF GettingCalls
<1> HIDE DEF r
<1>5. /\ call'[c] = r /\ \A d \in Callers \ {c} : call'[d] = call[d]
      /\ call' \in [Callers -> {Idle} \cup GettingCalls \cup ReadingCalls]
  BY <1>3, <1>4, Parts DEF PlacesTyped
<1>6. ~Reading(c) /\ ~Reading(c)' /\ ~Getting(c) /\ Getting(c)'
  BY <1>3, <1>4, <1>5 DEF Reading, Getting, Idle
<1>7. /\ PlacesTyped' /\ InOnePlace' /\ HeldFinite' /\ TakenOnce'
      /\ \A u \in Serdatas : Claims(u)' = Claims(u)
      /\ ToBeRead' \subseteq ToBeRead
  BY <1>5, <1>6, GettingStep DEF GetT
<1>8. ObjectsOwned'
  <2>1. ASSUME NEW d \in Callers, Getting(d)'
        PROVE  /\ call'[d].sd \in kept'
               /\ call'[d].own \subseteq {<<call'[d].sd, d>>}
               /\ <<call'[d].sd, d>> \notin serdata'[call'[d].sd].m_t
    <3>1. CASE d = c
      BY <1>1, <1>2, <1>4, <1>5, <3>1 DEF GetT
    <3>2. CASE d # c
      BY <1>5, <2>1, <3>2, Parts DEF GetT, ObjectsOwned, Getting
    <3> QED
      BY <3>1, <3>2
  <2> QED
    BY <2>1, Parts DEF GetT, ObjectsOwned, Born
<1>9. ObjectsExact'
  <2>1. Unpublished' = Unpublished \cup own
    <3>1. {d \in Callers : call'[d].op = "getT"} = {d \in Callers : call[d].op = "getT"} \cup {c}
      BY <1>5, <1>6 DEF Getting
    <3>2. \A d \in Callers : call[d].op = "getT" => d # c /\ call'[d] = call[d]
      BY <1>5, <1>6 DEF Getting
    <3> QED
      BY <1>4, <1>5, <3>1, <3>2 DEF Unpublished
  <2>2. LiveObjects' = LiveObjects
    BY DEF LiveObjects, GetT
  <2> QED
    BY <1>3, <2>1, <2>2, Parts DEF ObjectsExact
<1>10. ReferencesExact' /\ LoansExact' /\ BodiesTyped'
  BY <1>7, Parts DEF GetT, ReferencesExact, LoansExact, BodiesTyped
<1>11. ObjectsThere' /\ NewIsFree'
  BY <1>7, Parts DEF GetT, ObjectsThere, NewIsFree, Born
<1> QED
  BY <1>7, <1>8, <1>9, <1>10, <1>11 DEF ReadInv, ReadTyped, OwnershipIsExact

LEMMA PublishKeeps == ASSUME ReadInv, NEW c \in Callers, Publish(c) PROVE ReadInv'
<1> DEFINE s == call[c].sd
           own == call[c].own
           first == serdata[s].m_t = {}
           m_t == IF first THEN own ELSE serdata[s].m_t
<1>1. Getting(c) /\ ~Reading(c)
  BY DEF Publish, Getting, Reading
<1>2. /\ s \in Serdatas /\ s \in kept /\ own \subseteq {<<s, c>>}
      /\ own \in SUBSET (Serdatas \X Callers) /\ <<s, c>> \notin serdata[s].m_t
  BY <1>1, Parts, CallTypes DEF ObjectsOwned, GettingCalls
<1>3. serdata \in [Serdatas -> Bodies] /\ serdata[s] \in Bodies /\ serdata[s].life = "live" /\ Born(s)
  BY <1>2, Parts, PlacesAreClaims, ClaimedIsBorn DEF BodiesTyped
<1>4. m_t \in SUBSET (Serdatas \X Makers)
  BY <1>2, <1>3 DEF Bodies, Makers
<1>5. serdata' = [serdata EXCEPT ![s] = [serdata[s] EXCEPT !.m_t = m_t]]
  BY <1>2, <1>3 DEF Publish
<1>6. heap' = IF first THEN heap ELSE heap \ own
  BY DEF Publish
<1>7. call' = [call EXCEPT ![c] = Idle]
  BY DEF Publish
<1>8. /\ call'[c] = Idle /\ \A d \in Callers \ {c} : call'[d] = call[d]
      /\ call' \in [Callers -> {Idle} \cup GettingCalls \cup ReadingCalls]
  BY <1>7, Parts DEF PlacesTyped
<1>9. ~Reading(c)' /\ ~Getting(c)'
  BY <1>8 DEF Reading, Getting, Idle
<1>10. /\ PlacesTyped' /\ InOnePlace' /\ HeldFinite' /\ TakenOnce'
       /\ \A u \in Serdatas : Claims(u)' = Claims(u)
       /\ ToBeRead' \subseteq ToBeRead
  BY <1>1, <1>8, <1>9, GettingStep DEF Publish
<1> HIDE DEF s, own, first, m_t
<1>11. \A u \in Serdatas :
          /\ serdata'[u].refs = serdata[u].refs /\ serdata'[u].life = serdata[u].life
          /\ serdata'[u].loan = serdata[u].loan
          /\ serdata'[u].m_t = IF u = s THEN m_t ELSE serdata[u].m_t
          /\ serdata'[u] \in Bodies
  <2> TAKE u \in Serdatas
  <2>1. CASE u = s
    <3>1. serdata'[u] = [serdata[s] EXCEPT !.m_t = m_t]
      BY <1>2, <1>3, <1>5, <2>1
    <3> QED
      BY <1>3, <1>4, <2>1, <3>1 DEF Bodies
  <2>2. CASE u # s
    <3>1. serdata'[u] = serdata[u] /\ serdata[u] \in Bodies
      BY <1>3, <1>5, <2>2
    <3> QED
      BY <2>2, <3>1
  <2> QED
    BY <2>1, <2>2
<1>12. \A u \in Serdatas : Born(u)' <=> Born(u)
  BY <1>11 DEF Born
<1>13. ObjectsOwned'
  <2>1. m_t \subseteq {s} \X Makers /\ (m_t # {} => Born(s))
    BY <1>2, <1>3, Parts DEF m_t, ObjectsOwned, Makers
  <2>2. ASSUME NEW d \in Callers, Getting(d)'
        PROVE  /\ call'[d].sd \in kept'
               /\ call'[d].own \subseteq {<<call'[d].sd, d>>}
               /\ <<call'[d].sd, d>> \notin serdata'[call'[d].sd].m_t
    <3>1. d # c /\ call'[d] = call[d] /\ Getting(d)
      BY <1>8, <1>9, <2>2 DEF Getting
    <3>2. /\ call[d].sd \in kept /\ call[d].own \subseteq {<<call[d].sd, d>>}
          /\ <<call[d].sd, d>> \notin serdata[call[d].sd].m_t /\ call[d].sd \in Serdatas
      BY <3>1, Parts, CallTypes DEF ObjectsOwned
    <3>3. <<call[d].sd, d>> \notin serdata'[call[d].sd].m_t
      <4>1. CASE call[d].sd = s
        BY <1>2, <1>11, <3>1, <3>2, <4>1 DEF m_t
      <4>2. CASE call[d].sd # s
        BY <1>11, <3>2, <4>2
      <4> QED
        BY <4>1, <4>2
    <3> QED
      BY <3>1, <3>2, <3>3 DEF Publish
  <2>3. \A u \in Serdatas :
           serdata'[u].m_t \subseteq {u} \X Makers /\ (serdata'[u].m_t # {} => Born(u)')
    BY <1>11, <1>12, <2>1, Parts DEF ObjectsOwned
  <2> QED
    BY <2>2, <2>3 DEF ObjectsOwned
<1>14. ObjectsExact'
  <2>1. OnHeap(own) = own /\ OnHeap({}) = {}
    BY <1>2, ReadPathAssumption DEF OnHeap
  <2>2. \A u \in Serdatas : OnHeap(serdata[u].m_t) \subseteq serdata[u].m_t
    BY DEF OnHeap
  <2>3. /\ \A x : x \in LiveObjects <=>
               \E u \in Serdatas : serdata[u].life = "live" /\ x \in OnHeap(serdata[u].m_t)
        /\ \A x : x \in LiveObjects' <=>
               \E u \in Serdatas : serdata'[u].life = "live" /\ x \in OnHeap(serdata'[u].m_t)
    BY DEF LiveObjects
  <2>4. \A x : x \in LiveObjects' <=> x \in LiveObjects \/ (first /\ x \in own)
    <3>1. CASE first
      <4>1. /\ \A u \in Serdatas \ {s} : serdata'[u].m_t = serdata[u].m_t
            /\ OnHeap(serdata'[s].m_t) = own /\ OnHeap(serdata[s].m_t) = {}
        BY <1>2, <1>11, <2>1, <3>1 DEF m_t, first
      <4> QED
        BY <1>2, <1>3, <1>11, <2>3, <3>1, <4>1
    <3>2. CASE ~first
      <4>1. \A u \in Serdatas : serdata'[u].m_t = serdata[u].m_t
        BY <1>11, <3>2 DEF m_t
      <4> QED
        BY <1>11, <2>3, <3>2, <4>1
    <3> QED
      BY <3>1, <3>2
  <2>5. own \cap LiveObjects = {} \/ first
    <3> SUFFICES ASSUME NEW x \in own, x \in LiveObjects PROVE FALSE
      OBVIOUS
    <3>1. x = <<s, c>>
      BY <1>2
    <3>2. PICK u \in Serdatas : x \in serdata[u].m_t
      BY <2>2, <2>3
    <3>3. u = s
      BY <3>1, <3>2, Parts DEF ObjectsOwned
    <3> QED
      BY <1>2, <3>1, <3>2, <3>3
  <2>6. /\ \A x : x \in Unpublished <=> \E d \in Callers : Getting(d) /\ x \in call[d].own
        /\ \A x : x \in Unpublished' <=> \E d \in Callers : Getting(d)' /\ x \in call'[d].own
    BY DEF Unpublished, Getting
  <2>7. \A x : x \in Unpublished' <=> x \in Unpublished /\ x \notin own
    <3>1. \A d \in Callers \ {c} : (Getting(d)' <=> Getting(d)) /\ call'[d] = call[d]
      BY <1>8 DEF Getting
    <3>2. ASSUME NEW d \in Callers \ {c}, Getting(d) PROVE call[d].own \cap own = {}
      <4>1. call[d].own \subseteq {<<call[d].sd, d>>}
        BY <3>2, Parts DEF ObjectsOwned
      <4> QED
        BY <1>2, <4>1
    <3> QED
      BY <1>1, <1>9, <2>6, <3>1, <3>2 DEF own
  <2>8. own \subseteq Unpublished
    BY <1>1, <2>6 DEF own
  <2>9. \A x : x \in heap <=> x \in LiveObjects \/ x \in Unpublished
    BY Parts DEF ObjectsExact
  <2>10. \A x : x \in heap' <=> x \in LiveObjects' \/ x \in Unpublished'
    <3>1. CASE first
      BY <1>6, <2>4, <2>7, <2>8, <2>9, <3>1
    <3>2. CASE ~first
      BY <1>6, <2>4, <2>5, <2>7, <2>8, <2>9, <3>2
    <3> QED
      BY <3>1, <3>2
  <2> QED
    BY <2>10 DEF ObjectsExact
<1>15. ReferencesExact' /\ LoansExact'
  BY <1>10, <1>11, Parts DEF Publish, ReferencesExact, LoansExact
<1>16. BodiesTyped'
  BY <1>5, <1>11, Parts DEF BodiesTyped, Publish
<1>17. ObjectsThere'
  <2>1. \A u \in Serdatas : serdata[u].m_t # {} => serdata'[u].m_t # {}
    BY <1>11 DEF m_t, first
  <2>2. \A u \in ToBeRead' : serdata[u].m_t # {}
    BY <1>10, Parts DEF ObjectsThere
  <2>3. ToBeRead \subseteq Serdatas
    BY Parts, ToBeReadType
  <2> QED
    BY <1>10, <2>1, <2>2, <2>3 DEF ObjectsThere
<1>18. NewIsFree'
  BY <1>12, Parts DEF NewIsFree, Publish, PlacesTyped
<1> QED
  BY <1>10, <1>13, <1>14, <1>15, <1>16, <1>17, <1>18 DEF ReadInv, ReadTyped, OwnershipIsExact

LEMMA TransportLetsGoKeeps == ASSUME ReadInv, TransportLetsGo PROVE ReadInv'
<1>1. PICK t \in transport : /\ transport' = transport \ {t}
                             /\ loanRefs' = [loanRefs EXCEPT ![t] = loanRefs[t] - 1]
  BY DEF TransportLetsGo
<1> USE DEF TransportLetsGo
<1>2. PlacesTyped' /\ InOnePlace' /\ ObjectsOwned' /\ ObjectsThere'
  <2>1. Cached' = Cached /\ ToBeRead' = ToBeRead
    BY DEF Cached, ToBeRead, Referred, Reading
  <2>2. PlacesTyped' /\ InOnePlace'
    BY <1>1, <2>1, Parts DEF PlacesTyped, InOnePlace, Reading
  <2>3. ObjectsThere'
    BY <2>1, Parts DEF ObjectsThere
  <2> QED
    BY <2>2, <2>3, Parts DEF ObjectsOwned, Born, Getting
<1>3. t \in Serdatas /\ loanRefs \in [Serdatas -> Int]
  BY Parts DEF PlacesTyped, BodiesTyped
<1>4. BodiesTyped'
  BY <1>1, <1>3, Parts DEF BodiesTyped
<1>5. HeldFinite' /\ \A s \in Serdatas : HeldByCallers(s)' = HeldByCallers(s)
  BY Parts, HeldSame
<1>6. \A s \in Serdatas : Claims(s)' = Claims(s)
  BY <1>5 DEF Claims, Cached
<1>7. ReferencesExact' /\ ObjectsExact' /\ TakenOnce'
  BY <1>6, Parts DEF ReferencesExact, ObjectsExact, LiveObjects, Unpublished, TakenOnce, Cached
<1>8. LoansExact'
  <2> SUFFICES ASSUME NEW s \in Serdatas
               PROVE  loanRefs'[s] = In(s, transport')
                        + IF serdata[s].life = "live" /\ serdata[s].loan THEN 1 ELSE 0
    BY InCounts DEF LoansExact
  <2>1. loanRefs[s] = In(s, transport)
                        + IF serdata[s].life = "live" /\ serdata[s].loan THEN 1 ELSE 0
    <3>1. loanRefs[s] = Cardinality({s} \cap transport)
                          + IF serdata[s].life = "live" /\ serdata[s].loan THEN 1 ELSE 0
      BY Parts DEF LoansExact
    <3>2. Cardinality({s} \cap transport) = In(s, transport)
      BY InCounts
    <3> QED
      BY <3>1, <3>2
  <2>2. CASE s = t
    <3>1. loanRefs'[s] = loanRefs[s] - 1 /\ In(s, transport) = 1 /\ In(s, transport') = 0
      BY <1>1, <1>3, <2>2 DEF In
    <3> QED
      BY <2>1, <3>1
  <2>3. CASE s # t
    <3>1. loanRefs'[s] = loanRefs[s] /\ In(s, transport) = In(s, transport')
      BY <1>1, <1>3, <2>3 DEF In
    <3> QED
      BY <2>1, <3>1
  <2> QED
    BY <2>2, <2>3
<1>9. NewIsFree'
  BY <1>1, Parts DEF NewIsFree, Born
<1> QED
  BY <1>2, <1>4, <1>5, <1>7, <1>8, <1>9 DEF ReadInv, ReadTyped, OwnershipIsExact

-----------------------------------------------------------------------------
(* New serdatas.                                                           *)

(* Nobody knows one that is not born.                                      *)
LEMMA UnbornIsUnknown ==
    ASSUME ReadInv, NEW s \in Serdatas, serdata[s].life = "none"
    PROVE  /\ Claims(s) = 0 /\ serdata[s].m_t = {} /\ s \notin ToBeRead
           /\ s # incoming /\ s \notin Range(Cached) /\ s \notin kept /\ s \notin transport
           /\ taken[s] = 0 /\ OnHeap(serdata[s].m_t) = {}
<1>1. Claims(s) = 0
  <2>1. ~(serdata[s].refs > 0) /\ serdata[s].refs = Claims(s) /\ Claims(s) \in Nat
    BY Parts, ClaimsType DEF ReferencesExact
  <2> QED
    BY <2>1
<1>2. serdata[s].m_t = {} /\ s \notin transport
  BY Parts DEF ObjectsOwned, NewIsFree, Born
<1>3. s \notin ToBeRead
  BY <1>2, Parts DEF ObjectsThere
<1>4. taken[s] = 0
  BY Parts DEF NewIsFree, Born, PlacesTyped
<1> QED
  BY <1>1, <1>2, <1>3, <1>4, Parts, Unclaimed DEF OnHeap

(* One that is born is known at the place it is put, with its references.  *)
LEMMA BeginStep ==
    ASSUME ReadInv, NEW s \in Serdatas, NEW new \in Bodies, NEW loans \in Int, Begin(s, new, loans),
           new.life \in {"live", "freed"},
           new.m_t \subseteq {s} \X Makers, new.life = "freed" => new.m_t = {},
           new.refs = IF new.life = "live" THEN 1 ELSE 0,
           loans = In(s, transport') + IF new.life = "live" /\ new.loan THEN 1 ELSE 0,
           transport' \subseteq transport \cup {s}, transport \subseteq transport',
           \/ new.life = "freed" /\ incoming' = incoming /\ kept' = kept
           \/ new.life = "live" /\ incoming = Null /\ incoming' = s /\ kept' = kept /\ new.m_t # {}
           \/ new.life = "live" /\ incoming' = incoming /\ kept' = kept \cup {s},
           UNCHANGED <<cache, readerOpen, call, samples, ref, leaked, taken>>
    PROVE  ReadInv'
<1>0. /\ serdata[s].life = "none" /\ serdata' = [serdata EXCEPT ![s] = new]
      /\ heap' = heap \cup OnHeap(new.m_t) /\ loanRefs' = [loanRefs EXCEPT ![s] = loans]
  BY DEF Begin
<1>1. /\ Claims(s) = 0 /\ serdata[s].m_t = {} /\ s \notin ToBeRead
      /\ s # incoming /\ s \notin Range(Cached) /\ s \notin kept /\ s \notin transport
      /\ taken[s] = 0
  BY <1>0, UnbornIsUnknown
<1>2. serdata \in [Serdatas -> Bodies] /\ loanRefs \in [Serdatas -> Int]
  BY Parts DEF BodiesTyped
<1>3. /\ \A u \in Serdatas : serdata'[u] = IF u = s THEN new ELSE serdata[u]
      /\ \A u \in Serdatas : loanRefs'[u] = IF u = s THEN loans ELSE loanRefs[u]
      /\ serdata' \in [Serdatas -> Bodies] /\ loanRefs' \in [Serdatas -> Int]
  BY <1>0, <1>2
<1>4. Cached' = Cached
  BY DEF Cached
<1>5. PlacesTyped'
  BY <1>1, Parts DEF PlacesTyped
<1>6. InOnePlace'
  <2>1. Null \notin Range(Cached) /\ Null \notin kept
    BY CacheIsTyped, Parts DEF PlacesTyped
  <2> QED
    BY <1>1, <1>4, <2>1, Parts DEF InOnePlace, Reading
<1>7. \A u \in Serdatas : Born(u) => Born(u)'
  BY <1>0, <1>3 DEF Born
<1>8. ObjectsOwned'
  <2>1. \A u \in Serdatas :
           serdata'[u].m_t \subseteq {u} \X Makers /\ (serdata'[u].m_t # {} => Born(u)')
    BY <1>3, Parts DEF ObjectsOwned, Born
  <2>2. ASSUME NEW d \in Callers, Getting(d)'
        PROVE  /\ call'[d].sd \in kept'
               /\ call'[d].own \subseteq {<<call'[d].sd, d>>}
               /\ <<call'[d].sd, d>> \notin serdata'[call'[d].sd].m_t
    <3>1. Getting(d) /\ call'[d] = call[d]
      BY <2>2 DEF Getting
    <3>2. /\ call[d].sd \in kept /\ call[d].own \subseteq {<<call[d].sd, d>>}
          /\ <<call[d].sd, d>> \notin serdata[call[d].sd].m_t /\ call[d].sd \in Serdatas
      BY <3>1, Parts, CallTypes DEF ObjectsOwned
    <3> QED
      BY <1>1, <1>3, <3>1, <3>2
  <2> QED
    BY <2>1, <2>2 DEF ObjectsOwned
<1>9. ObjectsThere'
  <2>1. ToBeRead' \subseteq ToBeRead \cup ({incoming'} \ {Null})
    BY <1>4 DEF ToBeRead, Referred, Reading, Null
  <2>2. \A u \in ToBeRead : u \in Serdatas /\ u # s /\ serdata[u].m_t # {}
    BY <1>1, Parts, ToBeReadType DEF ObjectsThere
  <2>3. incoming # Null => incoming \in ToBeRead
    BY DEF ToBeRead
  <2>4. \A u \in ToBeRead' : u \in ToBeRead \/ (u = s /\ new.m_t # {})
    BY <2>1, <2>3
  <2> QED
    BY <1>3, <2>2, <2>4 DEF ObjectsThere
<1>10. NewIsFree'
  <2>1. \A u \in transport' : Born(u)'
    BY <1>3, <1>7, Parts DEF NewIsFree, Born, PlacesTyped
  <2>2. \A u \in Serdatas : taken'[u] > 0 => Born(u)' /\ u # incoming'
    BY <1>1, <1>7, Parts DEF NewIsFree
  <2> QED
    BY <2>1, <2>2 DEF NewIsFree
<1>11. HeldFinite' /\ \A u \in Serdatas : HeldByCallers(u)' = HeldByCallers(u)
  BY Parts, HeldSame
<1>12. ASSUME NEW u \in Serdatas
       PROVE  Claims(u)' = Claims(u) + IF u = s /\ new.life = "live" THEN 1 ELSE 0
  <2>1. /\ Claims(u)' = Claims(u) + (One(u, incoming') - One(u, incoming))
                 + (One(u, ref') - One(u, ref)) + (Occurs(u, Cached') - Occurs(u, Cached))
                 + (In(u, kept') - In(u, kept)) + (In(u, leaked') - In(u, leaked))
                 + (Cardinality(HeldByCallers(u)') - Cardinality(HeldByCallers(u)))
        /\ Claims(u) \in Int /\ Occurs(u, Cached) \in Int
        /\ One(u, incoming) \in Int /\ One(u, ref) \in Int /\ One(u, incoming') \in Int
        /\ In(u, kept) \in Int /\ In(u, leaked) \in Int /\ In(u, kept') \in Int
        /\ Cardinality(HeldByCallers(u)) \in Int
    BY <1>5, <1>11, ClaimsChange
  <2>2. /\ Occurs(u, Cached') = Occurs(u, Cached) /\ One(u, ref') = One(u, ref)
        /\ In(u, leaked') = In(u, leaked)
        /\ Cardinality(HeldByCallers(u)') = Cardinality(HeldByCallers(u))
    BY <1>4, <1>11
  <2>3. Claims(u)' = Claims(u) + (One(u, incoming') - One(u, incoming))
                      + (In(u, kept') - In(u, kept))
    BY <2>1, <2>2
  <2>4. CASE incoming' = incoming /\ kept' = kept /\ new.life = "freed"
    BY <2>1, <2>3, <2>4
  <2>5. CASE incoming = Null /\ incoming' = s /\ kept' = kept /\ new.life = "live"
    <3>1. One(u, incoming) = 0 /\ One(u, incoming') = IF u = s THEN 1 ELSE 0
      BY <2>5, Parts DEF One
    <3> QED
      BY <2>1, <2>3, <2>5, <3>1
  <2>6. CASE incoming' = incoming /\ kept' = kept \cup {s} /\ new.life = "live"
    <3>1. In(u, kept') - In(u, kept) = IF u = s THEN 1 ELSE 0
      BY <1>1, <2>6 DEF In
    <3> QED
      BY <2>1, <2>3, <2>6, <3>1
  <2> QED
    BY <2>4, <2>5, <2>6
<1>13. ReferencesExact'
  <2> SUFFICES ASSUME NEW u \in Serdatas
               PROVE  /\ serdata'[u].refs = Claims(u)'
                      /\ serdata'[u].refs > 0 <=> serdata'[u].life = "live"
    BY DEF ReferencesExact
  <2>1. CASE u = s
    BY <1>1, <1>3, <1>12, <2>1
  <2>2. CASE u # s
    <3>1. serdata'[u] = serdata[u] /\ Claims(u)' = Claims(u)
      BY <1>3, <1>12, <2>2, Parts, ClaimsType
    <3> QED
      BY <3>1, Parts DEF ReferencesExact
  <2> QED
    BY <2>1, <2>2
<1>14. ObjectsExact'
  <2>1. /\ \A x : x \in LiveObjects <=>
               \E u \in Serdatas : serdata[u].life = "live" /\ x \in OnHeap(serdata[u].m_t)
        /\ \A x : x \in LiveObjects' <=>
               \E u \in Serdatas : serdata'[u].life = "live" /\ x \in OnHeap(serdata'[u].m_t)
    BY DEF LiveObjects
  <2>2. OnHeap({}) = {}
    BY DEF OnHeap
  <2>3. \A x : x \in LiveObjects' <=> x \in LiveObjects \/ x \in OnHeap(new.m_t)
    BY <1>0, <1>3, <2>1, <2>2
  <2>4. Unpublished' = Unpublished
    BY DEF Unpublished
  <2>5. LiveObjects' = LiveObjects \cup OnHeap(new.m_t)
    BY <2>3
  <2> QED
    BY <1>0, <2>4, <2>5, Parts DEF ObjectsExact
<1>15. LoansExact'
  <2> SUFFICES ASSUME NEW u \in Serdatas
               PROVE  loanRefs'[u] = In(u, transport')
                        + IF serdata'[u].life = "live" /\ serdata'[u].loan THEN 1 ELSE 0
    BY InCounts DEF LoansExact
  <2>1. CASE u = s
    BY <1>3, <2>1
  <2>2. CASE u # s
    <3>1. In(u, transport') = In(u, transport) /\ serdata'[u] = serdata[u] /\ loanRefs'[u] = loanRefs[u]
      BY <1>3, <2>2 DEF In
    <3> QED
      BY <3>1, Parts, InCounts DEF LoansExact
  <2> QED
    BY <2>1, <2>2
<1>16. TakenOnce'
  BY <1>4, Parts DEF TakenOnce
<1>17. BodiesTyped'
  BY <1>3 DEF BodiesTyped
<1> QED
  BY <1>5, <1>6, <1>8, <1>9, <1>10, <1>11, <1>13, <1>14, <1>15, <1>16, <1>17
  DEF ReadInv, ReadTyped, OwnershipIsExact

LEMMA DeletedKeeps ==
    ASSUME ReadInv, NEW s \in Serdatas, Deleted(s),
           UNCHANGED <<transport, incoming, cache, kept, readerOpen, call, samples, ref, leaked,
                       taken>>
    PROVE  ReadInv'
<1> DEFINE new == [Unborn EXCEPT !.life = "freed"]
<1>1. /\ new \in Bodies /\ new.life = "freed" /\ new.refs = 0 /\ new.m_t = {}
  <2>1. Unborn \in Bodies /\ Unborn.refs = 0 /\ Unborn.m_t = {}
    BY DEF Unborn, Bodies
  <2> QED
    BY <2>1 DEF Bodies
<1>2. Begin(s, new, 0)
  BY DEF Deleted
<1> HIDE DEF new
<1>3. s \notin transport
  BY <1>2, UnbornIsUnknown DEF Begin
<1>4. 0 = In(s, transport') + IF new.life = "live" /\ new.loan THEN 1 ELSE 0
  BY <1>1, <1>3 DEF In
<1>5. 0 \in Int /\ new.m_t \subseteq {s} \X Makers /\ new.refs = IF new.life = "live" THEN 1 ELSE 0
  BY <1>1
<1> QED
  BY <1>1, <1>2, <1>4, <1>5, BeginStep

(* One that is delivered, and one that is kept.                            *)
LEMMA BornKeeps ==
    ASSUME ReadInv, NEW s \in Serdatas, NEW i \in Instances \cup {AnyInstance},
           NEW maker \in Makers, NEW m_t \in {{}, Object(s, maker)},
           NEW loan \in BOOLEAN, NEW bytes \in BOOLEAN, NEW loans \in Int,
           Begin(s, Live(i, m_t, loan, bytes), loans),
           loans = In(s, transport') + IF loan THEN 1 ELSE 0,
           transport' \subseteq transport \cup {s}, transport \subseteq transport',
           \/ incoming = Null /\ incoming' = s /\ kept' = kept /\ m_t # {}
           \/ incoming' = incoming /\ kept' = kept \cup {s},
           UNCHANGED <<cache, readerOpen, call, samples, ref, leaked, taken>>
    PROVE  ReadInv'
<1> DEFINE new == Live(i, m_t, loan, bytes)
<1>1. /\ new \in Bodies /\ new.life = "live" /\ new.refs = 1 /\ new.m_t = m_t /\ new.loan = loan
      /\ m_t \subseteq {s} \X Makers
  <2>1. m_t \in SUBSET (Serdatas \X Makers) /\ m_t \subseteq {s} \X Makers
    BY DEF Object
  <2> QED
    BY <2>1 DEF Live, Bodies
<1>2. Begin(s, new, loans)
  OBVIOUS
<1> HIDE DEF new
<1>3. /\ new.life \in {"live", "freed"} /\ new.m_t \subseteq {s} \X Makers
      /\ new.life # "freed" /\ new.refs = IF new.life = "live" THEN 1 ELSE 0
      /\ loans = In(s, transport') + IF new.life = "live" /\ new.loan THEN 1 ELSE 0
  BY <1>1
<1> QED
  BY <1>1, <1>2, <1>3, BeginStep

LEMMA FromSerKeeps == ASSUME ReadInv, FromSer PROVE ReadInv'
<1>1. PICK s \in Serdatas, i \in Instances :
         \/ /\ Begin(s, Live(i, Object(s, "receiver"), FALSE, TRUE), 0)
            /\ incoming' = s
         \/ Deleted(s) /\ UNCHANGED incoming
  BY DEF FromSer
<1>2. CASE Deleted(s) /\ UNCHANGED incoming
  BY <1>2, DeletedKeeps DEF FromSer
<1>3. CASE Begin(s, Live(i, Object(s, "receiver"), FALSE, TRUE), 0) /\ incoming' = s
  <2>1. In(s, transport') = 0
    BY <1>3, UnbornIsUnknown DEF Begin, In, FromSer
  <2>2. 0 = In(s, transport') + IF FALSE THEN 1 ELSE 0
    BY <2>1
  <2> DEFINE m_t == Object(s, "receiver")
             loan == FALSE
             bytes == TRUE
             loans == 0
  <2>3. /\ "receiver" \in Makers /\ m_t # {} /\ m_t \in {{}, Object(s, "receiver")}
        /\ loan \in BOOLEAN /\ bytes \in BOOLEAN /\ loans \in Int
    BY DEF Makers, Object
  <2>4. loans = In(s, transport') + IF loan THEN 1 ELSE 0
    BY <2>2
  <2>5. Begin(s, Live(i, m_t, loan, bytes), loans)
    BY <1>3
  <2> HIDE DEF m_t, loan, bytes, loans
  <2> QED
    BY <1>3, <2>3, <2>4, <2>5, BornKeeps DEF FromSer
<1> QED
  BY <1>1, <1>2, <1>3

LEMMA FromPsmxKeeps == ASSUME ReadInv, FromPsmx PROVE ReadInv'
<1>1. PICK s \in Serdatas, i \in Instances :
         \/ /\ Begin(s, Live(i, Object(s, "loan"), TRUE, FALSE), SetLoan)
            /\ incoming' = s /\ transport' = transport \cup {s}
         \/ /\ Begin(s, Live(i, Object(s, "receiver"), FALSE, FALSE), 0)
            /\ incoming' = s /\ UNCHANGED transport
         \/ Deleted(s) /\ UNCHANGED <<incoming, transport>>
  BY DEF FromPsmx
<1>2. CASE Deleted(s) /\ UNCHANGED <<incoming, transport>>
  BY <1>2, DeletedKeeps DEF FromPsmx
<1>3. CASE /\ Begin(s, Live(i, Object(s, "receiver"), FALSE, FALSE), 0)
           /\ incoming' = s /\ UNCHANGED transport
  <2>1. In(s, transport') = 0
    BY <1>3, UnbornIsUnknown DEF Begin, In
  <2>2. 0 = In(s, transport') + IF FALSE THEN 1 ELSE 0
    BY <2>1
  <2> DEFINE m_t == Object(s, "receiver")
             loan == FALSE
             bytes == FALSE
             loans == 0
  <2>3. /\ "receiver" \in Makers /\ m_t # {} /\ m_t \in {{}, Object(s, "receiver")}
        /\ loan \in BOOLEAN /\ bytes \in BOOLEAN /\ loans \in Int
    BY DEF Makers, Object
  <2>4. loans = In(s, transport') + IF loan THEN 1 ELSE 0
    BY <2>2
  <2>5. Begin(s, Live(i, m_t, loan, bytes), loans)
    BY <1>3
  <2> HIDE DEF m_t, loan, bytes, loans
  <2> QED
    BY <1>3, <2>3, <2>4, <2>5, BornKeeps DEF FromPsmx
<1>4. CASE /\ Begin(s, Live(i, Object(s, "loan"), TRUE, FALSE), SetLoan)
           /\ incoming' = s /\ transport' = transport \cup {s}
  <2>1. In(s, transport') = 1
    BY <1>4 DEF In
  <2>2. SetLoan = In(s, transport') + IF TRUE THEN 1 ELSE 0
    BY <2>1 DEF SetLoan
  <2>3. "loan" \in Makers /\ Object(s, "loan") # {} /\ SetLoan \in Int
    BY DEF Makers, Object, SetLoan
  <2> QED
    BY <1>4, <2>2, <2>3, BornKeeps DEF FromPsmx
<1> QED
  BY <1>1, <1>2, <1>3, <1>4

LEMMA FromSampleKeeps == ASSUME ReadInv, FromSample PROVE ReadInv'
<1>1. PICK s \in Serdatas, loan \in BOOLEAN, raw \in BOOLEAN :
         /\ Begin(s, Live(Unread, IF raw THEN {} ELSE Object(s, "receiver"), loan, ~raw),
                     IF loan THEN 1 ELSE 0)
         /\ kept' = kept \cup {s}
  BY DEF FromSample
<1> DEFINE m_t == IF raw THEN {} ELSE Object(s, "receiver")
           loans == IF loan THEN 1 ELSE 0
<1>2. In(s, transport') = 0
  BY <1>1, UnbornIsUnknown DEF Begin, In, FromSample
<1>3. loans \in Int /\ loans = In(s, transport') + IF loan THEN 1 ELSE 0
  BY <1>2
<1>4. "receiver" \in Makers /\ m_t \in {{}, Object(s, "receiver")} /\ (~raw) \in BOOLEAN
  BY DEF Makers
<1>5. Unread \in Instances \cup {AnyInstance}
  BY DEF Unread
<1>6. Begin(s, Live(Unread, m_t, loan, ~raw), loans)
  BY <1>1
<1> HIDE DEF m_t, loans
<1> QED
  BY <1>1, <1>3, <1>4, <1>5, <1>6, BornKeeps DEF FromSample

LEMMA ToUntypedKeeps == ASSUME ReadInv, ToUntyped PROVE ReadInv'
<1>1. PICK s \in Serdatas : Begin(s, Live(Unread, {}, FALSE, TRUE), 0) /\ kept' = kept \cup {s}
  BY DEF ToUntyped
<1>2. In(s, transport') = 0
  BY <1>1, UnbornIsUnknown DEF Begin, In, ToUntyped
<1>3. 0 = In(s, transport') + IF FALSE THEN 1 ELSE 0
  BY <1>2
<1> DEFINE m_t == {}
           loan == FALSE
           bytes == TRUE
           loans == 0
<1>4. /\ "receiver" \in Makers /\ m_t \in {{}, Object(s, "receiver")}
      /\ loan \in BOOLEAN /\ bytes \in BOOLEAN /\ loans \in Int
  BY DEF Makers
<1>6. loans = In(s, transport') + IF loan THEN 1 ELSE 0
  BY <1>3
<1>7. Begin(s, Live(Unread, m_t, loan, bytes), loans)
  BY <1>1
<1>5. Unread \in Instances \cup {AnyInstance}
  BY DEF Unread
<1> HIDE DEF m_t, loan, bytes, loans
<1> QED
  BY <1>1, <1>4, <1>5, <1>6, <1>7, BornKeeps DEF ToUntyped

-----------------------------------------------------------------------------
(* The invariant holds at the start and is kept by every step.             *)
LEMMA ReadStart == ReadInit => ReadInv
<1> SUFFICES ASSUME ReadInit PROVE ReadInv
  OBVIOUS
<1> USE DEF ReadInit
<1>1. ReadTyped
  <2>1. Unborn \in Bodies
    BY DEF Unborn, Bodies
  <2>2. BodiesTyped
    BY <2>1 DEF BodiesTyped
  <2>3. cache \in Seq([sd : Serdatas, seen : BOOLEAN])
    OBVIOUS
  <2>4. samples \in [Callers -> Seq(Serdatas)]
    <3>1. << >> \in Seq(Serdatas)
      OBVIOUS
    <3> QED
      BY <3>1
  <2>5. PlacesTyped
    BY <2>3, <2>4 DEF PlacesTyped
  <2> QED
    BY <2>2, <2>5 DEF ReadTyped
<1>2. \A c \in Callers : call[c] = Idle /\ ~Reading(c) /\ ~Getting(c) /\ samples[c] = << >>
  BY DEF Idle, Reading, Getting
<1>3. Range(Cached) = {} /\ DOMAIN cache = {}
  BY DEF Cached, Range
<1>4. \A s : ~(s \in Referred)
  BY <1>2, ReferredAre DEF Range
<1>5. ToBeRead = {}
  BY <1>2, <1>3, <1>4 DEF ToBeRead
<1>6. InOnePlace /\ ObjectsThere
  BY <1>2, <1>3, <1>5 DEF InOnePlace, ObjectsThere
<1>7. ObjectsOwned /\ NewIsFree
  BY <1>2, <1>3 DEF ObjectsOwned, NewIsFree, Unborn
<1>8. \A s \in Serdatas : HeldByCallers(s) = {}
  <2> SUFFICES ASSUME NEW s \in Serdatas, NEW c \in Callers
               PROVE  RefsOf(c, s, samples[c], call[c]) = {}
    BY DEF HeldByCallers
  <2> QED
    BY <1>2 DEF RefsOf, Reading
<1>9. HeldFinite
  BY <1>8, FS_EmptySet DEF HeldFinite
<1>10. ReferencesExact
  <2> SUFFICES ASSUME NEW s \in Serdatas PROVE Claims(s) = 0
    BY DEF ReferencesExact, Unborn
  <2>1. /\ Claims(s) = One(s, incoming) + One(s, ref) + Occurs(s, Cached) + In(s, kept)
                            + In(s, leaked) + Cardinality(HeldByCallers(s))
        /\ Occurs(s, Cached) \in Nat /\ (Occurs(s, Cached) > 0 <=> s \in Range(Cached))
        /\ (Cardinality(HeldByCallers(s)) = 0 <=> HeldByCallers(s) = {})
    BY <1>1, <1>9, ClaimsType
  <2>2. One(s, incoming) = 0 /\ One(s, ref) = 0
    BY ReadPathAssumption DEF One, Null, Serdatas
  <2>3. In(s, kept) = 0 /\ In(s, leaked) = 0
    BY DEF In
  <2>4. Occurs(s, Cached) = 0 /\ Cardinality(HeldByCallers(s)) = 0
    BY <1>3, <1>8, <2>1
  <2> QED
    BY <2>1, <2>2, <2>3, <2>4
<1>11. ObjectsExact
  BY <1>2 DEF ObjectsExact, LiveObjects, Unpublished, Unborn, Getting
<1>12. LoansExact
  <2>1. \A s \in Serdatas : In(s, transport) = 0
    BY DEF In
  <2> QED
    BY <2>1, InCounts DEF LoansExact, Unborn
<1>13. TakenOnce
  BY <1>3 DEF TakenOnce
<1> QED
  BY <1>1, <1>6, <1>7, <1>9, <1>10, <1>11, <1>12, <1>13 DEF ReadInv, OwnershipIsExact

LEMMA ReadStutters == ASSUME ReadInv, UNCHANGED readVars PROVE ReadInv'
<1> USE DEF readVars
<1>1. Cached' = Cached /\ ToBeRead' = ToBeRead
  BY DEF Cached, ToBeRead, Referred, Reading, Null
<1>2. ReadTyped' /\ InOnePlace'
  BY <1>1, Parts DEF ReadTyped, BodiesTyped, PlacesTyped, InOnePlace, Reading
<1>3. ObjectsOwned' /\ ObjectsThere' /\ NewIsFree'
  BY <1>1, Parts DEF ObjectsOwned, ObjectsThere, NewIsFree, Getting, Born
<1>4. HeldFinite' /\ \A s \in Serdatas : HeldByCallers(s)' = HeldByCallers(s)
  BY Parts, HeldSame
<1>5. \A s \in Serdatas : Claims(s)' = Claims(s)
  BY <1>1, <1>4 DEF Claims
<1>6. ReferencesExact' /\ LoansExact' /\ TakenOnce'
  BY <1>1, <1>5, Parts DEF ReferencesExact, LoansExact, TakenOnce
<1>7. ObjectsExact'
  BY Parts DEF ObjectsExact, LiveObjects, Unpublished
<1> QED
  BY <1>2, <1>3, <1>4, <1>6, <1>7 DEF ReadInv, OwnershipIsExact

LEMMA ReadKeeps == ASSUME ReadInv, [ReadNext]_readVars PROVE ReadInv'
<1>1. CASE UNCHANGED readVars
  BY <1>1, ReadStutters
<1>2. CASE FromSer \/ FromPsmx \/ FromSample \/ ToUntyped
  BY <1>2, FromSerKeeps, FromPsmxKeeps, FromSampleKeeps, ToUntypedKeeps
<1>3. CASE Store \/ DropIncoming \/ LetGo \/ TransportLetsGo
  BY <1>3, StoreKeeps, DropIncomingKeeps, LetGoKeeps, TransportLetsGoKeeps
<1>4. CASE ConstructRef \/ AssignRef \/ DestroyRef
  BY <1>4, ConstructRefKeeps, AssignRefKeeps, DestroyRefKeeps
<1>5. ASSUME NEW c \in Callers,
             \/ GetT(c) \/ Publish(c)
             \/ BeginRead(c) \/ Collect(c) \/ EndRead(c) \/ CloseReader(c)
             \/ DropSamples(c)
      PROVE  ReadInv'
  BY <1>5, GetTKeeps, PublishKeeps, BeginReadKeeps, CollectKeeps, EndReadKeeps,
     CloseReaderKeeps, DropSamplesKeeps
<1> QED
  BY <1>1, <1>2, <1>3, <1>4, <1>5 DEF ReadNext

(* For every number of serdatas, threads, instances and SampleRefs, of any *)
(* history depth: the references that the C library, the read calls, the   *)
(* LoanedSamples and the SampleRefs have to a serdata are counted exactly, *)
(* so none is freed under anybody; the objects of the topic type that are  *)
(* allocated are those of live serdatas and of threads in getT(); a loan   *)
(* is given back with its last sample; and what was taken is taken once.   *)
THEOREM OwnershipStaysExact == ReadSpec => []OwnershipIsExact
<1>1. ReadInv => OwnershipIsExact
  BY DEF ReadInv
<1> QED
  BY <1>1, ReadStart, ReadKeeps, PTL DEF ReadSpec

(* What the iterators and data() dereference of a sample the application   *)
(* has, or is to be given, is never the null pointer.                      *)
THEOREM DataStaysThere == ReadSpec => []DataIsThere
<1>1. ReadInv => DataIsThere
  BY DEF ReadInv, ObjectsThere, ToBeRead, DataIsThere
<1> QED
  BY <1>1, ReadStart, ReadKeeps, PTL DEF ReadSpec

(* Only Publish writes m_t of a serdata that lives, where it was null.     *)
LEMMA DataStays ==
    ASSUME ReadInv, [ReadNext]_readVars, NEW s \in Serdatas,
           serdata[s].life = "live", serdata[s].m_t # {}
    PROVE  serdata'[s].m_t = serdata[s].m_t
<1>1. serdata \in [Serdatas -> Bodies]
  BY Parts DEF BodiesTyped
<1>2. ASSUME NEW n, Ref(n) PROVE serdata'[s].m_t = serdata[s].m_t
  <2>1. serdata[s] \in Bodies
    BY <1>1
  <2> QED
    BY <1>2, <2>1 DEF Ref, Bodies
<1>3. ASSUME NEW u \in Serdatas, NEW new, NEW loans, Begin(u, new, loans)
      PROVE  serdata'[s].m_t = serdata[s].m_t
  BY <1>1, <1>3 DEF Begin
<1>4. CASE FromSer \/ FromPsmx \/ FromSample \/ ToUntyped
  BY <1>3, <1>4 DEF FromSer, FromPsmx, FromSample, ToUntyped, Deleted
<1>5. CASE UNCHANGED serdata
  BY <1>5
<1>6. ASSUME NEW c \in Callers, Publish(c) PROVE serdata'[s].m_t = serdata[s].m_t
  <2>1. call[c].sd \in Serdatas
    BY <1>6, Parts, CallTypes DEF Publish, Getting
  <2>2. CASE call[c].sd = s
    BY <1>1, <1>6, <2>2 DEF Publish, Bodies
  <2>3. CASE call[c].sd # s
    BY <1>1, <1>6, <2>1, <2>3 DEF Publish
  <2> QED
    BY <2>2, <2>3
<1>7. CASE Store \/ DropIncoming \/ LetGo \/ TransportLetsGo
  BY <1>2, <1>5, <1>7 DEF Store, DropIncoming, LetGo, TransportLetsGo
<1>8. CASE ConstructRef \/ AssignRef \/ DestroyRef
  BY <1>2, <1>8 DEF ConstructRef, AssignRef, DestroyRef
<1>9. ASSUME NEW c \in Callers,
             \/ GetT(c) \/ BeginRead(c) \/ Collect(c) \/ EndRead(c) \/ CloseReader(c)
             \/ DropSamples(c)
      PROVE  serdata'[s].m_t = serdata[s].m_t
  BY <1>2, <1>5, <1>9 DEF GetT, BeginRead, Collect, EndRead, CloseReader, DropSamples
<1> QED
  BY <1>4, <1>5, <1>6, <1>7, <1>8, <1>9 DEF ReadNext, readVars

(* The address that data() returned for a sample stays its object as long  *)
(* as the serdata lives, whatever other threads make of it in getT().      *)
THEOREM DataStaysStable == ReadSpec => DataIsStable
<1> DEFINE Stable ==
        \A s \in Serdatas :
            serdata[s].life = "live" /\ serdata[s].m_t # {} => serdata'[s].m_t = serdata[s].m_t
<1>1. ReadInv /\ [ReadNext]_readVars => Stable
  BY DataStays
<1>2. ReadInv /\ [ReadNext]_readVars => [Stable]_readVars
  BY <1>1
<1> QED
  BY <1>2, ReadStart, ReadKeeps, PTL DEF ReadSpec, DataIsStable
=============================================================================
