---------------------------- MODULE SampleStates ----------------------------
(***************************************************************************)
(* The states of a sample, in three languages: the bits of a DataState     *)
(* that an application selects with, the mask of the C layer that is made  *)
(* of it, and the DataState that SampleInfo makes of what the C layer says *)
(* of a sample. The samples here are those of one instance; ReadPath has   *)
(* what happens to them, and the lengths of a read.                        *)
(***************************************************************************)
EXTENDS Integers, FiniteSets

CONSTANT MaxSamples     \* bound: the samples of the instance
ASSUME SampleAssumption == MaxSamples \in Nat \ {0}

VARIABLES
    dataState,   \* what the application selects: sets of bits [ss, vs, is]
    instance,    \* the instance in the C layer: [view, state]
    rhc,         \* its samples: [id, read]
    returned,    \* the result of the last read() or take(); NoResult: discarded
    readBefore   \* history: the samples that a read() has returned

stateVars == <<dataState, instance, rhc, returned, readBefore>>

NoResult == [by |-> {}]

(* Bitsets of 32 bits, of which any() has 16.                              *)
AnyBit == 0 .. 15
IsRead == {0}
IsNotRead == {1}
NewView == {0}
NotNewView == {1}
Alive == {0}
NotAliveDisposed == {1}
NotAliveNoWriters == {2}
NotAliveMask == NotAliveDisposed \cup NotAliveNoWriters

State(ss, vs, is) == [ss |-> ss, vs |-> vs, is |-> is]
AnyData == State(AnyBit, AnyBit, Alive)
NamedStates ==
    {State(AnyBit, AnyBit, AnyBit), State(IsNotRead, AnyBit, Alive), AnyData, State(AnyBit, NewView, Alive)}

(* What the three operators << and the three setters take.                 *)
SampleStateValues == {IsRead, IsNotRead, AnyBit}
ViewStateValues == {NewView, NotNewView, AnyBit}
InstanceStateValues == {Alive, NotAliveDisposed, NotAliveNoWriters, NotAliveMask, AnyBit}

(* The constructors from one state leave the others any().                 *)
ConstructedStates ==
    {State(AnyBit, AnyBit, AnyBit)} \cup {State(s, AnyBit, AnyBit) : s \in SampleStateValues}
    \cup {State(AnyBit, v, AnyBit) : v \in ViewStateValues}
    \cup {State(AnyBit, AnyBit, i) : i \in InstanceStateValues}

(* get_ddsc_state_mask(): the bits of a DataState that mean something,     *)
(* shifted to where the C layer has them.                                  *)
Shift(bits, n) == {b + n : b \in bits}
ViewsOverInstances(d) ==      \* mutant: the shifts exchanged
    (d.ss \cap 0 .. 1) \cup Shift(d.vs \cap 0 .. 1, 4) \cup Shift(d.is \cap 0 .. 2, 2)
StateMask(d) ==
    (d.ss \cap 0 .. 1) \cup Shift(d.vs \cap 0 .. 1, 2) \cup Shift(d.is \cap 0 .. 2, 4)

(* The bits of the C layer.                                                *)
CBit ==
    [READ |-> 0, NOT_READ |-> 1, NEW_VIEW |-> 2, NOT_NEW_VIEW |-> 3,
     ALIVE |-> 4, NOT_ALIVE_DISPOSED |-> 5, NOT_ALIVE_NO_WRITERS |-> 6]

(* A sample as the C layer presents it, and the ones a mask selects.       *)
Presented(s) ==
    [id |-> s.id, sst |-> IF s.read THEN "READ" ELSE "NOT_READ",
     vst |-> instance.view, ist |-> instance.state]

Selected(mask) ==
    {s \in rhc : LET p == Presented(s)
                    IN {CBit[p.sst], CBit[p.vst], CBit[p.ist]} \subseteq mask}

(* The constructor of SampleInfoImpl, of what the C layer presents.        *)
InfoState(p) ==
    State(IF p.sst = "READ" THEN IsRead ELSE IsNotRead,
          IF p.vst = "NEW_VIEW" THEN NewView ELSE NotNewView,
          IF p.ist = "ALIVE" THEN Alive
          ELSE IF p.ist = "NOT_ALIVE_DISPOSED" THEN NotAliveDisposed ELSE NotAliveNoWriters)

Info(s) == [id |-> s.id, state |-> InfoState(Presented(s))]

StatesInit ==
    /\ dataState \in NamedStates \cup ConstructedStates
    /\ instance = [view |-> "NEW_VIEW", state |-> "ALIVE"]
    /\ rhc = {}
    /\ returned = NoResult
    /\ readBefore = {}

-----------------------------------------------------------------------------
(* operator << and the setters: one of the three states is replaced.       *)
SelectStates ==
    /\ returned = NoResult
    /\ \/ \E s \in SampleStateValues : dataState' = [dataState EXCEPT !.ss = s]
       \/ \E v \in ViewStateValues : dataState' = [dataState EXCEPT !.vs = v]
       \/ \E i \in InstanceStateValues : dataState' = [dataState EXCEPT !.is = i]
    /\ UNCHANGED <<instance, rhc, returned, readBefore>>

(* The C layer: a sample arrives (and a writer with it), or the instance   *)
(* is disposed or loses its writers. An instance that revives is new.      *)
Arrives ==
    /\ returned = NoResult
    /\ Cardinality(rhc) < MaxSamples
    /\ \E n \in 1 .. MaxSamples :
          /\ n \notin {s.id : s \in rhc} \cup readBefore
          /\ rhc' = rhc \cup {[id |-> n, read |-> FALSE]}
    /\ instance' = IF instance.state = "ALIVE" THEN instance
                   ELSE [view |-> "NEW_VIEW", state |-> "ALIVE"]
    /\ UNCHANGED <<dataState, returned, readBefore>>

Dies ==
    /\ returned = NoResult
    /\ instance.state = "ALIVE"
    /\ \E state \in {"NOT_ALIVE_DISPOSED", "NOT_ALIVE_NO_WRITERS"} :
          instance' = [instance EXCEPT !.state = state]
    /\ UNCHANGED <<dataState, rhc, returned, readBefore>>

(* read(), take() and their variants with a state: each sample is reported *)
(* as it was before.                                                       *)
ReadOrTake(take) ==
    /\ returned = NoResult
    /\ LET some == Selected(StateMask(dataState))
       IN /\ returned' = [by |-> {"read"}, from |-> {Info(s) : s \in rhc},
                          infos |-> {Info(s) : s \in some}, earlier |-> readBefore]
          /\ rhc' = IF take THEN rhc \ some
                       ELSE {[s EXCEPT !.read = s.read \/ s \in some] : s \in rhc}
          /\ instance' = IF some = {} THEN instance ELSE [instance EXCEPT !.view = "NOT_NEW_VIEW"]
          /\ readBefore' = readBefore \cup {s.id : s \in some}
    /\ UNCHANGED dataState

Discard ==
    /\ returned # NoResult
    /\ returned' = NoResult
    /\ UNCHANGED <<dataState, instance, rhc, readBefore>>

StatesNext ==
    SelectStates \/ Arrives \/ Dies \/ Discard \/ \E take \in BOOLEAN : ReadOrTake(take)

StatesSpec == StatesInit /\ [][StatesNext]_stateVars

-----------------------------------------------------------------------------
StatesTypeOK ==
    /\ dataState \in [ss : SampleStateValues, vs : ViewStateValues, is : InstanceStateValues]
    /\ instance \in [view : {"NEW_VIEW", "NOT_NEW_VIEW"},
                     state : {"ALIVE", "NOT_ALIVE_DISPOSED", "NOT_ALIVE_NO_WRITERS"}]
    /\ rhc \subseteq [id : 1 .. MaxSamples, read : BOOLEAN]
    /\ returned.by \subseteq {"read"}
    /\ readBefore \subseteq 1 .. MaxSamples

Includes(d, state) == state.ss \subseteq d.ss /\ state.vs \subseteq d.vs /\ state.is \subseteq d.is

(* A read or take with a DataState returns a sample if and only if that    *)
(* DataState includes the states that SampleInfo then shows of the sample, *)
(* whatever the DataState was made of; and a sample that is returned as    *)
(* not read was not returned by a read before.                             *)
SelectsWhatItShows ==
    returned # NoResult =>
        /\ \A i \in returned.from : (i \in returned.infos) = Includes(dataState, i.state)
        /\ \A i \in returned.infos : (i.state.ss = IsNotRead) = (i.id \notin returned.earlier)
=============================================================================
