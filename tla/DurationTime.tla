---------------------------- MODULE DurationTime ----------------------------
(***************************************************************************)
(* An application that constructs a duration and a time, adds to them,     *)
(* subtracts from them, multiplies and divides.                            *)
(*                                                                         *)
(* Every call that throws leaves failed TRUE and the value as the code     *)
(* leaves it. exactD and exactT follow in whole nanoseconds what the calls *)
(* that returned promise.                                                  *)
(***************************************************************************)
EXTENDS TimeValues

CONSTANTS
    SomeSecs,      \* the seconds,
    SomeNanosecs,  \* the nanoseconds
    Factors,       \* and the factors the application passes
    TimeBound      \* bound on the seconds of the time, an int64_t

ASSUME ArgumentsAssumption ==
    SomeSecs \subseteq Int /\ SomeNanosecs \subseteq Nat /\ Factors \subseteq Nat
ASSUME TimeBoundAssumption == TimeBound \in Nat

VARIABLES
    d,             \* the duration
    t,             \* the time
    exactD,        \* ghost: what d should be, in nanoseconds,
    exactT,        \* ghost: and t
    lost,          \* ghost: the seconds of d overflowed, or a *= threw
    failed         \* the last call threw

durationVars == <<d, t, exactD, exactT, lost, failed>>

-----------------------------------------------------------------------------
(***************************************************************************)
(* The application.                                                        *)
(***************************************************************************)
Durations == {a \in [sec : SomeSecs, nanosec : SomeNanosecs] :
                  ~ConstructDuration(a.sec, a.nanosec).threw}

DurationInit ==
    /\ d = Zero /\ t = Zero
    /\ exactD = 0 /\ exactT = 0
    /\ lost = FALSE /\ failed = FALSE

(* d becomes what a call leaves, which should be n nanoseconds; no         *)
(* sum of seconds on the way is more than s.                               *)
Leave(outcome, n, s) ==
    /\ d' = outcome.value
    /\ failed' = outcome.threw
    /\ lost' = (lost \/ s > Reserved \/ (outcome.threw /\ outcome.value # d))
    /\ exactD' = IF lost' THEN 0 ELSE IF outcome.threw THEN exactD ELSE n
    /\ UNCHANGED <<t, exactT>>

(* A constructor that throws leaves no object: d stays.                    *)
Assign(outcome, n) ==
    /\ d' = IF outcome.threw THEN d ELSE outcome.value
    /\ failed' = outcome.threw
    /\ exactD' = IF outcome.threw THEN exactD ELSE n
    /\ lost' = (lost /\ outcome.threw)
    /\ UNCHANGED <<t, exactT>>

NewDuration == \E s \in SomeSecs, n \in SomeNanosecs : Assign(ConstructDuration(s, n), s * NS + n)

NewFromUnits ==
    \E n \in SomeNanosecs :
        \/ Assign(FromMicrosecs(n), n * MS)
        \/ Assign(FromMillisecs(n), n * MiS)

AddTo == \E a \in Durations : Leave(Plus(d, a), exactD + Total(a), d.sec + a.sec + 1)

SubtractFrom == \E a \in Durations : Leave(Minus(d, a), exactD - Total(a), d.sec)

MultiplyBy == \E k \in Factors : Leave(Times(d, k), exactD * k, (d.sec + 1) * k)

(* Rounds down to microseconds.                                            *)
DivideBy ==
    \E k \in Factors :
        Leave(Over(d, k), IF k = 0 THEN 0 ELSE ((exactD \div MS) \div k) * MS, d.sec)

LeaveTime(outcome, n) ==
    /\ t' = IF outcome.threw THEN t ELSE outcome.value
    /\ t'.sec \in -TimeBound .. TimeBound
    /\ failed' = outcome.threw
    /\ exactT' = IF outcome.threw THEN exactT ELSE n
    /\ UNCHANGED <<d, exactD, lost>>

NewTime == \E s \in SomeSecs, n \in SomeNanosecs : LeaveTime(ConstructTime(s, n), s * NS + n)
AddToTime == \E a \in Durations : LeaveTime(PlusTime(t, a), exactT + Total(a))
SubtractFromTime == \E a \in Durations : LeaveTime(MinusTime(t, a), exactT - Total(a))

DurationNext ==
    \/ NewDuration \/ NewFromUnits
    \/ AddTo \/ SubtractFrom \/ MultiplyBy \/ DivideBy
    \/ NewTime \/ AddToTime \/ SubtractFromTime

DurationSpec == DurationInit /\ [][DurationNext]_durationVars

-----------------------------------------------------------------------------
(***************************************************************************)
(* Properties.                                                             *)
(***************************************************************************)

(* The values stay in the range of their members; the nanoseconds are less *)
(* than a second, a whole second (+= carries only beyond it; the next      *)
(* calculation then throws) or the reserved value.                         *)
DurationTypeOK ==
    /\ d.sec \in -(Reserved + 1) .. Reserved /\ t.sec \in Int
    /\ \A v \in {d, t} : v.nanosec \in 0 .. NS \cup {Reserved}
    /\ exactD \in Int /\ exactT \in Int
    /\ lost \in BOOLEAN /\ failed \in BOOLEAN

(* However many calls are made, nothing is lost in a carry, a borrow or a  *)
(* conversion of units: the duration is the exact result of the calls that *)
(* returned, up to an overflow of its seconds or a *= that threw, and so   *)
(* is the time.                                                            *)
ArithmeticIsExact ==
    /\ ~lost => Total(d) = exactD
    /\ Total(t) = exactT

(* Conversion to C keeps the order of durations, with infinity at the top. *)
ConversionKeepsOrder ==
    \A a \in {b \in Durations : b.nanosec < NS \/ b = Infinite} :
        (d.sec >= 0 /\ (d.nanosec < NS \/ d = Infinite)) =>
            /\ Less(d, a) <=> ToC(d) < ToC(a)
            /\ Less(a, d) <=> ToC(a) < ToC(d)

(* What C gets comes back as the same duration; a whole second in the      *)
(* nanoseconds comes back carried. The invalid time has a value in C that  *)
(* no valid time has.                                                      *)
ConversionRoundTrip ==
    /\ (d.sec \in 0 .. Reserved - 1 /\ d.nanosec <= NS) \/ d = Infinite =>
           LET back == FromC(ToC(d))
           IN  ~back.threw /\ Total(back.value) = Total(d) /\ (d.nanosec # NS => back.value = d)
    /\ TimeToC(t) = CNever <=> t = Invalid

(* The C library has the durations and times the application passes, in    *)
(* the order the application sees.                                         *)
ConversionIsFaithful == ConversionKeepsOrder /\ ConversionRoundTrip

(* Durations are what the calls on them and the C library make of them.    *)
DurationsAreExact == ArithmeticIsExact /\ ConversionIsFaithful
=============================================================================
