----------------------------- MODULE TimeValues -----------------------------
(***************************************************************************)
(* dds::core::Duration and dds::core::Time as values: what the constructors*)
(* and operators return or throw, and the conversion to and from the       *)
(* nanoseconds of the C library.                                           *)
(***************************************************************************)
EXTENDS Integers

CONSTANTS
    MS,            \* 1000: milliseconds in a second, nanoseconds in a microsecond
    Reserved       \* 0x7fffffff: the largest int32_t, and the nanoseconds of
                   \* an infinite duration and of the invalid time

MiS == MS * MS
NS == MS * MS * MS

ASSUME UnitsAssumption == MS \in Nat \ {0, 1} /\ Reserved \in Nat /\ Reserved >= 2 * NS

-----------------------------------------------------------------------------
(* What a call does to a value: the value it leaves, and whether it threw. *)
Returned(v) == [value |-> v, threw |-> FALSE]
Threw(v) == [value |-> v, threw |-> TRUE]

(* The value an outcome leaves goes through one more call.                 *)
Then(outcome, Op(_)) == IF outcome.threw THEN outcome ELSE Op(outcome.value)

Total(v) == v.sec * NS + v.nanosec

(* A cast to int32_t, and the division of C.                               *)
NoCast(n) == n                                              \* mutant
Int32(n) == ((n + Reserved + 1) % (2 * (Reserved + 1))) - (Reserved + 1)
Quotient(n, m) == IF n >= 0 THEN n \div m ELSE -((-n) \div m)

Infinite == [sec |-> Reserved, nanosec |-> Reserved]
Invalid == [sec |-> -1, nanosec |-> Reserved]

ValidForArithmetic(v) == v.sec # -1 /\ v.sec # Reserved /\ v.nanosec < NS

(* The setters, which check their argument.                                *)
SetSec(v, s) == IF s < 0 THEN Threw(v) ELSE Returned([v EXCEPT !.sec = Int32(s)])

SetNanosec(v, n) ==
    IF n >= NS /\ n # Reserved THEN Threw(v) ELSE Returned([v EXCEPT !.nanosec = n])

SetTimeNanosec(v, n) ==
    IF (n >= NS \/ v.sec = -1) /\ n # Reserved THEN Threw(v)
    ELSE Returned([v EXCEPT !.nanosec = n])

Zero == [sec |-> 0, nanosec |-> 0]
ConstructDuration(s, n) == Then(SetSec(Zero, s), LAMBDA v : SetNanosec(v, n))
ConstructTime(s, n) == SetTimeNanosec([sec |-> s, nanosec |-> 0], n)

FromMicrosecs(us) == ConstructDuration(us \div MiS, (us % MiS) * MS)
FromMillisecs(ms) == ConstructDuration(ms \div MS, (ms % MS) * MiS)
ToMicrosecs(v) == v.sec * MiS + v.nanosec \div MS

Less(a, b) == a.sec < b.sec \/ (a.sec = b.sec /\ a.nanosec < b.nanosec)

-----------------------------------------------------------------------------
(* The sum of the nanoseconds carries beyond a second, not at a second.    *)
CarryForgotten(sec, n) ==                                   \* mutant
    [sec |-> sec, nanosec |-> IF n > NS THEN n % NS ELSE n]
Carry(sec, n) ==
    IF n > NS THEN [sec |-> sec + 1, nanosec |-> n % NS] ELSE [sec |-> sec, nanosec |-> n]

(* +=: the members are assigned, past the setters.                         *)
Plus(v, a) ==
    IF ~ValidForArithmetic(v) \/ ~ValidForArithmetic(a) THEN Threw(v)
    ELSE LET c == Carry(v.sec + a.sec, v.nanosec + a.nanosec)
         IN  Returned([c EXCEPT !.sec = Int32(@)])

PlusTime(v, a) ==
    IF ~ValidForArithmetic(v) \/ ~ValidForArithmetic(a) THEN Threw(v)
    ELSE Returned(Carry(v.sec + a.sec, v.nanosec + a.nanosec))

(* -=: computed in a temporary with the setters, which throw below zero.   *)
Borrow(v, a) ==
    IF v.nanosec < a.nanosec
    THEN [sec |-> v.sec - a.sec - 1, nanosec |-> v.nanosec + NS - a.nanosec]
    ELSE [sec |-> v.sec - a.sec, nanosec |-> v.nanosec - a.nanosec]

Minus(v, a) ==
    IF ~ValidForArithmetic(v) \/ ~ValidForArithmetic(a) THEN Threw(v)
    ELSE LET b == Borrow(v, a)
             tmp == Then(SetSec(Zero, v.sec - a.sec),
                         LAMBDA w : Then(SetSec(w, b.sec), LAMBDA u : SetNanosec(u, b.nanosec)))
         IN  IF tmp.threw \/ ~ValidForArithmetic(tmp.value) THEN Threw(v) ELSE tmp

(* The time validates itself a second time where it means the temporary.   *)
MinusTime(v, a) ==
    IF ~ValidForArithmetic(v) \/ ~ValidForArithmetic(a) \/ v.sec - a.sec = -1 THEN Threw(v)
    ELSE LET b == Borrow(v, a)
             tmp == SetTimeNanosec([b EXCEPT !.nanosec = 0], b.nanosec)
         IN  IF tmp.threw THEN Threw(v) ELSE tmp

(* *=: the seconds are stored before the nanoseconds are computed.         *)
Times(v, k) ==
    IF ~ValidForArithmetic(v) THEN Threw(v)
    ELSE LET n == v.nanosec * k
             whole(w) == IF n > NS
                         THEN Then(SetSec(w, w.sec + n \div NS), LAMBDA u : SetNanosec(u, n % NS))
                         ELSE SetNanosec(w, n)
         IN  Then(SetSec(v, v.sec * k), whole)

(* /: by way of microseconds.                                              *)
Over(v, k) ==
    IF ~ValidForArithmetic(v) \/ k = 0 THEN Threw(v)
    ELSE LET us == Quotient(ToMicrosecs(v), k)
         IN  IF us < 0 THEN Threw(v) ELSE Then(FromMicrosecs(us), Returned)

-----------------------------------------------------------------------------
(* Conversion to and from the C library; infinity is a value of its own.   *)
CInfinity == Reserved * NS + Reserved + 1
CNever == -CInfinity

ToC(v) == IF v = Infinite THEN CInfinity ELSE Total(v)

InfiniteIsFinite(c) ==                                      \* mutant
    [value |-> [sec |-> c \div NS, nanosec |-> c % NS], threw |-> FALSE]
FromC(c) == IF c = CInfinity THEN Returned(Infinite) ELSE ConstructDuration(c \div NS, c % NS)

TimeToC(v) == IF v = Invalid THEN CNever ELSE Total(v)
=============================================================================
