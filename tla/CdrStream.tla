------------------------------ MODULE CdrStream ------------------------------
(***************************************************************************)
(* A sample measured, written and read by the functions the IDL compiler   *)
(* generates for the types of a writer and of a reader: basic CDR for the  *)
(* key hash, XCDR1 and XCDR2 for data and for keys; types that evolved.    *)
(*                                                                         *)
(* A type is a record [ext, members, switchKey]; the members of a union    *)
(* are its branches, and switchKey is whether its discriminator is a key.  *)
(* A member is a record                                                    *)
(*   id, kind    "prim", "string", "struct", "union", "seq", "array"       *)
(*   size        of a primitive, of an element, or of a string with its 0  *)
(*   of          the type of a struct, a union or an element, else NoType  *)
(*   optional, must, key                                                   *)
(* What is written is a cell: n bytes, what they are, and their value; the *)
(* value of a member is its id, here unique in the whole type. Reading     *)
(* other bytes than a cell gives Junk.                                     *)
(***************************************************************************)
EXTENDS Integers, Sequences, FiniteSets

LOCAL INSTANCE SequencesExt

CONSTANT Exchanges   \* what is streamed: records version, key, writer and
                     \* reader, the types; given, the sample: absent, the
                     \* optionals without a value and the empty sequences,
                     \* and branch, of the unions; earlier, the sample this
                     \* thread measured first; compact: the writer is another
                     \* implementation, that uses the short headers

NoType == [ext |-> "none", members |-> << >>, switchKey |-> FALSE]

ASSUME ExchangesAssumption ==
    \A e \in Exchanges :
        /\ e.version \in {"basic", "xcdr1", "xcdr2"}
        /\ e.key \in {"not_key", "unsorted", "sorted"}
        /\ e.version = "basic" <=> e.key = "sorted"
        /\ e.key # "not_key" => \A t \in {e.writer, e.reader} : \E m \in ToSet(t.members) : m.key
        /\ e.compact => e.version = "xcdr2"

VARIABLES
    exchange,        \* the one that is streamed
    mode,            \* "max", "first", "move", "write", "read" or "rehash",
                     \* and "end", or "refused" if it could not be written
    stream,          \* the cdr_stream
    sized            \* the position at the end of each of them, or -1

cdrVars == <<exchange, mode, stream, sized>>

-----------------------------------------------------------------------------
(***************************************************************************)
(* The properties of a type: the members streamed, in order.               *)
(***************************************************************************)
(* A nested type without keys is a key in all its members.                 *)
Keys(t) ==
    LET marked == SelectSeq(t.members, LAMBDA m : m.key)
    IN  IF marked = << >> THEN t.members ELSE marked

EntitiesAsDeclared(t) == IF exchange.key = "not_key" THEN t.members ELSE Keys(t)  \* mutant
Entities(t) ==
    CASE exchange.key = "not_key" -> t.members
      [] exchange.key = "unsorted" -> Keys(t)
      [] exchange.key = "sorted" -> SortSeq(Keys(t), LAMBDA m, o : m.id < o.id)

(* The sample: the one to be written, or the one that was measured first.  *)
Sample == IF mode = "first" THEN exchange.earlier ELSE exchange.given
Writing == mode \in {"write", "rehash"}
HasValue(m) == m.id \notin Sample.absent
Count(m) == IF m.kind = "array" \/ mode = "max" \/ HasValue(m) THEN 2 ELSE 0

-----------------------------------------------------------------------------
(***************************************************************************)
(* cdr_stream.                                                             *)
(***************************************************************************)
Junk == [n |-> 0, what |-> "junk", v |-> 0]

MaxAlign == IF exchange.version = "xcdr2" THEN 4 ELSE 8
Aligned(n) == IF n < MaxAlign THEN n ELSE MaxAlign
TopOf(stack) == stack[Len(stack)]
Pop(stack) == SubSeq(stack, 1, Len(stack) - 1)

(* set_buffer() and set_mode(): reset().                                   *)
Reset(size, buffer) ==
    [pos |-> 0, cur |-> 0, off |-> 0, ends |-> <<size>>, esz |-> <<0>>, eoff |-> << >>,
     aoffs |-> << >>, delims |-> << >>, consec |-> << >>, buf |-> buffer,
     last |-> Junk, ok |-> TRUE, stale |-> FALSE, right |-> {}, wrong |-> {}]

Failed(s) == [s EXCEPT !.ok = FALSE]
Ok(s, Op(_)) == IF s.ok THEN Op(s) ELSE s

(* Past the end of what may be read or written?                            *)
Available(s, n) == s.pos + n <= TopOf(s.ends)
Fits(s, n) == mode \in {"read", "write", "rehash"} => Available(s, n)

(* align(): nothing happens if the alignment is the current one; stale     *)
(* (ghost) remembers that the position was not aligned to it.              *)
Padding(s, n) == (s.off - s.pos) % Aligned(n)

Padded(s, n, padding) ==
    IF n = s.cur THEN [s EXCEPT !.stale = @ \/ padding # 0]
    ELSE IF Fits(s, padding) THEN [s EXCEPT !.cur = Aligned(n), !.pos = @ + padding]
    ELSE Failed([s EXCEPT !.cur = Aligned(n)])
Align(s, n) == IF s.ok THEN Padded(s, n, Padding(s, n)) ELSE s

Stored(buf, p, cell) ==
    [q \in (DOMAIN buf \ (p .. p + cell.n - 1)) \cup {p} |-> IF q = p THEN cell ELSE buf[q]]
Loaded(buf, p, n) ==
    IF p \in DOMAIN buf /\ buf[p].n = n THEN buf[p]
    ELSE IF p >= sized["write"] THEN [Junk EXCEPT !.what = "zero"]   \* the padding
    ELSE Junk

(* n bytes that are not aligned any more.                                  *)
Bytes(s, n, what, v) ==
    IF ~Fits(s, n) THEN Failed(s)
    ELSE LET t == [s EXCEPT !.pos = @ + n]
         IN  CASE Writing ->
                      [t EXCEPT !.buf = Stored(s.buf, s.pos, [n |-> n, what |-> what, v |-> v])]
               [] mode = "read" -> [t EXCEPT !.last = Loaded(s.buf, s.pos, n)]
               [] OTHER -> t

(* read(), write(), move() and max() of a number of size n.                *)
Scalar(s, n, what, v) == Ok(Align(s, n), LAMBDA t : Bytes(t, n, what, v))
Word(s, v) == Scalar(s, 4, "number", v)

(* A number that was read steers the reader; Junk does not.                *)
Number(s, Op(_, _)) ==
    IF ~s.ok THEN s
    ELSE IF s.last.what = "number" THEN Op(s, s.last.v) ELSE Failed(s)

(* The value of a member: a reader takes note of what it got.              *)
Noted(s, m) ==
    IF mode # "read" \/ ~s.ok \/ s.last.what = "zero" THEN s
    ELSE IF s.last.what = "value" /\ s.last.v = m.id THEN [s EXCEPT !.right = @ \cup {m.id}]
    ELSE [s EXCEPT !.wrong = @ \cup {m.id}]

(* read_string(), write_string(), move_string() and max_string().          *)
String(s, m) ==
    Ok(Ok(Word(s, m.size), LAMBDA t : Bytes(t, m.size, "value", m.id)),
       LAMBDA t : Noted([t EXCEPT !.cur = 1], m))

PushMember(s) == [s EXCEPT !.esz = Append(@, 0), !.eoff = Append(@, s.pos)]
PopMember(s) == [s EXCEPT !.esz = Pop(@), !.eoff = Pop(@)]
PushAlignOffset(s) == [s EXCEPT !.aoffs = Append(@, s.off), !.off = s.pos, !.cur = 8]
PopAlignOffset(s) == [s EXCEPT !.aoffs = Pop(@), !.off = TopOf(s.aoffs)]

(* Back to the place of a length that was left open, and forth again.      *)
Patch(s, place, n, v) ==
    Ok(Scalar([s EXCEPT !.pos = place, !.cur = n], n, "number", v),
       LAMBDA t : [t EXCEPT !.pos = s.pos, !.cur = s.cur])

(* Where the reader leaves what it limited itself to.                      *)
PopEnd(s) == [s EXCEPT !.pos = TopOf(s.ends), !.ends = Pop(@)]
PushEnd(s, size) == [s EXCEPT !.ends = Append(@, s.pos + size)]
SetSize(s, size) == [s EXCEPT !.esz[Len(s.esz)] = size]
Skipped(s) == [s EXCEPT !.pos = @ + TopOf(s.esz), !.cur = 0]

(* check_struct_completeness(): in key mode, too, it starts at the first   *)
(* member, which has no next one unless it is a key.                       *)
Required(t) ==
    LET first == Head(t.members)
    IN  IF t.members = << >> THEN {}
        ELSE IF exchange.key = "not_key"
             THEN {m.id : m \in {o \in ToSet(t.members) : o.must \/ o.key}}
        ELSE LET es == Entities(t)
                 from == {j \in DOMAIN es : es[j] = first}
             IN  IF from = {} THEN IF first.must THEN {first.id} ELSE {}
                 ELSE {es[j].id : j \in {k \in DOMAIN es : \E i \in from : k >= i}}

CheckComplete(s, t, ids) == IF Required(t) \subseteq ids THEN s ELSE Failed(s)

-----------------------------------------------------------------------------
(***************************************************************************)
(* XCDR2.                                                                  *)
(***************************************************************************)
DHeaderNecessary(t) == t.ext \in {"appendable", "mutable"}

DHeader(s) == Word([s EXCEPT !.delims = Append(@, s.pos)], 0)
StartDHeader(s) ==
    CASE Writing -> DHeader(Align(s, 4))
      [] mode = "read" -> Number(Word(s, 0), PushEnd)
      [] OTHER -> Word(s, 0)

FinishDHeader(s) ==
    CASE Writing ->
            LET off == TopOf(s.delims)
                size == s.pos - off - 4
                popped == [s EXCEPT !.delims = Pop(@)]
            IN  IF size = 0 THEN popped ELSE Patch(popped, off, 4, size)
      [] mode = "read" -> PopEnd(s)
      [] OTHER -> s

(* The short forms of the header, that this implementation only reads: the *)
(* size of the member, or its length counted in elements as the size.      *)
ShortForm(m) == exchange.compact /\ m.kind = "prim"
SharedForm(m) == exchange.compact /\ m.kind = "seq" /\ m.of = NoType

EmHeader(m) ==
    [id |-> m.id, must |-> m.must,
     lc |-> IF ShortForm(m) THEN "bytes" ELSE IF SharedForm(m) THEN "times" ELSE "nextint",
     unit |-> m.size]

HasNextInt(m) == ~ShortForm(m) /\ ~SharedForm(m)
MeasureOneWord(h, m) == IF HasNextInt(m) /\ mode # "move" THEN Word(h, 0) ELSE h   \* mutant
NextInt(h, m) == IF HasNextInt(m) THEN Word(h, 0) ELSE h
WriteEmHeader(s, m) == NextInt(Scalar(s, 4, "header", EmHeader(m)), m)

FinishEmHeader(s, m) ==
    LET size == s.pos - TopOf(s.eoff)
    IN  IF ~Writing \/ size = 0 \/ ~HasNextInt(m) THEN s
        ELSE Patch(s, TopOf(s.eoff) - 4, 4, size)

(* After a header with a shared length the reader goes back to the length. *)
ReadMemberSize(h, lc, unit) ==
    CASE lc = "bytes" -> SetSize(h, unit)
      [] lc = "nextint" -> Number(Word(h, 0), SetSize)
      [] lc = "times" -> Number(Word(h, 0), LAMBDA t, n :
                                    [SetSize(t, n * unit + 4) EXCEPT !.pos = @ - 4])
EmHeaderRead(h) ==
    IF ~h.ok \/ h.last.what # "header" THEN Failed(h)
    ELSE [ReadMemberSize(h, h.last.v.lc, h.last.v.unit) EXCEPT !.last = h.last]
ReadEmHeader(s) == EmHeaderRead(Scalar(s, 4, "header", 0))

MemberHeader2(s, t, m, set) ==
    CASE mode # "read" /\ t.ext = "mutable" -> IF set THEN WriteEmHeader(s, m) ELSE s
      [] mode # "read" /\ t.ext # "mutable" ->
             IF m.optional THEN Scalar(s, 1, "flag", set) ELSE s
      [] mode = "read" /\ t.ext = "mutable" -> PushEnd(s, TopOf(s.esz))
      [] OTHER -> s
StartMember2(s, t, m, set) ==
    Ok(MemberHeader2(s, t, m, set),
       LAMBDA h : PushMember([h EXCEPT !.consec = Append(@, FALSE)]))

MemberEnd2(s, t, m, set) ==
    IF t.ext # "mutable" THEN s
    ELSE IF mode = "read" THEN PopEnd(s)
    ELSE IF set THEN FinishEmHeader(s, m) ELSE s
FinishMember2(s, t, m, set) ==
    Ok(MemberEnd2(s, t, m, set), LAMBDA h : PopMember([h EXCEPT !.consec = Pop(@)]))

StartConsecutive(s, m) ==
    IF exchange.version # "xcdr2" THEN s
    ELSE LET d == m.of # NoType
         IN  [(IF d THEN StartDHeader(s) ELSE s) EXCEPT !.consec = Append(@, d)]

FinishConsecutive(s) ==
    IF exchange.version # "xcdr2" THEN s
    ELSE [(IF TopOf(s.consec) THEN FinishDHeader(s) ELSE s) EXCEPT !.consec = Pop(@)]

-----------------------------------------------------------------------------
(***************************************************************************)
(* XCDR1.                                                                  *)
(***************************************************************************)
ListEnd == [id |-> -1, must |-> TRUE, extended |-> FALSE]

(* The short header is for members with a size of their own.               *)
ExtendedHeader(m) == m.kind \notin {"prim", "array"} \/ m.of # NoType
HeaderNecessary(t, m) == t.ext = "mutable" \/ m.optional
HeaderWritten(t, set) == mode # "read" /\ (t.ext # "mutable" \/ set)

PlHeader(m) == [id |-> m.id, must |-> m.must, extended |-> ExtendedHeader(m)]

(* The short header, and the words that follow it in the extended one;     *)
(* measured as one word or three.                                          *)
Short(s, what) == Scalar(Align(s, 4), 2, "header", what)
Extension(s, what) == Word(Scalar(s, 4, "header", what), 0)

MeasureHeader1(s, m) == IF ExtendedHeader(m) THEN Word(Word(Word(s, 0), 0), 0) ELSE Word(s, 0)
Extend(s, m) == IF ExtendedHeader(m) THEN Extension(s, PlHeader(m)) ELSE s
PutHeader1(s, m) ==
    IF Writing THEN Extend(Scalar(Short(s, PlHeader(m)), 2, "number", 0), m)
    ELSE MeasureHeader1(s, m)

(* A member of a mutable type is padded to a multiple of 4.                *)
Length1(s, m, size) ==
    IF ~s.ok THEN s
    ELSE IF ExtendedHeader(m) THEN Patch(s, TopOf(s.eoff) - 4, 4, size)
    ELSE Patch(s, TopOf(s.eoff) - 2, 2, size)
FillHeader1(s, m) == Length1(s, m, s.pos - TopOf(s.eoff))
FinishHeader1(s, t, m) ==
    IF ~Writing THEN s ELSE FillHeader1(IF t.ext = "mutable" THEN Align(s, 4) ELSE s, m)

Header1Read(id, small) ==
    IF ~small.ok \/ id.last.what # "header" \/ small.last.what # "number" THEN Failed(small)
    ELSE [Number(IF id.last.v.extended THEN Extension(small, 0) ELSE small, SetSize)
            EXCEPT !.last = id.last]
SizeRead1(id) == Header1Read(id, Scalar(id, 2, "number", 0))
ReadHeader1(s) == SizeRead1(Short(s, 0))

MemberHeader1(s, t, m, set) ==
    IF mode = "read" THEN PushEnd(s, TopOf(s.esz))
    ELSE IF HeaderWritten(t, set) THEN PutHeader1(s, m) ELSE s
StartMember1(s, t, m, set) ==
    Ok(IF HeaderNecessary(t, m) THEN Ok(MemberHeader1(s, t, m, set), PushAlignOffset) ELSE s,
       PushMember)

MemberEnd1(s, t, m, set) ==
    IF mode = "read" THEN PopEnd(s)
    ELSE IF HeaderWritten(t, set) THEN FinishHeader1(s, t, m) ELSE s
FinishMember1(s, t, m, set) ==
    Ok(IF HeaderNecessary(t, m) THEN MemberEnd1(PopAlignOffset(s), t, m, set) ELSE s, PopMember)

EndList(s) == IF Writing THEN Scalar(Short(s, ListEnd), 2, "number", 0) ELSE Word(s, 0)

-----------------------------------------------------------------------------
(***************************************************************************)
(* What the streamer of a struct calls, in each encoding.                  *)
(***************************************************************************)
StartStruct(s, t) ==
    IF exchange.version = "xcdr2" /\ DHeaderNecessary(t) THEN StartDHeader(s) ELSE s

EndStruct(s, t) ==
    IF ~s.ok THEN s
    ELSE IF exchange.version = "xcdr2" /\ DHeaderNecessary(t) THEN FinishDHeader(s)
    ELSE IF exchange.version = "xcdr1" /\ t.ext = "mutable" /\ mode # "read" THEN EndList(s)
    ELSE s
FinishStruct(s, t, ids) == EndStruct(IF mode = "read" THEN CheckComplete(s, t, ids) ELSE s, t)

StartMember(s, t, m, set) ==
    CASE exchange.version = "xcdr2" -> StartMember2(s, t, m, set)
      [] exchange.version = "xcdr1" -> StartMember1(s, t, m, set)
      [] OTHER -> s

FinishMember(s, t, m, set) ==
    CASE exchange.version = "xcdr2" -> FinishMember2(s, t, m, set)
      [] exchange.version = "xcdr1" -> FinishMember1(s, t, m, set)
      [] OTHER -> s

(* The next member of a reader: at, its index in Entities, or 0.           *)
Found(s, j) == [stream |-> s, at |-> j]
None(s) == Found(s, 0)

ReadHeader(s) == IF exchange.version = "xcdr2" THEN ReadEmHeader(s) ELSE ReadHeader1(s)

(* Members in the order of the type; an optional one is announced. Where   *)
(* the bytes end, next_entity() stops; first_entity() never looks, not even *)
(* after the absent optional members that it goes past.                    *)
RECURSIVE NextInOrder(_, _, _, _), Flagged(_, _, _, _), Headed(_, _, _, _)
Flagged(f, t, j, first) ==
    IF ~f.ok \/ f.last.what # "flag" THEN None(Failed(f))
    ELSE IF f.last.v THEN Found(f, j) ELSE NextInOrder(f, t, j + 1, first)
Headed(h, t, j, first) ==
    IF ~h.ok \/ h.last.v = ListEnd THEN None(h)
    ELSE IF TopOf(h.esz) # 0 THEN Found(h, j) ELSE NextInOrder(h, t, j + 1, first)
NextInOrder(s, t, j, first) ==
    IF ~s.ok \/ j > Len(Entities(t)) \/ (~first /\ t.ext = "appendable" /\ ~Available(s, 1))
    THEN None(s)
    ELSE IF ~Entities(t)[j].optional THEN Found(s, j)
    ELSE IF exchange.version = "xcdr2" THEN Flagged(Scalar(s, 1, "flag", FALSE), t, j, first)
    ELSE Headed(ReadHeader1(s), t, j, first)

(* Members in the order of the writer: each has a header with its id. What *)
(* the reader does not know it skips, or gives up if it must understand.   *)
Forgiving(h) == FALSE                                       \* mutant
MustUnderstand(h) == h.last.v.must
Known(t, id) == {j \in DOMAIN Entities(t) : Entities(t)[j].id = id}

RECURSIVE NextInList(_, _), Listed(_, _, _)
Listed(h, t, known) ==
    IF TopOf(h.esz) = 0 THEN NextInList(h, t)
    ELSE IF known # {} THEN Found(h, CHOOSE j \in known : TRUE)
    ELSE IF MustUnderstand(h) THEN None(Failed(h))
    ELSE NextInList(Skipped(h), t)
ListHead(h, t) ==
    IF ~h.ok \/ h.last.v = ListEnd THEN None(h) ELSE Listed(h, t, Known(t, h.last.v.id))
NextInList(s, t) ==
    IF ~s.ok \/ (exchange.version = "xcdr2" /\ ~Available(s, 4 + ((-s.pos) % 4))) THEN None(s)
    ELSE ListHead(ReadHeader(s), t)

NextRead(s, t, j) ==
    IF t.ext = "mutable" THEN IF Entities(t) = << >> THEN None(s) ELSE NextInList(s, t)
    ELSE NextInOrder(s, t, j + 1, j = 0)

-----------------------------------------------------------------------------
(***************************************************************************)
(* The generated streamer.                                                 *)
(***************************************************************************)
RECURSIVE Struct(_, _), Union(_, _), ReadMembers(_, _, _, _), PutMembers(_, _, _)
RECURSIVE Member(_, _, _), Value(_, _), Elements(_, _, _)
RECURSIVE LargestBranch(_, _, _, _), ReadMember(_, _, _), MembersAfter(_, _, _, _)
RECURSIVE UnionBody(_, _)

(* One element after another, or all of a primitive type at once.          *)
Elements(s, m, n) ==
    IF n = 0 \/ ~s.ok THEN s
    ELSE IF m.of = NoType
         THEN LET a == Align(s, m.size)
              IN  Noted(Ok(a, LAMBDA t : Bytes(t, m.size * n, "value", m.id)), m)
    ELSE Elements(Struct(s, m.of), m, n - 1)

Fill(s, m) ==
    CASE m.kind = "array" -> Elements(s, m, Count(m))
      [] mode = "read" -> Number(Word(s, 0), LAMBDA t, n : Elements(t, m, n))
      [] OTHER -> Elements(Word(s, Count(m)), m, Count(m))
Consecutive(s, m) == Ok(Fill(StartConsecutive(s, m), m), FinishConsecutive)

Value(s, m) ==
    CASE m.kind = "prim" -> Noted(Scalar(s, m.size, "value", m.id), m)
      [] m.kind = "string" -> String(s, m)
      [] m.kind = "struct" -> Struct(s, m.of)
      [] m.kind = "union" -> Union(s, m.of)
      [] m.kind \in {"seq", "array"} -> Consecutive(s, m)

(* An optional without a value is measured by max() all the same.          *)
Member(s, t, m) ==
    LET set == mode = "read" \/ ~m.optional \/ HasValue(m)
        Valued(r) == IF set \/ mode = "max" THEN Value(r, m) ELSE r
    IN  Ok(Ok(StartMember(s, t, m, set), Valued), LAMBDA r : FinishMember(r, t, m, set))

PutMembers(s, t, j) ==
    IF ~s.ok THEN s
    ELSE IF j > Len(Entities(t)) THEN FinishStruct(s, t, {})
    ELSE PutMembers(Member(s, t, Entities(t)[j]), t, j + 1)

MembersAfter(s, t, j, ids) ==
    IF s.ok THEN ReadMembers(s, t, j, ids \cup {Entities(t)[j].id}) ELSE s
ReadMember(next, t, ids) ==
    IF ~next.stream.ok THEN next.stream
    ELSE IF next.at = 0 THEN FinishStruct(next.stream, t, ids)
    ELSE MembersAfter(Member(next.stream, t, Entities(t)[next.at]), t, next.at, ids)
ReadMembers(s, t, j, ids) == ReadMember(NextRead(s, t, j), t, ids)

Struct(s, t) ==
    Ok(StartStruct(s, t), LAMBDA r :
        IF mode = "read" THEN ReadMembers(r, t, 0, {}) ELSE PutMembers(r, t, 1))

(* max() goes through all the branches and stays at the end of the largest.*)
LargestBranch(s, t, j, best) ==
    IF j > Len(t.members) THEN [s EXCEPT !.pos = best.pos, !.cur = best.cur]
    ELSE LET Larger(b) == LargestBranch(s, t, j + 1, IF best.pos < b.pos THEN b ELSE best)
         IN  Larger(Value(s, t.members[j]))

UnionBody(d, t) ==
    LET keyOnly == exchange.key # "not_key" /\ t.switchKey
        Chosen(r, j) == IF j \in DOMAIN t.members /\ ~keyOnly THEN Value(r, t.members[j]) ELSE r
    IN  CASE mode = "max" -> IF keyOnly THEN d ELSE LargestBranch(d, t, 1, d)
          [] mode = "read" -> Number(d, Chosen)
          [] OTHER -> IF d.ok THEN Chosen(d, Sample.branch) ELSE d
Union(s, t) ==
    LET Finished(r) == FinishStruct(r, [t EXCEPT !.members = << >>], {})
    IN  Ok(UnionBody(Ok(StartStruct(s, t), LAMBDA r : Word(r, Sample.branch)), t), Finished)

-----------------------------------------------------------------------------
(***************************************************************************)
(* A sample from a writer to a reader: datatopic.hpp.                      *)
(***************************************************************************)
(* What the compiler takes for a type of fixed size: an optional struct or *)
(* union passes as its type does.                                          *)
RECURSIVE SelfContained(_)
SelfContained(t) ==
    \A m \in ToSet(t.members) :
        /\ m.kind \notin {"string", "seq"}
        /\ m.optional => m.kind \in {"struct", "union"}
        /\ SelfContained(m.of)

(* The size of a self-contained type is that of the first sample.          *)
BufferSize == IF SelfContained(exchange.writer) THEN sized["first"] ELSE sized["move"]
RoundUp(n) == ((n + 3) \div 4) * 4

(* serialize_into() counts the header of 4 to the bytes after it.          *)
WriteLimit == BufferSize + (IF exchange.version = "basic" THEN 0 ELSE 4)

Modes == {"max", "first", "move", "write", "read", "rehash"}

CdrInit ==
    /\ exchange \in Exchanges
    /\ mode = "max"
    /\ stream = Reset(0, << >>)
    /\ sized = [m \in Modes |-> -1]

Streamed(s, next) ==
    /\ stream' = s
    /\ sized' = [sized EXCEPT ![mode] = s.pos]
    /\ mode' = next
    /\ UNCHANGED exchange

MeasureLargest ==
    /\ mode = "max"
    /\ Streamed(Struct(Reset(0, << >>), exchange.writer),
                IF SelfContained(exchange.writer) THEN "first" ELSE "move")

(* get_serialized_size() and get_serialized_fixed_size().                  *)
Measure ==
    /\ mode \in {"first", "move"}
    /\ Streamed(Struct(Reset(0, << >>), exchange.writer), "write")

Write ==
    /\ mode = "write"
    /\ LET s == Struct(Reset(WriteLimit, << >>), exchange.writer)
       IN  Streamed(s, IF ~s.ok THEN "refused"
                       ELSE IF exchange.version = "basic" THEN "rehash" ELSE "read")

(* The network rounds the size up, shared memory does not.                 *)
ReadSample ==
    /\ mode = "read"
    /\ \E size \in {BufferSize, RoundUp(BufferSize)} :
           Streamed(Struct([Reset(size, stream.buf) EXCEPT !.stale = stream.stale], exchange.reader),
                    "end")

(* to_key(): the reader hashes the key, with its own type.                 *)
Rehash ==
    /\ mode = "rehash"
    /\ LET s == Struct(Reset(BufferSize, << >>), exchange.reader)
       IN  Streamed([s EXCEPT !.wrong = IF s.buf = stream.buf THEN {} ELSE {-1}], "end")

CdrNext == MeasureLargest \/ Measure \/ Write \/ ReadSample \/ Rehash

CdrSpec == CdrInit /\ [][CdrNext]_cdrVars

-----------------------------------------------------------------------------
(***************************************************************************)
(* Properties.                                                             *)
(***************************************************************************)
(* Whatever was streamed successfully, every length that was left open has *)
(* been filled in and every limit lifted: the next sample starts afresh.   *)
StacksAreBalanced ==
    stream.ok =>
        /\ Len(stream.ends) = 1 /\ Len(stream.esz) = 1 /\ stream.off = 0
        /\ stream.eoff = << >> /\ stream.aoffs = << >>
        /\ stream.delims = << >> /\ stream.consec = << >>

(* Positions are those of a cursor.                                        *)
CdrTypeOK ==
    /\ StacksAreBalanced
    /\ mode \in Modes \cup {"end", "refused"}
    /\ stream.pos \in Nat /\ stream.off \in Nat /\ stream.cur \in {0, 1, 2, 4, 8}
    /\ stream.ok \in BOOLEAN /\ stream.stale \in BOOLEAN
    /\ sized \in [Modes -> Nat \cup {-1}]

(* What is written fills the buffer that was allocated for it exactly:     *)
(* measuring and writing go through the same headers and paddings.         *)
WrittenIsMeasured ==
    /\ mode # "refused"
    /\ sized["write"] # -1 => sized["write"] = BufferSize

(* No sample is larger than the largest: a key that is said to fit the key *)
(* hash is not cut off.                                                    *)
LargestIsLargest == sized["write"] <= sized["max"]

(* The passes over one sample agree on its size.                           *)
SizesAgree == WrittenIsMeasured /\ LargestIsLargest

(* The values in a sample: the leaves of a type.                           *)
RECURSIVE Leaves(_)
Leaves(t) ==
    UNION {CASE m.optional /\ ~HasValue(m) -> {}
             [] m.kind \in {"seq", "array"} /\ Count(m) = 0 -> {}
             [] m.kind = "union" -> IF exchange.key # "not_key" /\ m.of.switchKey THEN {}
                                    ELSE {b.id : b \in {m.of.members[j] : j \in
                                              {Sample.branch} \cap DOMAIN m.of.members}}
             [] m.kind # "union" /\ m.of # NoType -> Leaves(m.of)
             [] OTHER -> {m.id} : m \in ToSet(Entities(t))}

Ids(t) == {m.id : m \in {o \in ToSet(Entities(t)) : ~o.optional \/ HasValue(o)}}

(* A departure of the code, stated as it is: a reader of an appendable type*)
(* that has grown fails on a sample in which no member is present, since   *)
(* first_entity() goes past the absent ones without asking whether there   *)
(* are bytes left (extended_cdr_v2_ser.cpp:171-180 against 113-115).       *)
Stranded(w, r) ==
    /\ r.ext = "appendable" /\ Len(Entities(w)) < Len(Entities(r))
    /\ \A m \in ToSet(Entities(w)) : m.optional /\ ~HasValue(m)

(* Can a reader with type r make something of a sample of type w?          *)
RECURSIVE Understood(_, _)
Understood(w, r) ==
    /\ ~Stranded(w, r)
    /\ {m.id : m \in {o \in ToSet(Entities(r)) : o.must \/ o.key}} \subseteq Ids(w)
    /\ w.ext = "mutable" =>
           \A m \in ToSet(Entities(w)) : m.must /\ m.id \in Ids(w) => m.id \in Ids(r)
    /\ \A m \in ToSet(Entities(w)), o \in ToSet(Entities(r)) :
           m.id = o.id /\ m.id \in Ids(w) /\ m.kind \in {"struct", "seq", "array"}
               /\ m.of # NoType /\ (m.kind = "seq" => Count(m) # 0) => Understood(m.of, o.of)

(* A sample is read back as it was written, by a reader of the same type   *)
(* or of one that evolved from it: the members both know have the values   *)
(* that were written, and it is refused if and only if the reader misses a *)
(* member it must have, does not know one it must understand, or is        *)
(* stranded.                                                               *)
ReadsBack ==
    mode = "end" /\ exchange.version # "basic" /\ ~stream.stale =>
        IF Understood(exchange.writer, exchange.reader)
        THEN /\ stream.ok /\ stream.wrong = {}
             /\ stream.right = Leaves(exchange.writer) \cap Leaves(exchange.reader)
        ELSE ~stream.ok

(* Two types with the same keys hash a sample to the same instance,        *)
(* whatever the order of their members and their extensibility.            *)
KeysAgree ==
    mode = "end" /\ exchange.version = "basic" => stream.ok /\ stream.wrong = {}

(* What arrives is what was sent, samples and keys alike.                  *)
ArrivesAsSent == ReadsBack /\ KeysAgree

(* The key of a sample is written to a buffer of the size that was measured*)
(* for it, whatever sample was measured before.                            *)
KeyIsWritten == exchange.version = "basic" => mode # "refused"
=============================================================================
