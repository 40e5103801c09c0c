------------------------------ MODULE ReadPath ------------------------------
(***************************************************************************)
(* Samples between the C library and the application: the serialized       *)
(* samples (ddscxx_serdata) the C library holds, the read and take calls   *)
(* of a data reader, and the SampleRefs and LoanedSamples they fill.       *)
(*                                                                         *)
(* A serdata is counted by reference; the call that gives the last one up  *)
(* frees it. It has at most one object of the topic type, m_t, which       *)
(* data() returns by reference: made with the serdata, or on first use by  *)
(* the thread that needs it, or in the memory of a loan.                   *)
(***************************************************************************)
EXTENDS Integers, Sequences, SequencesExt, FiniteSets

CONSTANTS
    NSerdatas,     \* serdatas, used one after the other
    Callers,       \* threads of the application, or that print for the C library
    Instances,     \* the instances of the topic
    SomeMax,       \* the numbers of samples asked for, short of all
    Depth,         \* history depth of the reader, KEEP_LAST, for each instance
    MaxLost        \* bound on the serdatas a reference to is lost, each once

ASSUME ReadPathAssumption ==
    /\ NSerdatas \in Nat /\ Depth \in Nat \ {0} /\ MaxLost \in Nat
    /\ SomeMax \subseteq Nat \ {0}
    /\ Instances # {} /\ "any" \notin Instances
    /\ "loan" \notin Callers

VARIABLES
    serdata,       \* of each serdata: life, refs, instance, m_t, loan, bytes
    heap,          \* the objects of the topic type that are allocated
    loanRefs,      \* references to the loan of each serdata,
    transport,     \*   and the loans the transport still has one to
    incoming,      \* the serdata that is being delivered, or Null
    cache,         \* the reader's samples in the C library, oldest first
    kept,          \* serdatas of a writer and untyped ones the C library keeps
    readerOpen,    \* the reader is not closed
    call,          \* what each thread is doing
    samples,       \* the LoanedSamples of each thread
    ref,           \* a SampleRef of the application; Null before it is constructed
    leaked,        \* ghost: serdatas with a reference that nobody gives up any more
    taken          \* ghost: how often each serdata was taken

readVars == <<serdata, heap, loanRefs, transport, incoming, cache, kept, readerOpen, call,
              samples, ref, leaked, taken>>

Serdatas == 1 .. NSerdatas
Null == 0
AnyInstance == "any"          \* DDS_HANDLE_NIL: any instance
AllSamples == NSerdatas + 1    \* more than there are
Idle == [op |-> "idle"]

(* An address in m_t: the serdata and who made the object, or its loan.    *)
(* The null pointer is {}.                                                 *)
Object(s, maker) == {<<s, maker>>}
OnHeap(m_t) == {a \in m_t : a[2] # "loan"}

-----------------------------------------------------------------------------
(***************************************************************************)
(* DataState and the mask of the C library. Samples are told apart by      *)
(* their sample state here; all are new and of an instance that is alive.  *)
(***************************************************************************)
AnyState == 65535
StateFilters == {1, 2, AnyState}        \* read(), not_read(), any()

(* get_ddsc_state_mask(): of "any" only the bits of C are kept.            *)
Mask(s, v, i) == (s % 4) + (v % 4) * 4 + (i % 8) * 16

Bit(m, b) == (m \div b) % 2 = 1

Selects(mask, handle, e) ==
    /\ Bit(mask, IF e.seen THEN 1 ELSE 2) /\ Bit(mask, 4) /\ Bit(mask, 16)
    /\ handle \in {AnyInstance, serdata[e.sd].instance}

-----------------------------------------------------------------------------
(***************************************************************************)
(* References: to each serdata s, n[s] are added. Where none is left,      *)
(* serdata_free() deletes m_t unless it lies in the loan, and gives the    *)
(* loan back.                                                              *)
(***************************************************************************)
Dead(n) == {s \in Serdatas : n[s] # 0 /\ serdata[s].refs + n[s] = 0}

Ref(n) ==
    /\ serdata' = [s \in Serdatas |->
           [serdata[s] EXCEPT !.refs = serdata[s].refs + n[s],
                              !.life = IF s \in Dead(n) THEN "freed" ELSE serdata[s].life]]
    /\ heap' = heap \ UNION {OnHeap(serdata[s].m_t) : s \in Dead(n)}
    /\ loanRefs' = [s \in Serdatas |->
           loanRefs[s] - IF s \in Dead(n) /\ serdata[s].loan THEN 1 ELSE 0]

One(s, t) == IF s = t THEN 1 ELSE 0
Occurs(s, seq) == Cardinality({j \in DOMAIN seq : seq[j] = s})
Cached == [j \in DOMAIN cache |-> cache[j].sd]

-----------------------------------------------------------------------------
(***************************************************************************)
(* Serdatas.                                                               *)
(***************************************************************************)
Unborn ==
    [life |-> "none", refs |-> 0, instance |-> AnyInstance, m_t |-> {}, loan |-> FALSE,
     bytes |-> FALSE]

Live(i, m_t, loan, bytes) ==
    [life |-> "live", refs |-> 1, instance |-> i, m_t |-> m_t, loan |-> loan, bytes |-> bytes]

(* A serdata becomes new. One that is deleted before anybody sees it       *)
(* leaves nothing.                                                         *)
Begin(s, new, loans) ==
    /\ serdata[s].life = "none" /\ \A u \in 1 .. s - 1 : serdata[u].life # "none"
    /\ serdata' = [serdata EXCEPT ![s] = new]
    /\ heap' = heap \cup OnHeap(new.m_t)
    /\ loanRefs' = [loanRefs EXCEPT ![s] = loans]

Deleted(s) == Begin(s, [Unborn EXCEPT !.life = "freed"], 0)

(* serdata_from_ser() and serdata_from_ser_iov(): what does not decode is  *)
(* deleted.                                                                *)
FromSerLazily ==                                            \* mutant
    /\ incoming = Null /\ readerOpen
    /\ \E s \in Serdatas, i \in Instances :
           /\ Begin(s, Live(i, {}, FALSE, TRUE), 0)
           /\ incoming' = s
    /\ UNCHANGED <<transport, cache, kept, readerOpen, call, samples, ref, leaked, taken>>
FromSer ==
    /\ incoming = Null /\ readerOpen
    /\ \E s \in Serdatas, i \in Instances :
           \/ /\ Begin(s, Live(i, Object(s, "receiver"), FALSE, TRUE), 0)
              /\ incoming' = s
           \/ Deleted(s) /\ UNCHANGED incoming
    /\ UNCHANGED <<transport, cache, kept, readerOpen, call, samples, ref, leaked, taken>>

(* setLoan() takes a reference of its own to the loan of the transport.    *)
SetLoan == 2

(* serdata_from_psmx(): a raw sample stays in the loan, another is decoded *)
(* from it.                                                                *)
FromPsmx ==
    /\ incoming = Null /\ readerOpen
    /\ \E s \in Serdatas, i \in Instances :
           \/ /\ Begin(s, Live(i, Object(s, "loan"), TRUE, FALSE), SetLoan)
              /\ incoming' = s /\ transport' = transport \cup {s}
           \/ /\ Begin(s, Live(i, Object(s, "receiver"), FALSE, FALSE), 0)
              /\ incoming' = s /\ UNCHANGED transport
           \/ Deleted(s) /\ UNCHANGED <<incoming, transport>>
    /\ UNCHANGED <<cache, kept, readerOpen, call, samples, ref, leaked, taken>>

(* The instance of what a writer keeps or is untyped: no reader asks.      *)
Unread == AnyInstance

(* serdata_from_sample() and serdata_from_loaned_sample(), which takes the *)
(* reference to the loan over. A raw loan is not serialized: it has no m_t *)
(* and no bytes to make one from.                                          *)
FromSample ==
    /\ \E s \in Serdatas, loan \in BOOLEAN, raw \in BOOLEAN :
           /\ raw => loan
           /\ Begin(s, Live(Unread, IF raw THEN {} ELSE Object(s, "receiver"), loan, ~raw),
                        IF loan THEN 1 ELSE 0)
           /\ kept' = kept \cup {s}
    /\ UNCHANGED <<transport, incoming, cache, readerOpen, call, samples, ref, leaked, taken>>

(* serdata_to_untyped(): a serdata with the serialized key.                *)
ToUntyped ==
    /\ \E s \in Serdatas, d \in (kept \cup {incoming}) \ {Null} :
           /\ serdata[d].loan \/ serdata[d].m_t # {}
           /\ Begin(s, Live(Unread, {}, FALSE, TRUE), 0)
           /\ kept' = kept \cup {s}
    /\ UNCHANGED <<transport, incoming, cache, readerOpen, call, samples, ref, leaked, taken>>

-----------------------------------------------------------------------------
(***************************************************************************)
(* The C library: its reader cache, and what it keeps. A read in progress  *)
(* has the reader cache locked.                                            *)
(***************************************************************************)
CacheIsFree == \A c \in Callers : call[c].op # "read"

(* The reference passes to the cache; with KEEP_LAST the oldest sample of  *)
(* the instance is pushed out.                                             *)
NewSample == [sd |-> incoming, seen |-> FALSE]
SameInstance == {j \in DOMAIN cache : serdata[cache[j].sd].instance = serdata[incoming].instance}

Store ==
    /\ incoming # Null /\ CacheIsFree /\ readerOpen
    /\ \/ /\ Cardinality(SameInstance) < Depth
          /\ cache' = Append(cache, NewSample)
          /\ UNCHANGED <<serdata, heap, loanRefs>>
       \/ /\ Cardinality(SameInstance) = Depth
          /\ \E j \in SameInstance :
                 /\ \A i \in SameInstance : j <= i
                 /\ cache' = Append(RemoveAt(cache, j), NewSample)
                 /\ Ref([s \in Serdatas |-> -One(s, cache[j].sd)])
    /\ incoming' = Null
    /\ UNCHANGED <<transport, kept, readerOpen, call, samples, ref, leaked, taken>>

(* Without the reader the sample is dropped.                               *)
DropIncoming ==
    /\ incoming # Null /\ CacheIsFree /\ ~readerOpen
    /\ Ref([s \in Serdatas |-> -One(s, incoming)])
    /\ incoming' = Null
    /\ UNCHANGED <<transport, cache, kept, readerOpen, call, samples, ref, leaked, taken>>

LetGo ==
    /\ \E s \in kept :
           /\ ~\E c \in Callers : call[c].op = "getT" /\ call[c].sd = s
           /\ Ref([u \in Serdatas |-> -One(u, s)])
           /\ kept' = kept \ {s}
    /\ UNCHANGED <<transport, incoming, cache, readerOpen, call, samples, ref, leaked, taken>>

TransportLetsGo ==
    /\ \E s \in transport \ {incoming} :
           /\ transport' = transport \ {s}
           /\ loanRefs' = [loanRefs EXCEPT ![s] = @ - 1]
    /\ UNCHANGED <<serdata, heap, incoming, cache, kept, readerOpen, call, samples, ref, leaked, taken>>

-----------------------------------------------------------------------------
(***************************************************************************)
(* getT(): where m_t is null an object is made, and published if no other  *)
(* thread was first. serdata_print() calls it for what the C library has.  *)
(***************************************************************************)
GetT(c) ==
    /\ call[c] = Idle
    /\ \E s \in kept :
           /\ serdata[s].m_t = {}
           /\ LET own == IF serdata[s].bytes THEN Object(s, c) ELSE {}
              IN  /\ heap' = heap \cup own
                  /\ call' = [call EXCEPT ![c] = [op |-> "getT", sd |-> s, own |-> own]]
    /\ UNCHANGED <<serdata, loanRefs, transport, incoming, cache, kept, readerOpen, samples, ref, leaked, taken>>

PublishAlways(c) ==                                         \* mutant
    /\ call[c].op = "getT"
    /\ serdata' = [serdata EXCEPT ![call[c].sd].m_t = call[c].own]
    /\ call' = [call EXCEPT ![c] = Idle]
    /\ UNCHANGED <<heap, loanRefs, transport, incoming, cache, kept, readerOpen, samples, ref, leaked, taken>>
PublishAndForget(c) ==                                      \* mutant
    /\ call[c].op = "getT"
    /\ serdata' = [serdata EXCEPT ![call[c].sd].m_t = IF @ = {} THEN call[c].own ELSE @]
    /\ call' = [call EXCEPT ![c] = Idle]
    /\ UNCHANGED <<heap, loanRefs, transport, incoming, cache, kept, readerOpen, samples, ref, leaked, taken>>
Publish(c) ==
    /\ call[c].op = "getT"
    /\ LET s == call[c].sd
           first == serdata[s].m_t = {}
       IN  /\ serdata' = [serdata EXCEPT ![s].m_t = IF first THEN call[c].own ELSE @]
           /\ heap' = IF first THEN heap ELSE heap \ call[c].own
    /\ call' = [call EXCEPT ![c] = Idle]
    /\ UNCHANGED <<loanRefs, transport, incoming, cache, kept, readerOpen, samples, ref, leaked, taken>>

-----------------------------------------------------------------------------
(***************************************************************************)
(* read() and take() of the reader and of its selectors, into              *)
(* LoanedSamples (loaned) or as copies, through an iterator or as blobs.   *)
(* The filter is default_filter_state or that of the selector. A closed    *)
(* reader throws, and so do the selectors of a next instance or a query:   *)
(* nothing changes. The C library passes on the first samples it has of    *)
(* what is asked for; nobody changes the cache meanwhile.                  *)
(***************************************************************************)
Requests ==
    [take : BOOLEAN, loaned : BOOLEAN, filter : StateFilters,
     handle : Instances \cup {AnyInstance}, max : SomeMax \cup {AllSamples}]

BeginRead(c) ==
    /\ call[c] = Idle /\ CacheIsFree /\ readerOpen
    /\ \E r \in Requests :
           LET mask == Mask(r.filter, AnyState, AnyState)
               wanted == {j \in DOMAIN cache : Selects(mask, r.handle, cache[j])}
               first == {j \in wanted : Cardinality({i \in wanted : i < j}) < r.max}
           IN  call' = [call EXCEPT ![c] =
                   [op |-> "read", take |-> r.take, loaned |-> r.loaned, got |-> << >>,
                    todo |-> {cache[j].sd : j \in first}]]
    /\ UNCHANGED <<serdata, heap, loanRefs, transport, incoming, cache, kept, readerOpen,
                   samples, ref, leaked, taken>>

(* collector_callback_fn(): append_sample() of LoanedSamplesHolder refers  *)
(* to the sample twice, from latest_sample (which gives its previous one   *)
(* up) and from the LoanedSamples; the other holders copy. The C library   *)
(* gives up what is taken.                                                 *)
Latest(r, s) == IF r.loaned /\ r.got # << >> THEN One(s, Last(r.got)) ELSE 0

Appended(r, s, t) == IF r.loaned THEN 2 * One(s, t) - Latest(r, s) ELSE 0

(* The next sample that is passed on is the oldest of those to do.         *)
IsNext(r, j) == cache[j].sd \in r.todo /\ \A i \in 1 .. j - 1 : cache[i].sd \notin r.todo

Passed(r, t) == [r EXCEPT !.todo = r.todo \ {t}, !.got = Append(r.got, t)]

MarkSeen(j) == [cache EXCEPT ![j] = [sd |-> cache[j].sd, seen |-> TRUE]]

CollectKept(c) ==                                           \* mutant
    /\ call[c].op = "read"
    /\ \E j \in DOMAIN cache :
           LET r == call[c]
               t == cache[j].sd
           IN  /\ IsNext(r, j)
               /\ cache' = MarkSeen(j)
               /\ Ref([s \in Serdatas |-> Appended(r, s, t)])
               /\ call' = [call EXCEPT ![c] = Passed(r, t)]
               /\ taken' = IF r.take THEN [taken EXCEPT ![t] = taken[t] + 1] ELSE taken
    /\ UNCHANGED <<transport, incoming, kept, readerOpen, samples, ref, leaked>>
Collect(c) ==
    /\ call[c].op = "read"
    /\ \E j \in DOMAIN cache :
           LET r == call[c]
               t == cache[j].sd
           IN  /\ IsNext(r, j)
               /\ cache' = IF r.take THEN RemoveAt(cache, j) ELSE MarkSeen(j)
               /\ Ref([s \in Serdatas |-> Appended(r, s, t) - IF r.take THEN One(s, t) ELSE 0])
               /\ call' = [call EXCEPT ![c] = Passed(r, t)]
               /\ taken' = IF r.take THEN [taken EXCEPT ![t] = taken[t] + 1] ELSE taken
    /\ UNCHANGED <<transport, incoming, kept, readerOpen, samples, ref, leaked>>

(* The holder goes with its latest_sample; the LoanedSamples returned take *)
(* the place of those the thread had.                                      *)
EndRead(c) ==
    /\ call[c].op = "read" /\ call[c].todo = {}
    /\ LET r == call[c]
       IN  /\ samples' = IF r.loaned THEN [samples EXCEPT ![c] = r.got] ELSE samples
           /\ Ref([s \in Serdatas |->
                  IF r.loaned THEN -Latest(r, s) - Occurs(s, samples[c]) ELSE 0])
    /\ call' = [call EXCEPT ![c] = Idle]
    /\ UNCHANGED <<transport, incoming, cache, kept, readerOpen, ref, leaked, taken>>

(* close() waits for the lock of the object, which a read has; the C       *)
(* library drops what it has cached.                                       *)
CloseReader(c) ==
    /\ call[c] = Idle /\ CacheIsFree /\ readerOpen
    /\ readerOpen' = FALSE /\ cache' = << >>
    /\ Ref([s \in Serdatas |-> -Occurs(s, Cached)])
    /\ UNCHANGED <<transport, incoming, kept, call, samples, ref, leaked, taken>>

-----------------------------------------------------------------------------
(***************************************************************************)
(* LoanedSamples and SampleRefs of the application.                        *)
(***************************************************************************)
Referred == ({ref} \ {Null}) \cup UNION {Range(samples[c]) : c \in Callers}

DropSamples(c) ==
    /\ call[c] = Idle /\ samples[c] # << >>
    /\ samples' = [samples EXCEPT ![c] = << >>]
    /\ Ref([s \in Serdatas |-> -Occurs(s, samples[c])])
    /\ UNCHANGED <<transport, incoming, cache, kept, readerOpen, call, ref, leaked, taken>>

ConstructRef ==
    /\ ref = Null
    /\ \E s \in Referred :
           /\ ref' = s
           /\ Ref([u \in Serdatas |-> One(u, s)])
    /\ UNCHANGED <<transport, incoming, cache, kept, readerOpen, call, samples, leaked, taken>>

(* operator=() does not give up what the SampleRef had: copy() overwrites  *)
(* the pointer.                                                            *)
AssignRef ==
    /\ ref # Null
    /\ ref \notin leaked /\ Cardinality(leaked) < MaxLost
    /\ \E s \in Referred :
           /\ ref' = s
           /\ leaked' = leaked \cup {ref}
           /\ Ref([u \in Serdatas |-> One(u, s)])
    /\ UNCHANGED <<transport, incoming, cache, kept, readerOpen, call, samples, taken>>

DestroyRef ==
    /\ ref # Null
    /\ ref' = Null
    /\ Ref([u \in Serdatas |-> -One(u, ref)])
    /\ UNCHANGED <<transport, incoming, cache, kept, readerOpen, call, samples, leaked, taken>>

-----------------------------------------------------------------------------
ReadInit ==
    /\ serdata = [s \in Serdatas |-> Unborn]
    /\ heap = {} /\ loanRefs = [s \in Serdatas |-> 0] /\ transport = {}
    /\ incoming = Null /\ cache = << >> /\ kept = {} /\ readerOpen = TRUE
    /\ call = [c \in Callers |-> Idle]
    /\ samples = [c \in Callers |-> << >>] /\ ref = Null
    /\ leaked = {} /\ taken = [s \in Serdatas |-> 0]

ReadNext ==
    \/ FromSer \/ FromPsmx \/ FromSample \/ ToUntyped
    \/ Store \/ DropIncoming \/ LetGo \/ TransportLetsGo
    \/ ConstructRef \/ AssignRef \/ DestroyRef
    \/ \E c \in Callers :
           \/ GetT(c) \/ Publish(c)
           \/ BeginRead(c) \/ Collect(c) \/ EndRead(c) \/ CloseReader(c)
           \/ DropSamples(c)

ReadSpec == ReadInit /\ [][ReadNext]_readVars

-----------------------------------------------------------------------------
(***************************************************************************)
(* Properties.                                                             *)
(***************************************************************************)
ReadTypeOK ==
    /\ \A s \in Serdatas :
           /\ serdata[s].life \in {"none", "live", "freed"} /\ serdata[s].refs \in Nat
           /\ loanRefs[s] \in 0 .. 2 /\ taken[s] \in Nat
           /\ Cardinality(serdata[s].m_t) <= 1
    /\ leaked \subseteq Serdatas
    /\ Range(Cached) \subseteq Serdatas /\ Len(cache) <= Depth * Cardinality(Instances)

(* The references of the threads: in their LoanedSamples, and in those and *)
(* the latest_sample of a read in progress.                                *)
RefsOf(c, s, q, r) ==
    {<<c, "samples", j>> : j \in {k \in DOMAIN q : q[k] = s}}
        \cup IF r.op = "read" /\ r.loaned
             THEN {<<c, "got", j>> : j \in {k \in DOMAIN r.got : r.got[k] = s}}
                  \cup {<<c, "latest", j>> : j \in 1 .. Latest(r, s)}
             ELSE {}

HeldByCallers(s) == UNION {RefsOf(c, s, samples[c], call[c]) : c \in Callers}

Claims(s) ==
    One(s, incoming) + One(s, ref) + Occurs(s, Cached) + Cardinality({s} \cap kept)
        + Cardinality({s} \cap leaked) + Cardinality(HeldByCallers(s))

(* Every reference is one somebody will give up, or was lost when a        *)
(* SampleRef was assigned; a serdata is alive as long as there is one.     *)
ReferencesExact ==
    \A s \in Serdatas :
        /\ serdata[s].refs = Claims(s)
        /\ serdata[s].refs > 0 <=> serdata[s].life = "live"

LiveObjects == UNION {OnHeap(serdata[s].m_t) : s \in {u \in Serdatas : serdata[u].life = "live"}}
Unpublished == UNION {call[c].own : c \in {d \in Callers : call[d].op = "getT"}}

(* No object of the topic type is leaked or deleted under a serdata: those *)
(* allocated are the objects of the live serdatas and those that threads   *)
(* in getT() have not published yet.                                       *)
ObjectsExact == heap = LiveObjects \cup Unpublished

(* A loan has a reference of the transport and one of its serdata: it goes *)
(* back when the application has given up the last sample in it.           *)
LoansExact ==
    \A s \in Serdatas :
        loanRefs[s] = Cardinality({s} \cap transport)
                    + IF serdata[s].life = "live" /\ serdata[s].loan THEN 1 ELSE 0

(* A sample is taken once, and read by nobody afterwards.                  *)
TakenOnce ==
    \A s \in Serdatas :
        /\ taken[s] <= 1
        /\ taken[s] = 1 => s \notin Range(Cached)

(* Samples, objects and loans have exactly the owners that will give them  *)
(* up: nothing is freed under anybody, and nothing is left; and a sample   *)
(* that was taken is nobody else's.                                        *)
OwnershipIsExact == ReferencesExact /\ ObjectsExact /\ LoansExact /\ TakenOnce

(* What data() and the iterators dereference is never null.                *)
DataIsThere ==
    \A s \in Referred \cup Range(Cached) : serdata[s].m_t # {}

(* What data() returned stays the object of the sample while it lives,     *)
(* whoever calls getT() at the same time.                                  *)
DataIsStable ==
    [][\A s \in Serdatas :
           serdata[s].life = "live" /\ serdata[s].m_t # {} => serdata'[s].m_t = serdata[s].m_t]_readVars
=============================================================================
