------------------------------ MODULE WritePath ------------------------------
(***************************************************************************)
(* A DataWriter whose threads write samples, register, dispose and         *)
(* unregister instances, borrow memory for samples, and close it.          *)
(*                                                                         *)
(* The operations that write take no lock: they test that the writer is    *)
(* open and read its handle, one after the other. Those on instances hold  *)
(* the object mutex while they are in the C library, where a call may wait *)
(* for room until max_blocking_time. A call is a record of what the        *)
(* application passed; the ghost field "sent" is what was published for it.*)
(*                                                                         *)
(* Two pointers are used unchecked when a serialized sample is written. If *)
(* one of them is null the process crashes, and nothing goes on after that.*)
(***************************************************************************)
EXTENDS Naturals, Sequences, FiniteSets, FiniteSetsExt

CONSTANTS
    WriteThreads,
    Calls,          \* the calls that threads make
    Unreadable,     \* the samples whose bytes are none of the type
    Nil,            \* the nil instance handle
    NoOne           \* holds no mutex

VARIABLES
    wpc,            \* where each thread is
    call,           \* the call that it executes, or NoCall
    holder,         \* ObjectDelegate::mutex
    writerClosed,   \* closed
    entity,         \* whether ddsc_entity is not 0
    td,             \* whether td_ is not null
    cwriter,        \* external: the C library's writer
    loaned          \* external: the threads that have memory on loan

writeVars == <<wpc, call, holder, writerClosed, entity, td, cwriter, loaned>>

NoCall == [op |-> "none"]
Time == {"invalid", "given"}

-----------------------------------------------------------------------------
(* The calls. A range of samples may come with a range of handles: the     *)
(* shorter one ends the loop. What a handle is does not matter, because it *)
(* is ignored. A sample is known by its key.                               *)
OfSamples(op, samples, n, time) ==
    [op |-> op, samples |-> samples, n |-> n, time |-> time, sent |-> << >>,
     onLoan |-> FALSE, outcome |-> "none", result |-> Nil]

Shorter(samples, handles) == Min({Len(samples), handles})

WriteCall(k, time) == OfSamples("write", <<k>>, 1, time)
WriteRange(samples, time) == OfSamples("write", samples, Len(samples), time)
WritePairs(samples, handles, time) ==
    OfSamples("write", samples, Shorter(samples, handles), time)
WriteLoan(k) == [WriteCall(k, "invalid") EXCEPT !.onLoan = TRUE]

WriteDisposeCall(k, time) == OfSamples("writedispose", <<k>>, 1, time)
WriteDisposeRange(samples, time) == OfSamples("writedispose", samples, Len(samples), time)
WriteDisposePairs(samples, handles, time) ==
    OfSamples("writedispose", samples, Shorter(samples, handles), time)

WriteCdr(k, time) == OfSamples("write_cdr", <<k>>, 1, time)
DisposeCdr(k, time) == OfSamples("dispose_cdr", <<k>>, 1, time)
UnregisterCdr(k, time) == OfSamples("unregister_instance_cdr", <<k>>, 1, time)

RegisterInstance(k, time) == OfSamples("register_instance", <<k>>, 1, time)
UnregisterInstance(k, time) == OfSamples("unregister_instance", <<k>>, 1, time)
DisposeInstance(k, time) == OfSamples("dispose_instance", <<k>>, 1, time)
UnregisterHandle(h, time) == OfSamples("unregister_instance_ih", <<h>>, 1, time)
DisposeHandle(h, time) == OfSamples("dispose_instance_ih", <<h>>, 1, time)
KeyValue(h) == OfSamples("key_value", <<h>>, 1, "invalid")
LookupInstance(k) == OfSamples("lookup_instance", <<k>>, 1, "invalid")

LoanSample == OfSamples("loan_sample", <<Nil>>, 1, "invalid")
ReturnLoan == OfSamples("return_loan", <<Nil>>, 1, "invalid")

CloseWriter == OfSamples("close", << >>, 0, "invalid")

Cdr == {"write_cdr", "dispose_cdr", "unregister_instance_cdr"}
ByHandle == {"unregister_instance_ih", "dispose_instance_ih"}
Loans == {"loan_sample", "return_loan"}
Unlocked == {"write", "writedispose"} \cup Cdr \cup Loans
Tells == {"key_value", "lookup_instance"} \cup Loans    \* they publish nothing
OfInstance == {"register_instance", "unregister_instance", "dispose_instance"}
Operations == {"write", "writedispose", "close"} \cup OfInstance \cup ByHandle \cup Cdr \cup Tells

(* The calls are those above: only a write is of more samples than one.    *)
ASSUME WriteAssumption ==
    /\ NoOne \notin WriteThreads
    /\ \A c \in Calls :
          /\ c = [OfSamples(c.op, c.samples, c.n, c.time) EXCEPT !.onLoan = c.onLoan]
          /\ c.op \in Operations /\ c.time \in Time /\ c.onLoan \in BOOLEAN
          /\ c.n \in Nat /\ c.n <= Len(c.samples)
          /\ c.op \notin {"write", "writedispose"} => c.n = IF c.op = "close" THEN 0 ELSE 1

-----------------------------------------------------------------------------
WriteInit ==
    /\ wpc = [t \in WriteThreads |-> "idle"]
    /\ call = [t \in WriteThreads |-> NoCall]
    /\ holder = NoOne
    /\ writerClosed = FALSE
    /\ entity = TRUE /\ td = TRUE
    /\ cwriter = "open"
    /\ loaned = {}

To(t, stage) == wpc' = [wpc EXCEPT ![t] = stage]

(* A call that the lock protects releases it, whichever way it ends.       *)
Unlocks(t) == holder' = IF holder = t THEN NoOne ELSE holder
KeepsLockOnThrow(t) ==                                              \* mutant
    /\ To(t, "returned")
    /\ call' = [call EXCEPT ![t].outcome = "exception"]
    /\ UNCHANGED holder
Throws(t) ==
    /\ To(t, "returned")
    /\ call' = [call EXCEPT ![t].outcome = "exception"]
    /\ Unlocks(t)
Ends(t, result) ==
    /\ To(t, "returned")
    /\ call' = [call EXCEPT ![t].outcome = "ok", ![t].result = result]
    /\ Unlocks(t)

(* A thread writes on loan what it has on loan, and has one at a time.     *)
BeginCall(t) ==
    /\ wpc[t] = "idle"
    /\ \E c \in Calls :
           /\ c.op = "loan_sample" => t \notin loaned
           /\ (c.onLoan \/ c.op = "return_loan") => t \in loaned
           /\ call' = [call EXCEPT ![t] = c]
           /\ To(t, IF c.op \in Unlocked THEN "check" ELSE "lock")
    /\ UNCHANGED <<holder, writerClosed, entity, td, cwriter, loaned>>

(* The constructor of ScopedObjectLock.                                    *)
TakeLock(t) ==
    /\ wpc[t] = "lock" /\ holder = NoOne
    /\ IF writerClosed THEN Throws(t)
       ELSE /\ holder' = t
            /\ To(t, IF call[t].op = "close" THEN "forget" ELSE "enter")
            /\ UNCHANGED call
    /\ UNCHANGED <<writerClosed, entity, td, cwriter, loaned>>

(* The head of the loops over a range, and check().                        *)
CheckOpen(t) ==
    /\ wpc[t] = "check"
    /\ IF Len(call[t].sent) = call[t].n THEN Ends(t, Nil)
       ELSE IF writerClosed THEN Throws(t)
       ELSE To(t, IF call[t].op \in Cdr THEN "reference" ELSE "enter") /\ UNCHANGED <<call, holder>>
    /\ UNCHANGED <<writerClosed, entity, td, cwriter, loaned>>

(* write_cdr() uses td_ without a lock. Reference::operator->() tests that *)
(* it is not null, and then reads it again.                                *)
CheckReference(t) ==
    /\ wpc[t] = "reference"
    /\ IF td THEN To(t, "use") /\ UNCHANGED <<call, holder>> ELSE Throws(t)
    /\ UNCHANGED <<writerClosed, entity, td, cwriter, loaned>>

(* Neither that second pointer is tested, null if close() came between,    *)
(* nor the one to the serialized data, null if the bytes are not a sample. *)
UseReference(t) ==
    /\ wpc[t] = "use"
    /\ To(t, IF td /\ call[t].samples[1] \notin Unreadable THEN "enter" ELSE "crashed")
    /\ UNCHANGED <<call, holder, writerClosed, entity, td, cwriter, loaned>>

Crashed == \E t \in WriteThreads : wpc[t] = "crashed"

(* What the operation tests before the C library: of a handle, of a time.  *)
Misused(c) ==
    \/ c.op \in ByHandle /\ c.samples = <<Nil>>
    \/ c.op = "register_instance" /\ c.time = "given"

EnterC(t) ==
    /\ wpc[t] = "enter"
    /\ IF Misused(call[t]) \/ ~entity \/ cwriter # "open" THEN Throws(t)
       ELSE To(t, "c") /\ UNCHANGED <<call, holder>>
    /\ UNCHANGED <<writerClosed, entity, td, cwriter, loaned>>

(* The C library does what was asked.                                      *)
Publication(c) ==
    [op |-> c.op, key |-> c.samples[Len(c.sent) + 1],
     time |-> IF c.time = "invalid" THEN "now" ELSE c.time]
Publishes(t) ==
    /\ call[t].op \in {"write", "writedispose"}
    /\ To(t, "check")
    /\ call' = [call EXCEPT ![t].sent = Append(call[t].sent, Publication(call[t]))]
    /\ UNCHANGED holder
    /\ loaned' = IF call[t].onLoan THEN loaned \ {t} ELSE loaned

PublishesOne(t) ==
    /\ call[t].op \notin {"write", "writedispose"} \cup Tells
    /\ To(t, "returned")
    /\ call' = [call EXCEPT ![t].sent = <<Publication(call[t])>>, ![t].outcome = "ok",
                            ![t].result = IF call[t].op = "register_instance"
                                          THEN call[t].samples[1] ELSE Nil]
    /\ Unlocks(t)
    /\ UNCHANGED loaned

(* An instance that is looked up may be unknown.                           *)
Tell(t) ==
    /\ call[t].op \in Tells
    /\ \E result \in {call[t].samples[1]} \cup (IF call[t].op = "lookup_instance"
                                                THEN {Nil} ELSE {}) : Ends(t, result)
    /\ loaned' = CASE call[t].op = "loan_sample" -> loaned \cup {t}
                   [] call[t].op = "return_loan" -> loaned \ {t}
                   [] OTHER -> loaned

Act(t) ==
    /\ wpc[t] = "c"
    /\ Publishes(t) \/ PublishesOne(t) \/ Tell(t)
    /\ UNCHANGED <<writerClosed, entity, td, cwriter>>

(* The C library fails: max_blocking_time has passed, dds_delete           *)
(* interrupts the call, the handle is unknown, there is no memory to lend. *)
RefusedUnnoticed(t) ==                                              \* mutant
    /\ wpc[t] = "c"
    /\ Ends(t, Nil)
    /\ UNCHANGED <<writerClosed, entity, td, cwriter, loaned>>
Refused(t) ==
    /\ wpc[t] = "c"
    /\ Throws(t)
    /\ UNCHANGED <<writerClosed, entity, td, cwriter, loaned>>

(* close(): the listener, the dependents of the topic and the publisher's  *)
(* set are in EntityListener and EntityTree; then td_; then dds_delete,    *)
(* which lets no call in and waits for those inside; then the fields.      *)
Forget(t) ==
    /\ wpc[t] = "forget"
    /\ td' = FALSE
    /\ To(t, "delete")
    /\ UNCHANGED <<call, holder, writerClosed, entity, cwriter, loaned>>

Delete(t) ==
    /\ wpc[t] = "delete"
    /\ cwriter' = "closing"
    /\ To(t, "drain")
    /\ UNCHANGED <<call, holder, writerClosed, entity, td, loaned>>

DeleteDoesNotWait(t) ==                                             \* mutant
    /\ wpc[t] = "drain"
    /\ cwriter' = "deleted" /\ loaned' = {}
    /\ entity' = FALSE /\ writerClosed' = TRUE
    /\ Ends(t, Nil)
    /\ UNCHANGED td
Drained(t) ==
    /\ wpc[t] = "drain"
    /\ \A u \in WriteThreads : wpc[u] # "c"
    /\ cwriter' = "deleted" /\ loaned' = {}
    /\ entity' = FALSE /\ writerClosed' = TRUE
    /\ Ends(t, Nil)
    /\ UNCHANGED td

EndsWithCall(t) ==                                                  \* mutant
    /\ wpc[t] = "returned"
    /\ To(t, "idle")
    /\ UNCHANGED <<call, holder, writerClosed, entity, td, cwriter, loaned>>
EndCall(t) ==
    /\ wpc[t] = "returned"
    /\ To(t, "idle")
    /\ call' = [call EXCEPT ![t] = NoCall]
    /\ UNCHANGED <<holder, writerClosed, entity, td, cwriter, loaned>>

Continue(t) ==
    /\ ~Crashed
    /\ \/ TakeLock(t) \/ CheckOpen(t) \/ CheckReference(t) \/ UseReference(t) \/ EnterC(t)
       \/ Act(t) \/ Refused(t) \/ Forget(t) \/ Delete(t) \/ Drained(t) \/ EndCall(t)

WriteNext == \E t \in WriteThreads : (~Crashed /\ BeginCall(t)) \/ Continue(t)

WriteSpec == WriteInit /\ [][WriteNext]_writeVars

(* A thread that may continue does; the C library returns from a call      *)
(* because max_blocking_time is finite. Nothing is assumed of who gets the *)
(* mutex next, nor that the application makes any call.                    *)
WriteFairness == \A t \in WriteThreads : WF_writeVars(Continue(t))

-----------------------------------------------------------------------------
WriteTypeOK ==
    /\ wpc \in [WriteThreads -> {"idle", "check", "lock", "reference", "use", "enter", "c",
                                 "forget", "delete", "drain", "returned", "crashed"}]
    /\ \A t \in WriteThreads : (wpc[t] = "idle") <=> (call[t] = NoCall)
    /\ holder \in WriteThreads \cup {NoOne}
    /\ {writerClosed, entity, td} \subseteq BOOLEAN
    /\ cwriter \in {"open", "closing", "deleted"}
    /\ loaned \subseteq WriteThreads

(* What the application asked for, from the arguments alone.               *)
Asked(c) ==
    IF c.op \in Tells \cup {"close"} THEN << >>
    ELSE [i \in 1 .. c.n |-> [op |-> c.op, key |-> c.samples[i],
                              time |-> IF c.time = "invalid" THEN "now" ELSE "given"]]

(* A call that returns has published every sample of its range, in order,  *)
(* with the time that was given; a call that throws has published those    *)
(* before the one that failed, and never all of them. A registered         *)
(* instance's handle is its own.                                           *)
PublishedAsAsked ==
    \A t \in WriteThreads :
        LET c == call[t] IN
        wpc[t] # "idle" =>
            /\ Len(c.sent) <= Len(Asked(c)) /\ c.sent = SubSeq(Asked(c), 1, Len(c.sent))
            /\ c.outcome = "ok" => c.sent = Asked(c)
            /\ (c.outcome = "exception" /\ Asked(c) # << >>) => c.sent # Asked(c)
            /\ (c.outcome = "ok" /\ c.op = "register_instance") => c.result = c.samples[1]

(* When close() has returned no thread publishes any more, though writes   *)
(* take no lock and tested the writer before close() began.                *)
NothingAfterClose ==
    [][\A t \in WriteThreads :
           (wpc[t] # "idle" /\ wpc'[t] # "idle" /\ call'[t].sent # call[t].sent)
           => ~writerClosed]_writeVars

(* A departure of the code, stated as it is: a call that writes serialized *)
(* data crashes the process if the bytes are not a sample, or if another   *)
(* thread closes the writer after the call tested that it is open. No      *)
(* other call crashes, and none that has published anything.               *)
CrashesAreExplained ==
    \A t \in WriteThreads :
        wpc[t] = "crashed" =>
            /\ call[t].op \in Cdr /\ call[t].sent = << >>
            /\ \/ call[t].samples[1] \in Unreadable
               \/ writerClosed
               \/ \E u \in WriteThreads : call[u].op = "close" /\ holder = u

(* What is published is what was asked for, while the writer is open; only *)
(* the calls of CrashesAreExplained do neither publish nor throw.          *)
PublishesWhatIsAsked ==
    []PublishedAsAsked /\ []CrashesAreExplained /\ NothingAfterClose

(* Calls past the lock end, those that throw too, and the mutex that they  *)
(* hold is free again, unless the process crashes first.                   *)
WriterCallsEnd ==
    /\ \A t \in WriteThreads : wpc[t] \notin {"idle", "lock"} ~> (wpc[t] = "idle" \/ Crashed)
    /\ []<>(holder = NoOne \/ Crashed)
=============================================================================
