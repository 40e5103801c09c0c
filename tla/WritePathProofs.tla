-------------------------- MODULE WritePathProofs --------------------------
(***************************************************************************)
(* Proofs about WritePath, for any number of threads and any calls: what   *)
(* is published is what was asked for, and nothing is after close(). And   *)
(* about BuiltinData, for any number of endpoints: what is told of a       *)
(* matched writer or reader is true of it, and what is freed was           *)
(* allocated.                                                              *)
(*                                                                         *)
(* Two arguments meet in the first. A call has published a prefix of what  *)
(* it was asked, and the stage it is in says how much (Progress). And      *)
(* close() is in one thread at a time, the holder of the mutex (Closing),  *)
(* so that once dds_delete has drained the C library nobody is in it       *)
(* again: a thread that tested the writer before is turned away at the     *)
(* handle. Reasons says when td_ is null, and so what a crash tells.       *)
(***************************************************************************)
EXTENDS WritePath, BuiltinData, SequenceTheorems, TLAPS

Writes == {"write", "writedispose"}
Stages == {"idle", "check", "lock", "reference", "use", "enter", "c", "forget", "delete", "drain",
           "returned", "crashed"}

SampleArgs == {c.samples : c \in Calls}
Published ==
    [op : Operations, key : {s[i] : s \in SampleArgs, i \in Nat}, time : {"now", "given"}]
Results == {Nil} \cup {s[1] : s \in SampleArgs}

CallRecords ==
    [op : Operations, samples : SampleArgs, n : Nat, time : Time, sent : Seq(Published),
     onLoan : BOOLEAN, outcome : {"none", "ok", "exception"}, result : Results]

(* How many samples a call is to publish, and each of them.                *)
Number(c) == IF c.op \in Tells \cup {"close"} THEN 0 ELSE c.n
Item(c, i) ==
    [op |-> c.op, key |-> c.samples[i], time |-> IF c.time = "invalid" THEN "now" ELSE "given"]

WriteTyped ==
    /\ wpc \in [WriteThreads -> Stages]
    /\ call \in [WriteThreads -> CallRecords \cup {NoCall}]
    /\ \A t \in WriteThreads : wpc[t] = "idle" <=> call[t] = NoCall
    /\ holder \in WriteThreads \cup {NoOne}
    /\ writerClosed \in BOOLEAN /\ entity \in BOOLEAN /\ td \in BOOLEAN
    /\ cwriter \in {"open", "closing", "deleted"}
    /\ loaned \subseteq WriteThreads

(* A call c at a stage: what it has published, and what it may still do.   *)
Prefix(c) ==
    /\ c \in CallRecords
    /\ c.op \notin Writes => c.n = IF c.op = "close" THEN 0 ELSE 1
    /\ Len(c.sent) <= Number(c)
    /\ \A i \in 1 .. Len(c.sent) : c.sent[i] = Item(c, i)

At(c, stage) ==
    /\ stage # "returned" => c.outcome = "none" /\ (c.op \notin Writes => c.sent = << >>)
    /\ stage = "check" => c.op \in Unlocked
    /\ stage = "lock" => c.op \notin Unlocked /\ c.sent = << >>
    /\ stage \in {"reference", "use", "crashed"} => c.op \in Cdr
    /\ stage \in {"reference", "use", "enter", "c"} =>
          c.op # "close" /\ (c.op \notin Tells => Len(c.sent) < Number(c))
    /\ stage \in {"forget", "delete", "drain"} => c.op = "close"
    /\ stage = "returned" =>
          /\ c.outcome \in {"ok", "exception"}
          /\ c.outcome = "ok" => Len(c.sent) = Number(c)
          /\ c.outcome = "exception" /\ Number(c) > 0 => Len(c.sent) < Number(c)
          /\ c.outcome = "ok" /\ c.op = "register_instance" => c.result = c.samples[1]

Progress ==
    \A t \in WriteThreads : wpc[t] # "idle" => Prefix(call[t]) /\ At(call[t], wpc[t])

Closing ==
    /\ \A t \in WriteThreads :
          wpc[t] \in {"forget", "delete", "drain"} => holder = t /\ ~writerClosed
    /\ writerClosed => cwriter = "deleted"
    /\ cwriter = "deleted" => \A t \in WriteThreads : wpc[t] # "c"

WriteInv == WriteTyped /\ Progress /\ Closing

(* td_ is null from close() on, and a crash has its reason for ever.       *)
Reasons ==
    /\ ~td => writerClosed \/ \E u \in WriteThreads : wpc[u] \in {"delete", "drain"}
    /\ \A t \in WriteThreads :
          wpc[t] = "crashed" => call[t].samples[1] \in Unreadable \/ ~td

-----------------------------------------------------------------------------
(* What the application asked for, as a sequence.                          *)
LEMMA AskedIs ==
    ASSUME NEW c, Prefix(c)
    PROVE  /\ Asked(c) \in Seq(Published) /\ Len(Asked(c)) = Number(c) /\ Number(c) \in Nat
           /\ \A i \in 1 .. Number(c) : Asked(c)[i] = Item(c, i)
<1>1. c \in CallRecords /\ c.n \in Nat /\ Number(c) \in Nat
  BY DEF Prefix, CallRecords, Number
<1>2. ASSUME NEW i \in Nat
      PROVE  Item(c, i) \in Published
  BY <1>1 DEF Item, Published, CallRecords
<1>3. CASE c.op \in Tells \cup {"close"}
  BY <1>3 DEF Asked, Number
<1>4. CASE c.op \notin Tells \cup {"close"}
  <2> DEFINE a == [i \in 1 .. c.n |-> Item(c, i)]
  <2>1. Asked(c) = a /\ Number(c) = c.n
    BY <1>4 DEF Asked, Number, Item
  <2>2. a \in [1 .. c.n -> Published]
    BY <1>2
  <2>3. a \in Seq(Published)
    BY <1>1, <2>2, SeqDef
  <2>4. DOMAIN a = 1 .. c.n /\ \A i \in 1 .. c.n : a[i] = Item(c, i)
    OBVIOUS
  <2> HIDE DEF a
  <2>5. Len(a) = c.n
    BY <1>1, <2>3, <2>4, LenProperties
  <2> QED
    BY <1>1, <2>1, <2>3, <2>4, <2>5
<1> QED
  BY <1>3, <1>4

(* The property of a call that its stage implies.                          *)
LEMMA ProgressIsEnough ==
    ASSUME WriteInv
    PROVE  PublishedAsAsked
<1> SUFFICES ASSUME NEW t \in WriteThreads, wpc[t] # "idle"
             PROVE  LET c == call[t]
                    IN  /\ Len(c.sent) <= Len(Asked(c))
                        /\ c.sent = SubSeq(Asked(c), 1, Len(c.sent))
                        /\ c.outcome = "ok" => c.sent = Asked(c)
                        /\ (c.outcome = "exception" /\ Asked(c) # << >>) => c.sent # Asked(c)
                        /\ (c.outcome = "ok" /\ c.op = "register_instance") =>
                              c.result = c.samples[1]
  BY DEF PublishedAsAsked
<1> DEFINE c == call[t]
           n == Len(c.sent)
<1>1. Prefix(c) /\ At(c, wpc[t]) /\ c.sent \in Seq(Published) /\ n \in Nat
  <2>1. Prefix(c) /\ At(c, wpc[t])
    BY DEF WriteInv, Progress
  <2>2. c.sent \in Seq(Published)
    BY <2>1 DEF Prefix, CallRecords
  <2> QED
    BY <2>1, <2>2, LenProperties
<1> HIDE DEF c
<1>2. /\ Asked(c) \in Seq(Published) /\ Len(Asked(c)) = Number(c) /\ Number(c) \in Nat
      /\ \A i \in 1 .. Number(c) : Asked(c)[i] = Item(c, i)
  BY <1>1, AskedIs
<1>3. n <= Number(c) /\ \A i \in 1 .. n : c.sent[i] = Asked(c)[i]
  BY <1>1, <1>2 DEF Prefix
<1>4. c.sent = SubSeq(Asked(c), 1, n)
  <2> DEFINE p == SubSeq(Asked(c), 1, n)
  <2>1. \A i \in 1 .. n : Asked(c)[i] \in Published
    BY <1>1, <1>2, <1>3, ElementOfSeq
  <2>2. /\ p \in Seq(Published) /\ Len(p) = IF 1 <= n THEN n - 1 + 1 ELSE 0
        /\ \A i \in 1 .. n - 1 + 1 : p[i] = Asked(c)[1 + i - 1]
    BY <1>1, <2>1, SubSeqProperties
  <2> HIDE DEF p
  <2>3. Len(p) = n /\ \A i \in 1 .. n : p[i] = c.sent[i]
    BY <1>1, <1>3, <2>2
  <2>4. c.sent = p
    BY <1>1, <2>2, <2>3, SeqEqual
  <2> QED
    BY <2>4 DEF p
<1>5. wpc[t] # "returned" => c.outcome = "none"
  BY <1>1 DEF At
<1>6. c.outcome = "ok" => c.sent = Asked(c)
  <2>1. c.outcome = "ok" => n = Number(c)
    BY <1>1, <1>5 DEF At
  <2> QED
    BY <1>1, <1>2, <1>3, <2>1, SeqEqual
<1>7. c.outcome = "exception" /\ Asked(c) # << >> => c.sent # Asked(c)
  <2>1. Asked(c) # << >> => Number(c) > 0
    BY <1>2, EmptySeq
  <2>2. c.outcome = "exception" /\ Number(c) > 0 => n < Number(c)
    BY <1>1, <1>5 DEF At
  <2> QED
    BY <1>2, <2>1, <2>2
<1>8. c.outcome = "ok" /\ c.op = "register_instance" => c.result = c.samples[1]
  BY <1>1, <1>5 DEF At
<1> QED
  BY <1>2, <1>3, <1>4, <1>6, <1>7, <1>8 DEF c

-----------------------------------------------------------------------------
(* A thread goes on to another stage, perhaps with another call record.    *)
LEMMA OneCall ==
    ASSUME WriteTyped, Progress, NEW t \in WriteThreads, NEW stage \in Stages \ {"idle"},
           NEW r, Prefix(r), At(r, stage), To(t, stage), call' = [call EXCEPT ![t] = r]
    PROVE  /\ Progress'
           /\ wpc' \in [WriteThreads -> Stages]
           /\ call' \in [WriteThreads -> CallRecords \cup {NoCall}]
           /\ \A u \in WriteThreads : wpc'[u] = "idle" <=> call'[u] = NoCall
<1>1. /\ wpc'[t] = stage /\ call'[t] = r
      /\ \A u \in WriteThreads \ {t} : wpc'[u] = wpc[u] /\ call'[u] = call[u]
  BY DEF To, WriteTyped
<1>2. r \in CallRecords
  BY DEF Prefix
<1>3. r # NoCall
  BY <1>2 DEF CallRecords, NoCall, Operations, OfInstance, ByHandle, Cdr, Tells, Loans
<1>4. Progress'
  BY <1>1 DEF Progress
<1>5. wpc' \in [WriteThreads -> Stages]
  BY DEF To, WriteTyped
<1>6. call' \in [WriteThreads -> CallRecords \cup {NoCall}]
  BY <1>2 DEF WriteTyped
<1>7. \A u \in WriteThreads : wpc'[u] = "idle" <=> call'[u] = NoCall
  BY <1>1, <1>3 DEF WriteTyped
<1> QED
  BY <1>4, <1>5, <1>6, <1>7

(* ... or with the same one.                                               *)
LEMMA SameCall ==
    ASSUME WriteTyped, Progress, NEW t \in WriteThreads, NEW stage \in Stages \ {"idle"},
           wpc[t] # "idle", At(call[t], stage), To(t, stage), UNCHANGED call
    PROVE  /\ Progress'
           /\ wpc' \in [WriteThreads -> Stages]
           /\ call' \in [WriteThreads -> CallRecords \cup {NoCall}]
           /\ \A u \in WriteThreads : wpc'[u] = "idle" <=> call'[u] = NoCall
<1>1. Prefix(call[t])
  BY DEF Progress
<1>2. call' = [call EXCEPT ![t] = call[t]]
  BY DEF WriteTyped
<1> QED
  BY <1>1, <1>2, OneCall

(* What is known of a thread that executes a call.                         *)
LEMMA StageOf ==
    ASSUME Progress, NEW t \in WriteThreads, wpc[t] # "idle"
    PROVE  /\ Prefix(call[t]) /\ At(call[t], wpc[t]) /\ call[t] \in CallRecords
           /\ call[t].sent \in Seq(Published) /\ Len(call[t].sent) \in Nat
           /\ Number(call[t]) \in Nat
<1>1. Prefix(call[t]) /\ At(call[t], wpc[t])
  BY DEF Progress
<1>2. call[t] \in CallRecords /\ call[t].sent \in Seq(Published)
  BY <1>1 DEF Prefix, CallRecords
<1> QED
  BY <1>1, <1>2, LenProperties DEF Number, CallRecords

(* A call throws or returns: it holds the mutex no more.                   *)
LEMMA Thrown ==
    ASSUME WriteTyped, Progress, NEW t \in WriteThreads, Throws(t),
           wpc[t] \in {"lock", "check", "reference", "enter", "c"},
           Number(call[t]) > 0 => Len(call[t].sent) < Number(call[t])
    PROVE  /\ Progress' /\ wpc' \in [WriteThreads -> Stages] /\ To(t, "returned")
           /\ call' \in [WriteThreads -> CallRecords \cup {NoCall}]
           /\ \A u \in WriteThreads : wpc'[u] = "idle" <=> call'[u] = NoCall
           /\ call'[t].sent = call[t].sent
           /\ \A u \in WriteThreads \ {t} : call'[u] = call[u]
<1> DEFINE c == call[t]
           r == [c EXCEPT !.outcome = "exception"]
<1>1. Prefix(c) /\ c \in CallRecords
  BY StageOf
<1>2. call' = [call EXCEPT ![t] = r] /\ To(t, "returned")
  BY DEF Throws
<1>3. call'[t] = r /\ \A u \in WriteThreads \ {t} : call'[u] = call[u]
  BY <1>2 DEF WriteTyped
<1> HIDE DEF c
<1>4. /\ r \in CallRecords /\ r.op = c.op /\ r.n = c.n /\ r.sent = c.sent /\ r.time = c.time
      /\ r.samples = c.samples /\ r.outcome = "exception"
  BY <1>1 DEF CallRecords
<1> HIDE DEF r
<1>5. Prefix(r)
  BY <1>1, <1>4 DEF Prefix, Number, Item
<1>6. At(r, "returned")
  BY <1>4 DEF At, Number, c
<1>7. "returned" \in Stages \ {"idle"}
  BY DEF Stages
<1> QED
  BY <1>2, <1>3, <1>4, <1>5, <1>6, <1>7, OneCall DEF c

(* A call returns: it has published all that was asked.                    *)
LEMMA Ended ==
    ASSUME WriteTyped, Progress, NEW t \in WriteThreads, NEW result \in Results,
           Ends(t, result), wpc[t] # "idle",
           Len(call[t].sent) = Number(call[t]),
           call[t].op # "register_instance"
    PROVE  /\ Progress' /\ wpc' \in [WriteThreads -> Stages] /\ To(t, "returned")
           /\ call' \in [WriteThreads -> CallRecords \cup {NoCall}]
           /\ \A u \in WriteThreads : wpc'[u] = "idle" <=> call'[u] = NoCall
           /\ call'[t].sent = call[t].sent
           /\ \A u \in WriteThreads \ {t} : call'[u] = call[u]
<1> DEFINE c == call[t]
           r == [c EXCEPT !.outcome = "ok", !.result = result]
<1>1. Prefix(c) /\ c \in CallRecords
  BY StageOf
<1>2. call' = [call EXCEPT ![t] = r] /\ To(t, "returned")
  BY DEF Ends
<1>3. call'[t] = r /\ \A u \in WriteThreads \ {t} : call'[u] = call[u]
  BY <1>2 DEF WriteTyped
<1> HIDE DEF c
<1>4. /\ r \in CallRecords /\ r.op = c.op /\ r.n = c.n /\ r.sent = c.sent /\ r.time = c.time
      /\ r.samples = c.samples /\ r.outcome = "ok"
  BY <1>1 DEF CallRecords
<1> HIDE DEF r
<1>5. Prefix(r)
  BY <1>1, <1>4 DEF Prefix, Number, Item
<1>6. At(r, "returned")
  BY <1>4 DEF At, Number, c
<1>7. "returned" \in Stages \ {"idle"}
  BY DEF Stages
<1> QED
  BY <1>2, <1>3, <1>4, <1>5, <1>6, <1>7, OneCall DEF c

(* The mutex of a call that ends goes to nobody; that of another stays.    *)
LEMMA ClosingWhenEnded ==
    ASSUME WriteTyped, Closing, NEW t \in WriteThreads, To(t, "returned"), Unlocks(t),
           UNCHANGED <<writerClosed, cwriter>>
    PROVE  Closing' /\ holder' \in WriteThreads \cup {NoOne}
<1>1. wpc'[t] = "returned" /\ \A u \in WriteThreads \ {t} : wpc'[u] = wpc[u]
  BY DEF To, WriteTyped, Stages
<1>2. holder' = IF holder = t THEN NoOne ELSE holder
  BY DEF Unlocks
<1> QED
  BY <1>1, <1>2 DEF Closing, WriteTyped

(* A stage that is neither in the C library nor of close().                *)
LEMMA ClosingOtherwise ==
    ASSUME WriteTyped, Closing, NEW t \in WriteThreads,
           NEW stage \in Stages \ {"c", "forget", "delete", "drain"}, To(t, stage),
           UNCHANGED <<writerClosed, cwriter>>,
           holder' = holder \/ (holder = NoOne /\ holder' = t)
    PROVE  Closing' /\ holder' \in WriteThreads \cup {NoOne}
<1>1. wpc'[t] = stage /\ \A u \in WriteThreads \ {t} : wpc'[u] = wpc[u]
  BY DEF To, WriteTyped
<1>2. \A u \in WriteThreads : wpc[u] \in {"forget", "delete", "drain"} => holder # NoOne
  BY WriteAssumption DEF Closing
<1> QED
  BY <1>1, <1>2 DEF Closing, WriteTyped

(* The steps of a thread. A call begins.                                   *)
LEMMA KeepsBegin ==
    ASSUME WriteInv, NEW t \in WriteThreads, BeginCall(t)
    PROVE  WriteInv'
<1> USE DEF WriteInv
<1>1. PICK c \in Calls : /\ call' = [call EXCEPT ![t] = c]
                         /\ To(t, IF c.op \in Unlocked THEN "check" ELSE "lock")
  BY DEF BeginCall
<1>2. UNCHANGED <<holder, writerClosed, entity, td, cwriter, loaned>>
  BY DEF BeginCall
<1> DEFINE stage == IF c.op \in Unlocked THEN "check" ELSE "lock"
<1>3. stage \in Stages \ {"idle", "c", "forget", "delete", "drain"}
  BY DEF Stages
<1>4. /\ c = [OfSamples(c.op, c.samples, c.n, c.time) EXCEPT !.onLoan = c.onLoan]
      /\ c.op \in Operations /\ c.time \in Time /\ c.onLoan \in BOOLEAN /\ c.n \in Nat
      /\ c.op \notin Writes => c.n = IF c.op = "close" THEN 0 ELSE 1
      /\ c.samples \in SampleArgs
  BY WriteAssumption DEF Writes, SampleArgs
<1>5. c \in CallRecords /\ c.sent = << >> /\ c.outcome = "none"
  <2>1. << >> \in Seq(Published) /\ Nil \in Results
    BY DEF Results
  <2> QED
    BY <1>4, <2>1 DEF OfSamples, CallRecords
<1>6. Prefix(c) /\ At(c, stage)
  BY <1>4, <1>5, EmptySeq DEF Prefix, At, Number
<1>7. /\ Progress'
      /\ wpc' \in [WriteThreads -> Stages]
      /\ call' \in [WriteThreads -> CallRecords \cup {NoCall}]
      /\ \A u \in WriteThreads : wpc'[u] = "idle" <=> call'[u] = NoCall
  BY <1>1, <1>3, <1>6, OneCall
<1>8. Closing' /\ holder' \in WriteThreads \cup {NoOne}
  BY <1>1, <1>2, <1>3, ClosingOtherwise
<1> QED
  BY <1>2, <1>7, <1>8 DEF WriteTyped

(* A call that throws.                                                     *)
LEMMA KeepsThrow ==
    ASSUME WriteInv, NEW t \in WriteThreads, Throws(t),
           wpc[t] \in {"lock", "check", "reference", "enter", "c"},
           Number(call[t]) > 0 => Len(call[t].sent) < Number(call[t]),
           UNCHANGED <<writerClosed, entity, td, cwriter, loaned>>
    PROVE  WriteInv'
<1>1. /\ Progress' /\ wpc' \in [WriteThreads -> Stages] /\ To(t, "returned")
      /\ call' \in [WriteThreads -> CallRecords \cup {NoCall}]
      /\ \A u \in WriteThreads : wpc'[u] = "idle" <=> call'[u] = NoCall
  BY Thrown DEF WriteInv
<1>2. Closing' /\ holder' \in WriteThreads \cup {NoOne}
  BY <1>1, ClosingWhenEnded DEF WriteInv, Throws
<1> QED
  BY <1>1, <1>2 DEF WriteInv, WriteTyped

(* The constructor of ScopedObjectLock: a closed writer throws.            *)
LEMMA KeepsLock ==
    ASSUME WriteInv, NEW t \in WriteThreads, TakeLock(t)
    PROVE  WriteInv'
<1> USE DEF WriteInv
<1>1. /\ wpc[t] = "lock" /\ holder = NoOne
      /\ UNCHANGED <<writerClosed, entity, td, cwriter, loaned>>
  BY DEF TakeLock
<1>2. Prefix(call[t]) /\ At(call[t], "lock") /\ Number(call[t]) \in Nat
  BY <1>1, StageOf
<1>3. call[t].sent = << >> /\ call[t].outcome = "none" /\ call[t].op \notin Unlocked
      /\ Len(call[t].sent) = 0
  BY <1>2, EmptySeq DEF At
<1>4. CASE writerClosed
  BY <1>1, <1>3, <1>4, KeepsThrow DEF TakeLock
<1>5. CASE ~writerClosed
  <2> DEFINE stage == IF call[t].op = "close" THEN "forget" ELSE "enter"
  <2>1. holder' = t /\ To(t, stage) /\ UNCHANGED call
    BY <1>5 DEF TakeLock
  <2>2. stage \in Stages \ {"idle"}
    BY DEF Stages
  <2>3. call[t].op \notin Tells \cup {"close"} => Number(call[t]) = 1
    BY <1>2, <1>3 DEF Number, Prefix, Writes, Unlocked
  <2>4. At(call[t], stage)
    BY <1>3, <2>3 DEF At
  <2>5. /\ Progress'
        /\ wpc' \in [WriteThreads -> Stages]
        /\ call' \in [WriteThreads -> CallRecords \cup {NoCall}]
        /\ \A u \in WriteThreads : wpc'[u] = "idle" <=> call'[u] = NoCall
    BY <1>1, <2>1, <2>2, <2>4, SameCall
  <2>6. wpc'[t] = stage /\ \A u \in WriteThreads \ {t} : wpc'[u] = wpc[u]
    BY <2>1 DEF To, WriteTyped
  <2>7. \A u \in WriteThreads : wpc[u] \notin {"forget", "delete", "drain"}
    BY <1>1, WriteAssumption DEF Closing
  <2>8. Closing'
    BY <1>1, <1>5, <2>1, <2>6, <2>7 DEF Closing
  <2> QED
    BY <1>1, <2>1, <2>5, <2>8 DEF WriteTyped
<1> QED
  BY <1>4, <1>5

(* The head of the loop over a range.                                      *)
LEMMA KeepsCheck ==
    ASSUME WriteInv, NEW t \in WriteThreads, CheckOpen(t)
    PROVE  WriteInv'
<1> USE DEF WriteInv
<1> DEFINE c == call[t]
<1>1. wpc[t] = "check" /\ UNCHANGED <<writerClosed, entity, td, cwriter, loaned>>
  BY DEF CheckOpen
<1>2. /\ Prefix(c) /\ At(c, "check") /\ Number(c) \in Nat /\ Len(c.sent) \in Nat
      /\ c \in CallRecords
  BY <1>1, StageOf
<1>3. /\ c.outcome = "none" /\ c.op \in Unlocked /\ c.op # "close"
      /\ c.op \notin Writes => c.sent = << >> /\ c.n = 1 /\ Len(c.sent) = 0
      /\ Number(c) = IF c.op \in Tells THEN 0 ELSE c.n
      /\ Len(c.sent) <= Number(c)
  BY <1>2, EmptySeq DEF At, Prefix, Number, Unlocked, Cdr, Loans
<1>4. CASE Len(c.sent) = c.n
  <2>1. c.op \in Writes
    BY <1>3, <1>4
  <2>2. Len(c.sent) = Number(c) /\ c.op # "register_instance"
    BY <1>3, <1>4, <2>1 DEF Writes, Tells, Loans
  <2>3. Ends(t, Nil) /\ Nil \in Results
    BY <1>1, <1>4 DEF CheckOpen, Results
  <2>4. /\ Progress' /\ wpc' \in [WriteThreads -> Stages] /\ To(t, "returned")
        /\ call' \in [WriteThreads -> CallRecords \cup {NoCall}]
        /\ \A u \in WriteThreads : wpc'[u] = "idle" <=> call'[u] = NoCall
    BY <1>1, <2>2, <2>3, Ended
  <2>5. Closing' /\ holder' \in WriteThreads \cup {NoOne}
    BY <1>1, <2>3, <2>4, ClosingWhenEnded DEF Ends
  <2> QED
    BY <1>1, <2>4, <2>5 DEF WriteTyped
<1>5. CASE Len(c.sent) # c.n
  <2>1. c.op \notin Tells => Len(c.sent) < Number(c)
    BY <1>2, <1>3, <1>5
  <2>2. CASE writerClosed
    <3>1. Number(c) > 0 => Len(c.sent) < Number(c)
      BY <1>3, <2>1
    <3> QED
      BY <1>1, <1>5, <2>2, <3>1, KeepsThrow DEF CheckOpen
  <2>3. CASE ~writerClosed
    <3> DEFINE stage == IF c.op \in Cdr THEN "reference" ELSE "enter"
    <3>1. To(t, stage) /\ UNCHANGED <<call, holder>>
      BY <1>5, <2>3 DEF CheckOpen
    <3>2. At(c, stage) /\ stage \in Stages \ {"idle", "c", "forget", "delete", "drain"}
      BY <1>3, <2>1 DEF At, Stages
    <3>3. /\ Progress'
          /\ wpc' \in [WriteThreads -> Stages]
          /\ call' \in [WriteThreads -> CallRecords \cup {NoCall}]
          /\ \A u \in WriteThreads : wpc'[u] = "idle" <=> call'[u] = NoCall
      BY <1>1, <3>1, <3>2, SameCall
    <3>4. Closing' /\ holder' \in WriteThreads \cup {NoOne}
      BY <1>1, <3>1, <3>2, ClosingOtherwise
    <3> QED
      BY <1>1, <3>1, <3>3, <3>4 DEF WriteTyped
  <2> QED
    BY <2>2, <2>3
<1> QED
  BY <1>4, <1>5

(* The two uses of td_.                                                    *)
LEMMA KeepsReference ==
    ASSUME WriteInv, NEW t \in WriteThreads, CheckReference(t) \/ UseReference(t)
    PROVE  WriteInv'
<1> USE DEF WriteInv
<1>1. /\ wpc[t] \in {"reference", "use"}
      /\ UNCHANGED <<writerClosed, entity, td, cwriter, loaned>>
  BY DEF CheckReference, UseReference
<1>2. Prefix(call[t]) /\ At(call[t], wpc[t]) /\ Number(call[t]) \in Nat
  BY <1>1, StageOf
<1>3. Number(call[t]) > 0 => Len(call[t].sent) < Number(call[t])
  BY <1>1, <1>2 DEF At, Number
<1>4. CASE CheckReference(t) /\ ~td
  BY <1>1, <1>3, <1>4, KeepsThrow DEF CheckReference
<1>5. CASE UseReference(t) \/ td
  <2>1. PICK stage \in {"use", "enter", "crashed"} : To(t, stage) /\ UNCHANGED <<call, holder>>
    BY <1>5 DEF CheckReference, UseReference
  <2>2. At(call[t], stage)
    BY <1>1, <1>2, <2>1 DEF At
  <2>3. stage \in Stages \ {"idle", "c", "forget", "delete", "drain"}
    BY <2>1 DEF Stages
  <2>4. /\ Progress'
        /\ wpc' \in [WriteThreads -> Stages]
        /\ call' \in [WriteThreads -> CallRecords \cup {NoCall}]
        /\ \A u \in WriteThreads : wpc'[u] = "idle" <=> call'[u] = NoCall
    BY <1>1, <2>1, <2>2, <2>3, SameCall
  <2>5. Closing' /\ holder' \in WriteThreads \cup {NoOne}
    BY <1>1, <2>1, <2>3, ClosingOtherwise
  <2> QED
    BY <1>1, <2>1, <2>4, <2>5 DEF WriteTyped
<1> QED
  BY <1>4, <1>5

(* The tests before the C library.                                         *)
LEMMA KeepsEnter ==
    ASSUME WriteInv, NEW t \in WriteThreads, EnterC(t)
    PROVE  WriteInv'
<1> USE DEF WriteInv
<1>1. wpc[t] = "enter" /\ UNCHANGED <<writerClosed, entity, td, cwriter, loaned>>
  BY DEF EnterC
<1>2. Prefix(call[t]) /\ At(call[t], "enter") /\ Number(call[t]) \in Nat
  BY <1>1, StageOf
<1>3. Number(call[t]) > 0 => Len(call[t].sent) < Number(call[t])
  BY <1>2 DEF At, Number
<1>4. CASE Misused(call[t]) \/ ~entity \/ cwriter # "open"
  BY <1>1, <1>3, <1>4, KeepsThrow DEF EnterC
<1>5. CASE ~(Misused(call[t]) \/ ~entity \/ cwriter # "open")
  <2>1. To(t, "c") /\ UNCHANGED <<call, holder>> /\ cwriter = "open"
    BY <1>5 DEF EnterC
  <2>2. At(call[t], "c") /\ "c" \in Stages \ {"idle"}
    BY <1>2 DEF At, Stages
  <2>3. /\ Progress'
        /\ wpc' \in [WriteThreads -> Stages]
        /\ call' \in [WriteThreads -> CallRecords \cup {NoCall}]
        /\ \A u \in WriteThreads : wpc'[u] = "idle" <=> call'[u] = NoCall
    BY <1>1, <2>1, <2>2, SameCall
  <2>4. wpc'[t] = "c" /\ \A u \in WriteThreads \ {t} : wpc'[u] = wpc[u]
    BY <2>1 DEF To, WriteTyped
  <2>5. Closing'
    BY <1>1, <2>1, <2>4 DEF Closing
  <2> QED
    BY <1>1, <2>1, <2>3, <2>5 DEF WriteTyped
<1> QED
  BY <1>4, <1>5

(* What is published next is the item that was asked for next.             *)
LEMMA NextItem ==
    ASSUME NEW c \in CallRecords, Len(c.sent) \in Nat
    PROVE  Publication(c) = Item(c, Len(c.sent) + 1) /\ Publication(c) \in Published
<1>1. Publication(c) = Item(c, Len(c.sent) + 1)
  BY DEF Publication, Item, CallRecords, Time
<1>2. Item(c, Len(c.sent) + 1) \in Published
  BY DEF Item, Published, CallRecords
<1> QED
  BY <1>1, <1>2

(* A sample of a range is published.                                       *)
LEMMA KeepsPublishes ==
    ASSUME WriteInv, NEW t \in WriteThreads, wpc[t] = "c", Publishes(t),
           UNCHANGED <<writerClosed, entity, td, cwriter>>
    PROVE  WriteInv'
<1> USE DEF WriteInv
<1> DEFINE c == call[t]
           s == Append(c.sent, Publication(c))
           r == [c EXCEPT !.sent = s]
<1>1. /\ Prefix(c) /\ At(c, "c") /\ Number(c) \in Nat /\ Len(c.sent) \in Nat
      /\ c \in CallRecords /\ c.sent \in Seq(Published)
  BY StageOf
<1>2. /\ c.op \in Writes /\ To(t, "check") /\ UNCHANGED holder
      /\ call' = [call EXCEPT ![t] = r]
      /\ loaned' \subseteq WriteThreads
  BY DEF Publishes, Writes, WriteTyped
<1> HIDE DEF c
<1>3. Len(c.sent) < Number(c) /\ c.outcome = "none"
  BY <1>1, <1>2 DEF At, Writes, Tells, Loans
<1>4. /\ s \in Seq(Published) /\ Len(s) = Len(c.sent) + 1
      /\ \A i \in 1 .. Len(c.sent) : s[i] = c.sent[i]
      /\ s[Len(c.sent) + 1] = Item(c, Len(c.sent) + 1)
  BY <1>1, NextItem, AppendProperties
<1> HIDE DEF s
<1>5. /\ r \in CallRecords /\ r.op = c.op /\ r.n = c.n /\ r.sent = s /\ r.time = c.time
      /\ r.samples = c.samples /\ r.outcome = "none"
  BY <1>1, <1>3, <1>4 DEF CallRecords
<1> HIDE DEF r
<1>6. \A i \in 1 .. Len(s) : s[i] = Item(c, i)
  <2> SUFFICES ASSUME NEW i \in 1 .. Len(s)
               PROVE  s[i] = Item(c, i)
    OBVIOUS
  <2>1. CASE i = Len(c.sent) + 1
    BY <1>4, <2>1
  <2>2. CASE i # Len(c.sent) + 1
    <3>1. i \in 1 .. Len(c.sent)
      BY <1>1, <1>4, <2>2
    <3> QED
      BY <1>1, <1>4, <3>1 DEF Prefix
  <2> QED
    BY <2>1, <2>2
<1>7. Prefix(r)
  BY <1>1, <1>2, <1>3, <1>4, <1>5, <1>6 DEF Prefix, Number, Item
<1>8. At(r, "check") /\ "check" \in Stages \ {"idle", "c", "forget", "delete", "drain"}
  BY <1>2, <1>5 DEF At, Stages, Writes, Unlocked
<1>9. /\ Progress'
      /\ wpc' \in [WriteThreads -> Stages]
      /\ call' \in [WriteThreads -> CallRecords \cup {NoCall}]
      /\ \A u \in WriteThreads : wpc'[u] = "idle" <=> call'[u] = NoCall
  BY <1>2, <1>7, <1>8, OneCall
<1>10. Closing' /\ holder' \in WriteThreads \cup {NoOne}
  BY <1>2, <1>8, ClosingOtherwise
<1> QED
  BY <1>2, <1>9, <1>10 DEF WriteTyped

(* What is not a range is published at once.                               *)
LEMMA KeepsPublishesOne ==
    ASSUME WriteInv, NEW t \in WriteThreads, wpc[t] = "c", PublishesOne(t),
           UNCHANGED <<writerClosed, entity, td, cwriter>>
    PROVE  WriteInv'
<1> USE DEF WriteInv
<1> DEFINE c == call[t]
           s == <<Publication(c)>>
           result == IF c.op = "register_instance" THEN c.samples[1] ELSE Nil
           r == [c EXCEPT !.sent = s, !.outcome = "ok", !.result = result]
<1>1. /\ Prefix(c) /\ At(c, "c") /\ c \in CallRecords /\ c.sent \in Seq(Published)
  BY StageOf
<1>2. /\ c.op \notin Writes \cup Tells /\ To(t, "returned") /\ Unlocks(t) /\ UNCHANGED loaned
      /\ call' = [call EXCEPT ![t] = r]
  BY DEF PublishesOne, Writes
<1> HIDE DEF c
<1>3. c.sent = << >> /\ Len(c.sent) = 0 /\ c.op # "close" /\ c.n = 1 /\ Number(c) = 1
  BY <1>1, <1>2, EmptySeq DEF At, Prefix, Number
<1>4. /\ Publication(c) = Item(c, 1) /\ Publication(c) \in Published
  BY <1>1, <1>3, NextItem
<1>5. s \in Seq(Published) /\ Len(s) = 1 /\ s[1] = Item(c, 1) /\ result \in Results
  BY <1>1, <1>4 DEF CallRecords, Results
<1> HIDE DEF s, result
<1>6. /\ r \in CallRecords /\ r.op = c.op /\ r.n = c.n /\ r.sent = s /\ r.time = c.time
      /\ r.samples = c.samples /\ r.outcome = "ok" /\ r.result = result
  BY <1>1, <1>5 DEF CallRecords
<1> HIDE DEF r
<1>7. Prefix(r)
  <2>1. \A i \in 1 .. Len(s) : i = 1 /\ s[i] = Item(r, i)
    BY <1>5, <1>6 DEF Item
  <2>2. Number(r) = 1 /\ r.op # "close" /\ r.n = 1
    BY <1>3, <1>6 DEF Number
  <2>3. r.sent = s /\ Len(s) <= Number(r)
    BY <1>5, <1>6, <2>2
  <2>4. \A i \in 1 .. Len(r.sent) : r.sent[i] = Item(r, i)
    BY <2>1, <2>3, Zenon
  <2> QED
    BY <1>6, <2>2, <2>3, <2>4 DEF Prefix
<1>8. At(r, "returned") /\ "returned" \in Stages \ {"idle"}
  BY <1>3, <1>5, <1>6 DEF At, Stages, Number, result
<1>9. /\ Progress'
      /\ wpc' \in [WriteThreads -> Stages]
      /\ call' \in [WriteThreads -> CallRecords \cup {NoCall}]
      /\ \A u \in WriteThreads : wpc'[u] = "idle" <=> call'[u] = NoCall
  BY <1>2, <1>7, <1>8, OneCall
<1>10. Closing' /\ holder' \in WriteThreads \cup {NoOne}
  BY <1>2, ClosingWhenEnded
<1> QED
  BY <1>2, <1>9, <1>10 DEF WriteTyped

(* A call that publishes nothing returns.                                  *)
LEMMA KeepsTell ==
    ASSUME WriteInv, NEW t \in WriteThreads, wpc[t] = "c", Tell(t),
           UNCHANGED <<writerClosed, entity, td, cwriter>>
    PROVE  WriteInv'
<1> USE DEF WriteInv
<1>1. /\ Prefix(call[t]) /\ At(call[t], "c") /\ call[t] \in CallRecords
      /\ Len(call[t].sent) \in Nat
  BY StageOf
<1>2. call[t].op \in Tells /\ loaned' \subseteq WriteThreads
  BY DEF Tell, WriteTyped
<1>3. PICK result \in {call[t].samples[1], Nil} : Ends(t, result)
  BY DEF Tell
<1>4. result \in Results
  BY <1>1, <1>3 DEF Results, CallRecords
<1>5. Len(call[t].sent) = Number(call[t]) /\ call[t].op # "register_instance"
  BY <1>1, <1>2 DEF Prefix, Number, Tells, Loans
<1>6. /\ Progress' /\ wpc' \in [WriteThreads -> Stages] /\ To(t, "returned")
      /\ call' \in [WriteThreads -> CallRecords \cup {NoCall}]
      /\ \A u \in WriteThreads : wpc'[u] = "idle" <=> call'[u] = NoCall
  BY <1>3, <1>4, <1>5, Ended
<1>7. Closing' /\ holder' \in WriteThreads \cup {NoOne}
  BY <1>3, <1>6, ClosingWhenEnded DEF Ends
<1> QED
  BY <1>2, <1>6, <1>7 DEF WriteTyped

(* The stages of close(), in the thread that holds the mutex.              *)
LEMMA KeepsClose ==
    ASSUME WriteInv, NEW t \in WriteThreads, Forget(t) \/ Delete(t)
    PROVE  WriteInv'
<1> USE DEF WriteInv
<1>1. PICK stage \in {"delete", "drain"} :
        /\ wpc[t] \in {"forget", "delete"} /\ To(t, stage)
        /\ UNCHANGED <<call, holder, writerClosed, entity, loaned>>
        /\ td' \in BOOLEAN /\ cwriter' \in {cwriter, "closing"}
  BY DEF Forget, Delete, WriteTyped
<1>2. At(call[t], wpc[t])
  BY <1>1, StageOf
<1>3. At(call[t], stage) /\ stage \in Stages \ {"idle"}
  BY <1>1, <1>2 DEF At, Stages
<1>4. /\ Progress'
      /\ wpc' \in [WriteThreads -> Stages]
      /\ call' \in [WriteThreads -> CallRecords \cup {NoCall}]
      /\ \A u \in WriteThreads : wpc'[u] = "idle" <=> call'[u] = NoCall
  BY <1>1, <1>3, SameCall
<1>5. wpc'[t] = stage /\ \A u \in WriteThreads \ {t} : wpc'[u] = wpc[u]
  BY <1>1 DEF To, WriteTyped
<1>6. Closing'
  BY <1>1, <1>5 DEF Closing
<1> QED
  BY <1>1, <1>4, <1>6 DEF WriteTyped

(* dds_delete has waited for the calls in the C library.                   *)
LEMMA KeepsDrained ==
    ASSUME WriteInv, NEW t \in WriteThreads, Drained(t)
    PROVE  WriteInv'
<1> USE DEF WriteInv
<1>1. /\ wpc[t] = "drain" /\ \A u \in WriteThreads : wpc[u] # "c"
      /\ cwriter' = "deleted" /\ loaned' = {} /\ entity' = FALSE /\ writerClosed' = TRUE
      /\ Ends(t, Nil) /\ UNCHANGED td
  BY DEF Drained
<1>2. Prefix(call[t]) /\ At(call[t], "drain") /\ call[t].op = "close"
  BY <1>1, StageOf DEF At
<1>3. Len(call[t].sent) = Number(call[t]) /\ call[t].op # "register_instance" /\ Nil \in Results
  BY <1>2, EmptySeq DEF At, Number, Writes, Results
<1>4. /\ Progress' /\ wpc' \in [WriteThreads -> Stages] /\ To(t, "returned")
      /\ call' \in [WriteThreads -> CallRecords \cup {NoCall}]
      /\ \A u \in WriteThreads : wpc'[u] = "idle" <=> call'[u] = NoCall
  BY <1>1, <1>3, Ended
<1>5. wpc'[t] = "returned" /\ \A u \in WriteThreads \ {t} : wpc'[u] = wpc[u]
  BY <1>4 DEF To, WriteTyped
<1>6. holder = t /\ holder' = NoOne
  BY <1>1 DEF Closing, Ends, Unlocks
<1>7. \A u \in WriteThreads : wpc'[u] \notin {"forget", "delete", "drain", "c"}
  BY <1>1, <1>5, <1>6 DEF Closing
<1>8. Closing'
  BY <1>1, <1>7 DEF Closing
<1> QED
  BY <1>1, <1>4, <1>6, <1>8 DEF WriteTyped

(* The application has the result.                                         *)
LEMMA KeepsEnd ==
    ASSUME WriteInv, NEW t \in WriteThreads, EndCall(t)
    PROVE  WriteInv'
<1> USE DEF WriteInv
<1>1. /\ To(t, "idle") /\ call' = [call EXCEPT ![t] = NoCall]
      /\ UNCHANGED <<holder, writerClosed, entity, td, cwriter, loaned>>
  BY DEF EndCall
<1>2. /\ wpc'[t] = "idle" /\ call'[t] = NoCall
      /\ \A u \in WriteThreads \ {t} : wpc'[u] = wpc[u] /\ call'[u] = call[u]
  BY <1>1 DEF To, WriteTyped
<1>3. Progress'
  BY <1>2 DEF Progress
<1>4. WriteTyped'
  <2>1. wpc' \in [WriteThreads -> Stages]
    BY <1>1 DEF To, WriteTyped, Stages
  <2>2. call' \in [WriteThreads -> CallRecords \cup {NoCall}]
    BY <1>1 DEF WriteTyped
  <2> QED
    BY <1>1, <1>2, <2>1, <2>2 DEF WriteTyped
<1>5. Closing'
  BY <1>1, <1>2 DEF Closing
<1> QED
  BY <1>3, <1>4, <1>5

(* The invariant holds at first ...                                        *)
LEMMA WriteInvInit == WriteInit => WriteInv
<1> SUFFICES ASSUME WriteInit
             PROVE  WriteInv
  OBVIOUS
<1> USE DEF WriteInit
<1>1. WriteTyped
  BY DEF WriteTyped, Stages
<1>2. Progress /\ Closing
  BY DEF Progress, Closing
<1> QED
  BY <1>1, <1>2 DEF WriteInv

(* ... every step of a thread keeps it ...                                 *)
LEMMA WriteInvStep ==
    ASSUME WriteInv, NEW t \in WriteThreads, BeginCall(t) \/ Continue(t)
    PROVE  WriteInv'
<1>1. CASE BeginCall(t)
  BY <1>1, KeepsBegin
<1>2. CASE TakeLock(t)
  BY <1>2, KeepsLock
<1>3. CASE CheckOpen(t)
  BY <1>3, KeepsCheck
<1>4. CASE EnterC(t)
  BY <1>4, KeepsEnter
<1>5. CASE Act(t)
  BY <1>5, KeepsPublishes, KeepsPublishesOne, KeepsTell DEF Act
<1>6. CASE Refused(t)
  <2>1. /\ wpc[t] = "c" /\ Throws(t)
        /\ UNCHANGED <<writerClosed, entity, td, cwriter, loaned>>
    BY <1>6 DEF Refused
  <2>2. At(call[t], "c")
    BY <2>1, StageOf DEF WriteInv
  <2>3. Number(call[t]) > 0 => Len(call[t].sent) < Number(call[t])
    BY <2>2 DEF At, Number
  <2> QED
    BY <2>1, <2>3, KeepsThrow
<1>7. CASE Forget(t) \/ Delete(t)
  BY <1>7, KeepsClose
<1>8. CASE Drained(t)
  BY <1>8, KeepsDrained
<1>9. CASE EndCall(t)
  BY <1>9, KeepsEnd
<1>10. CASE CheckReference(t) \/ UseReference(t)
  BY <1>10, KeepsReference
<1> QED
  BY <1>1, <1>2, <1>3, <1>4, <1>5, <1>6, <1>7, <1>8, <1>9, <1>10 DEF Continue

(* ... and so does every step of the writer.                               *)
LEMMA WriteInvNext == WriteInv /\ [WriteNext]_writeVars => WriteInv'
<1>1. ASSUME WriteInv, WriteNext
      PROVE  WriteInv'
  BY <1>1, WriteInvStep DEF WriteNext
<1>2. ASSUME WriteInv, UNCHANGED writeVars
      PROVE  WriteInv'
  BY <1>2 DEF WriteInv, WriteTyped, Progress, Closing, writeVars
<1> QED
  BY <1>1, <1>2

(* The inductive invariant of the calls of a DataWriter.                   *)
THEOREM WriteInvariant == WriteSpec => []WriteInv
  BY WriteInvInit, WriteInvNext, PTL DEF WriteSpec

(* Where the writer has not crashed, a step keeps the reasons for crashes: *)
(* td_ is forgotten by the thread that closes, which ends by closed.       *)
LEMMA ReasonsStay ==
    ASSUME WriteInv, Reasons, ~Crashed, NEW t \in WriteThreads, BeginCall(t) \/ Continue(t)
    PROVE  Reasons'
<1>1. \A u \in WriteThreads \ {t} : wpc'[u] = wpc[u]
  BY DEF BeginCall, Continue, TakeLock, CheckOpen, CheckReference, UseReference, EnterC, Act,
         Publishes, PublishesOne, Tell, Refused, Forget, Delete, Drained, EndCall, Throws, Ends, To,
         WriteInv, WriteTyped
<1>2. \A u \in WriteThreads : wpc[u] # "crashed"
  BY DEF Crashed
<1>3. wpc \in [WriteThreads -> Stages] /\ td \in BOOLEAN /\ writerClosed \in BOOLEAN
  BY DEF WriteInv, WriteTyped
<1>4. CASE UseReference(t)
  <2>1. /\ wpc' = [wpc EXCEPT ![t] = IF td /\ call[t].samples[1] \notin Unreadable
                                    THEN "enter" ELSE "crashed"]
        /\ wpc[t] = "use" /\ UNCHANGED <<call, td, writerClosed>>
    BY <1>4 DEF UseReference, To
  <2>2. ~td => writerClosed' \/ \E u \in WriteThreads : wpc'[u] \in {"delete", "drain"}
    BY <1>1, <2>1 DEF Reasons
  <2>3. \A u \in WriteThreads :
           wpc'[u] = "crashed" => u = t /\ (call'[u].samples[1] \in Unreadable \/ ~td')
    BY <1>1, <1>2, <1>3, <2>1
  <2> QED
    BY <2>1, <2>2, <2>3 DEF Reasons
<1>5. CASE ~UseReference(t)
  <2>1. wpc'[t] # "crashed"
    BY <1>3, <1>5
       DEF BeginCall, Continue, TakeLock, CheckOpen, CheckReference, EnterC, Act, Publishes,
           PublishesOne, Tell, Refused, Forget, Delete, Drained, EndCall, Throws, Ends, To
  <2>2. \A u \in WriteThreads : wpc'[u] # "crashed"
    BY <1>1, <1>2, <2>1
  <2>3. CASE Forget(t)
    <3>1. wpc'[t] = "delete"
      BY <1>3, <2>3 DEF Forget, To
    <3> QED
      BY <2>2, <3>1 DEF Reasons
  <2>4. CASE Delete(t)
    <3>1. wpc'[t] = "drain"
      BY <1>3, <2>4 DEF Delete, To
    <3> QED
      BY <2>2, <3>1 DEF Reasons
  <2>5. CASE Drained(t)
    BY <2>2, <2>5 DEF Drained, Reasons
  <2>6. CASE ~(Forget(t) \/ Delete(t) \/ Drained(t))
    <3>1. wpc[t] \notin {"delete", "drain"} /\ UNCHANGED <<td, writerClosed>>
      BY <1>5, <2>6
         DEF BeginCall, Continue, TakeLock, CheckOpen, CheckReference, EnterC, Act, Refused, EndCall
    <3> QED
      BY <1>1, <2>2, <3>1 DEF Reasons
  <2> QED
    BY <2>3, <2>4, <2>5, <2>6
<1> QED
  BY <1>4, <1>5

LEMMA ReasonsNext == WriteInv /\ Reasons /\ [WriteNext]_writeVars => Reasons'
<1>1. ASSUME WriteInv, Reasons, WriteNext
      PROVE  Reasons'
  BY <1>1, ReasonsStay DEF WriteNext, Continue
<1>2. ASSUME Reasons, UNCHANGED writeVars
      PROVE  Reasons'
  BY <1>2 DEF Reasons, writeVars
<1> QED
  BY <1>1, <1>2

(* A crash is explained: the thread that forgot td_ is in close() or it has*)
(* closed the writer.                                                      *)
LEMMA ReasonsExplain ==
    ASSUME WriteInv, Reasons
    PROVE  CrashesAreExplained
<1> SUFFICES ASSUME NEW t \in WriteThreads, wpc[t] = "crashed"
             PROVE  /\ call[t].op \in Cdr /\ call[t].sent = << >>
                    /\ \/ call[t].samples[1] \in Unreadable
                       \/ writerClosed
                       \/ \E u \in WriteThreads : call[u].op = "close" /\ holder = u
  BY DEF CrashesAreExplained
<1>1. Prefix(call[t]) /\ At(call[t], "crashed")
  BY DEF WriteInv, Progress
<1>2. call[t].op \in Cdr /\ call[t].sent = << >>
  BY <1>1 DEF At, Cdr, Writes
<1>3. ASSUME NEW u \in WriteThreads, wpc[u] \in {"delete", "drain"}
      PROVE  call[u].op = "close" /\ holder = u
  <2>1. At(call[u], wpc[u])
    BY <1>3 DEF WriteInv, Progress
  <2> QED
    BY <1>3, <2>1 DEF At, WriteInv, Closing
<1> QED
  BY <1>2, <1>3 DEF Reasons

(* A step publishes for the one thread that is in the C library.           *)
LEMMA OnlyOneIsHeard ==
    ASSUME WriteInv, [WriteNext]_writeVars, NEW t \in WriteThreads,
           wpc[t] # "idle", wpc'[t] # "idle", call'[t].sent # call[t].sent
    PROVE  wpc[t] = "c"
<1>1. CASE UNCHANGED writeVars
  BY <1>1 DEF writeVars
<1>2. CASE WriteNext
  <2>1. PICK u \in WriteThreads : BeginCall(u) \/ Continue(u)
    BY <1>2 DEF WriteNext
  <2> SUFFICES ASSUME wpc[t] # "c"
               PROVE  FALSE
    OBVIOUS
  <2>2. call \in [WriteThreads -> CallRecords \cup {NoCall}] /\ call[t] \in CallRecords
    BY StageOf DEF WriteInv, WriteTyped
  <2>3. u # t => call'[t] = call[t]
    BY <2>1, <2>2
       DEF BeginCall, Continue, TakeLock, CheckOpen, CheckReference, UseReference, EnterC, Act, Publishes,
           PublishesOne, Tell, Refused, Forget, Delete, Drained, EndCall, Throws, Ends
  <2>4. u = t
    BY <2>3
  <2>5. CASE BeginCall(t)
    BY <2>5 DEF BeginCall
  <2>6. CASE EndCall(t)
    BY <2>6 DEF EndCall, To, WriteInv, WriteTyped
  <2>7. CASE UNCHANGED call
    BY <2>7
  <2>8. CASE Throws(t) \/ Ends(t, Nil)
    <3>1. \/ call' = [call EXCEPT ![t] = [call[t] EXCEPT !.outcome = "exception"]]
          \/ call' = [call EXCEPT ![t] = [call[t] EXCEPT !.outcome = "ok", !.result = Nil]]
      BY <2>8 DEF Throws, Ends
    <3> DEFINE r == call[t]
    <3>2. \/ call'[t] = [r EXCEPT !.outcome = "exception"]
          \/ call'[t] = [r EXCEPT !.outcome = "ok", !.result = Nil]
      BY <2>2, <3>1
    <3>3. r \in CallRecords
      BY <2>2
    <3> HIDE DEF r
    <3>4. call'[t].sent = r.sent
      BY <3>2, <3>3 DEF CallRecords
    <3> QED
      BY <3>4 DEF r
  <2> QED
    BY <2>1, <2>4, <2>5, <2>6, <2>7, <2>8
       DEF Continue, TakeLock, CheckOpen, CheckReference, UseReference, EnterC, Act, Refused, Forget,
           Delete, Drained
<1> QED
  BY <1>1, <1>2

(* A call that returns has published all that was asked, in order and with *)
(* the time that was given; one that throws a part of it. And when close() *)
(* has returned nothing is published, though the operations that write     *)
(* take no lock and have tested the writer before. What crashes is a call  *)
(* that writes serialized data, for one of two reasons.                    *)
THEOREM WritesAreWhatIsAsked == WriteSpec => PublishesWhatIsAsked
<1>1. WriteInv => PublishedAsAsked
  BY ProgressIsEnough
<1>3. WriteInit => Reasons
  BY DEF WriteInit, Reasons
<1>4. WriteInv /\ Reasons => CrashesAreExplained
  BY ReasonsExplain
<1>2. WriteInv /\ [WriteNext]_writeVars =>
          [\A t \in WriteThreads :
              (wpc[t] # "idle" /\ wpc'[t] # "idle" /\ call'[t].sent # call[t].sent)
              => ~writerClosed]_writeVars
  <2> SUFFICES ASSUME WriteInv, [WriteNext]_writeVars, NEW t \in WriteThreads,
                      wpc[t] # "idle", wpc'[t] # "idle", call'[t].sent # call[t].sent
               PROVE  ~writerClosed
    OBVIOUS
  <2>1. wpc[t] = "c"
    BY OnlyOneIsHeard
  <2> QED
    BY <2>1 DEF WriteInv, Closing
<1> QED
  BY <1>1, <1>2, <1>3, <1>4, ReasonsNext, WriteInvariant, PTL
     DEF WriteSpec, PublishesWhatIsAsked, NothingAfterClose

(* Every variable has its type, and a thread is idle when it has no call.  *)
THEOREM WriteTypeCorrect == WriteSpec => []WriteTypeOK
<1>1. WriteInv => WriteTypeOK
  BY DEF WriteInv, WriteTyped, WriteTypeOK, Stages
<1> QED
  BY <1>1, WriteInvariant, PTL

-----------------------------------------------------------------------------
(* The data of matched endpoints (BuiltinData).                            *)

(* What fills an object, and what has to free its endpoint.                *)
DataObjects ==
    [values : [Members -> {"default", "a", "b"}], from : {"nobody"} \cup Discovered,
     endpoint : Endpoints \cup {NoEndpoint, Wild}]

There(h) == data[h] # NoData
Owned == {data[h].endpoint : h \in {k \in DataHandles : There(k)}} \ {NoEndpoint}

DataTyped ==
    /\ dataClass \in DOMAIN DataClasses
    /\ data \in [DataHandles -> DataObjects \cup {NoData}]
    /\ allocated \subseteq Endpoints
    /\ fault \in BOOLEAN /\ careful \in BOOLEAN

(* An object that somebody's endpoint filled has what is copied from it.   *)
CopiedFrom == [m \in Discovered |-> CopiedValues(m)]

FilledByCopy ==
    \A h \in DataHandles : There(h) =>
        IF DataClasses[dataClass].keepsEndpoint
        THEN data[h].from # "nobody" => data[h].values = CopiedFrom[data[h].from]
        ELSE data[h].from = "nobody" /\ data[h].endpoint = NoEndpoint

(* A pointer that was never written is in no object of a careful           *)
(* application, so that what its destructor frees was allocated.           *)
EachOwnsItsEndpoint ==
    careful => /\ ~fault
               /\ allocated = Owned
               /\ \A h \in DataHandles : There(h) => data[h].endpoint # Wild
               /\ \A h, k \in DataHandles :
                      (h # k /\ There(h) /\ There(k) /\ data[h].endpoint = data[k].endpoint)
                      => data[h].endpoint = NoEndpoint

DataInv == DataTyped /\ FilledByCopy /\ EachOwnsItsEndpoint

(* No object is NoData: they have other members.                           *)
LEMMA ObjectsAreThere == ASSUME NEW x \in DataObjects PROVE x # NoData
<1>1. "from" \in DOMAIN x /\ "from" \notin DOMAIN NoData
  BY DEF DataObjects, NoData
<1> QED
  BY <1>1

(* The classes that keep an endpoint are the data of writers and readers;  *)
(* all that they have is copied from it, but for a durability service.     *)
LEMMA PublicationClass ==
    ASSUME dataClass = "Publication"
    PROVE  /\ Members = PublicationMembers
           /\ DataClasses[dataClass].copied = PublicationMembers \ {"durability_service"}
           /\ DataClasses[dataClass].compared = PublicationMembers \ {"presentation", "partition"}
           /\ DataClasses[dataClass].keepsEndpoint
<1>1. DataClasses[dataClass] = PublicationBuiltinTopicData
  BY DEF DataClasses
<1> QED
  BY <1>1 DEF Members, PublicationBuiltinTopicData, DataClass, PublicationCopied,
              PublicationCompared

LEMMA SubscriptionClass ==
    ASSUME dataClass = "Subscription"
    PROVE  /\ Members = SubscriptionMembers
           /\ DataClasses[dataClass].copied = SubscriptionMembers
           /\ DataClasses[dataClass].compared = SubscriptionMembers
           /\ DataClasses[dataClass].keepsEndpoint
<1>1. DataClasses[dataClass] = SubscriptionBuiltinTopicData
  BY DEF DataClasses
<1> QED
  BY <1>1 DEF Members, SubscriptionBuiltinTopicData, DataClass, SubscriptionCopied,
              SubscriptionCompared

LEMMA KeepingClasses ==
    ASSUME dataClass \in DOMAIN DataClasses, DataClasses[dataClass].keepsEndpoint
    PROVE  dataClass \in {"Publication", "Subscription"}
<1>1. dataClass \in {"Publication", "Subscription", "Participant", "Topic", "CMParticipant",
                     "CMPublisher", "CMSubscriber", "CMDataWriter", "CMDataReader"}
  BY DEF DataClasses
<1>2. \A k \in {"Participant", "Topic", "CMParticipant", "CMPublisher", "CMSubscriber",
                "CMDataWriter", "CMDataReader"} : DataClasses[k].keepsEndpoint = FALSE
  BY DEF DataClasses, ParticipantBuiltinTopicData, TopicBuiltinTopicData,
         CMParticipantBuiltinTopicData, CMPublisherBuiltinTopicData,
         CMSubscriberBuiltinTopicData, CMDataWriterBuiltinTopicData,
         CMDataReaderBuiltinTopicData, Unfilled, DataClass
<1> QED
  BY <1>1, <1>2

LEMMA CopiedMembers ==
    ASSUME dataClass \in DOMAIN DataClasses, DataClasses[dataClass].keepsEndpoint
    PROVE  /\ dataClass \in {"Publication", "Subscription"}
           /\ Members \ {"durability_service"} \subseteq DataClasses[dataClass].copied
           /\ "durability_service" \notin DataClasses[dataClass].copied
           /\ DataClasses[dataClass].compared \ {"durability_service"} = Members \ NotTold
           /\ DataClasses[dataClass].compared \subseteq Members
<1>1. CASE dataClass = "Publication"
  BY <1>1, PublicationClass DEF NotTold
<1>2. CASE dataClass = "Subscription"
  <2>1. "durability_service" \notin SubscriptionMembers
    BY DEF SubscriptionMembers, EndpointMembers
  <2> QED
    BY <1>2, <2>1, SubscriptionClass DEF NotTold
<1> QED
  BY <1>1, <1>2, KeepingClasses

-----------------------------------------------------------------------------
(* What depends on the class only.                                         *)
LEMMA OfTheClass ==
    ASSUME UNCHANGED dataClass
    PROVE  /\ Members' = Members /\ DataObjects' = DataObjects /\ CopiedFrom' = CopiedFrom
           /\ DataClasses[dataClass]' = DataClasses[dataClass]
<1>1. Members' = Members
  BY DEF Members
<1>2. Discovered' = Discovered
  BY <1>1 DEF Discovered
<1>3. DataObjects' = DataObjects
  BY <1>1, <1>2 DEF DataObjects
<1>4. CopiedFrom' = CopiedFrom
  BY DEF CopiedFrom, CopiedValues, EndpointValues, Members, Discovered
<1> QED
  BY <1>1, <1>3, <1>4

LEMMA DataInvInit == ASSUME DataInit PROVE DataInv
<1>1. \A h \in DataHandles : ~There(h)
  BY DEF DataInit, There
<1>2. DataTyped
  BY DEF DataInit, DataTyped
<1>3. Owned = {}
  BY <1>1 DEF Owned
<1> QED
  BY <1>1, <1>2, <1>3 DEF DataInv, DataInit, FilledByCopy, EachOwnsItsEndpoint

(* An object that is constructed, and one that an endpoint fills.          *)
LEMMA ObjectTypes ==
    /\ Blank \in DataObjects
    /\ \A e \in Endpoints, m \in Discovered : SetEndpoint(e, m) \in DataObjects
<1>1. \A m, u : u \in {"default", "a"} => Values(m, u) \in [Members -> {"default", "a", "b"}]
  BY DEF Values
<1>2. \A m : CopiedValues(m) \in [Members -> {"default", "a", "b"}]
  BY DEF CopiedValues, EndpointValues
<1> QED
  BY <1>1, <1>2 DEF Blank, SetEndpoint, DataObjects

LEMMA OwnedBy ==
    /\ \A x : x \in Owned <=> x # NoEndpoint /\ \E h \in DataHandles : There(h) /\ data[h].endpoint = x
    /\ \A x : x \in Owned' <=>
           x # NoEndpoint /\ \E h \in DataHandles : There(h)' /\ data'[h].endpoint = x
  BY DEF Owned

(* No object of the other classes has an endpoint.                         *)
LEMMA NothingIsOwned ==
    ASSUME FilledByCopy, ~DataClasses[dataClass].keepsEndpoint
    PROVE  Owned = {} /\ \A h \in DataHandles : There(h) => data[h].endpoint = NoEndpoint
  BY OwnedBy DEF FilledByCopy

(* A step of an object in a class that keeps no endpoint, or after which   *)
(* the application is not careful.                                         *)
LEMMA CarelessStep ==
    ASSUME DataInv, DataTyped', FilledByCopy', UNCHANGED <<dataClass, allocated, fault>>,
           careful' = (careful /\ ~DataClasses[dataClass].keepsEndpoint)
    PROVE  DataInv'
<1> SUFFICES ASSUME careful' PROVE EachOwnsItsEndpoint'
  BY DEF DataInv, EachOwnsItsEndpoint
<1>1. ~DataClasses[dataClass].keepsEndpoint /\ careful
  OBVIOUS
<1>2. Owned = {} /\ allocated = {} /\ ~fault
  BY <1>1, NothingIsOwned DEF DataInv, EachOwnsItsEndpoint
<1>3. \A h \in DataHandles : There(h)' => data'[h].endpoint = NoEndpoint
  BY <1>1 DEF FilledByCopy
<1>4. Owned' = {}
  BY <1>3, OwnedBy
<1> QED
  BY <1>2, <1>3, <1>4, DataAssumption DEF EachOwnsItsEndpoint

LEMMA ConstructKeeps == ASSUME DataInv, NEW h \in DataHandles, ConstructData(h) PROVE DataInv'
<1> USE DEF ConstructData
<1>1. DataTyped'
  BY ObjectTypes, OfTheClass DEF DataInv, DataTyped
<1>2. FilledByCopy'
  <2>1. data'[h] = Blank /\ \A k \in DataHandles \ {h} : data'[k] = data[k]
    BY DEF DataInv, DataTyped
  <2>2. Blank.from = "nobody"
        /\ (~DataClasses[dataClass].keepsEndpoint => Blank.endpoint = NoEndpoint)
    BY DEF Blank
  <2> QED
    BY <2>1, <2>2, OfTheClass DEF DataInv, FilledByCopy, There
<1> QED
  BY <1>1, <1>2, CarelessStep

LEMMA CopyKeeps == ASSUME DataInv, NEW h \in DataHandles, CopyData(h) PROVE DataInv'
<1>1. PICK other \in DataHandles \ {h} :
          /\ There(other) /\ data' = [data EXCEPT ![h] = data[other]]
          /\ careful' = (careful /\ ~DataClasses[dataClass].keepsEndpoint)
          /\ UNCHANGED <<dataClass, allocated, fault>>
  BY DEF CopyData, There
<1>2. DataTyped'
  BY <1>1, OfTheClass DEF DataInv, DataTyped
<1>3. \A k \in DataHandles : There(k)' => \E j \in DataHandles : There(j) /\ data'[k] = data[j]
  BY <1>1 DEF DataInv, DataTyped, There
<1>4. FilledByCopy'
  BY <1>1, <1>3, OfTheClass DEF DataInv, FilledByCopy
<1> QED
  BY <1>1, <1>2, <1>4, CarelessStep

LEMMA SetMemberKeeps == ASSUME DataInv, NEW h \in DataHandles, SetDataMember(h) PROVE DataInv'
<1> USE DEF SetDataMember
<1>1. PICK m \in Members : data' = [data EXCEPT ![h].values[m] = "b"]
  OBVIOUS
<1>2. data[h] \in DataObjects /\ There(h) /\ data[h].from = "nobody"
  BY DEF DataInv, DataTyped, There
<1>3. data'[h] = [data[h] EXCEPT !.values = [data[h].values EXCEPT ![m] = "b"]]
  BY <1>1 DEF DataInv, DataTyped
<1>4. /\ data'[h] \in DataObjects
      /\ data'[h].from = data[h].from /\ data'[h].endpoint = data[h].endpoint
  <2> DEFINE v == [data[h].values EXCEPT ![m] = "b"]
  <2>1. v \in [Members -> {"default", "a", "b"}]
    BY <1>2 DEF DataObjects
  <2> HIDE DEF v
  <2> QED
    BY <1>2, <1>3, <2>1 DEF DataObjects
<1>5. There(h)'
  BY <1>4, ObjectsAreThere DEF There
<1>6. \A k \in DataHandles \ {h} : data'[k] = data[k]
  BY <1>1 DEF DataInv, DataTyped
<1>7. DataTyped'
  <2>1. data' \in [DataHandles -> DataObjects \cup {NoData}]
    BY <1>1, <1>4, <1>6 DEF DataInv, DataTyped
  <2> QED
    BY <2>1, OfTheClass DEF DataInv, DataTyped
<1>8. FilledByCopy'
  BY <1>2, <1>4, <1>6, OfTheClass DEF DataInv, FilledByCopy, There
<1>9. \A k \in DataHandles : (There(k)' <=> There(k)) /\ (There(k) => data'[k].endpoint = data[k].endpoint)
  BY <1>2, <1>4, <1>5, <1>6 DEF There
<1>10. Owned' = Owned
  <2>1. \A x : x \in Owned' <=> x \in Owned
    BY <1>9, OwnedBy
  <2> QED
    BY <2>1
<1>11. EachOwnsItsEndpoint'
  BY <1>9, <1>10 DEF DataInv, EachOwnsItsEndpoint
<1> QED
  BY <1>7, <1>8, <1>11 DEF DataInv

(* The lookup that found no endpoint frees what was never written.         *)
LEMMA NotMatchedKeeps == ASSUME DataInv, NEW h \in DataHandles, NotMatched(h) PROVE DataInv'
<1>1. PICK e \in {Wild, NoEndpoint} : Freed(e)
  BY DEF NotMatched
<1>2. DataTyped' /\ FilledByCopy'
  <2>1. UNCHANGED <<dataClass, data>> /\ allocated' \subseteq allocated /\ fault' \in BOOLEAN
        /\ careful' = FALSE
    BY <1>1 DEF NotMatched, Freed
  <2> QED
    BY <2>1, OfTheClass DEF DataInv, DataTyped, FilledByCopy, There
<1> QED
  BY <1>2 DEF NotMatched, DataInv, EachOwnsItsEndpoint

LEMMA MatchedKeeps == ASSUME DataInv, NEW h \in DataHandles, Matched(h) PROVE DataInv'
<1>1. PICK e \in Endpoints \ allocated, m \in Discovered :
          /\ data' = [data EXCEPT ![h] = SetEndpoint(e, m)]
          /\ allocated' = allocated \cup {e}
  BY DEF Matched
<1>2. /\ DataClasses[dataClass].keepsEndpoint /\ ~There(h)
      /\ UNCHANGED <<dataClass, fault, careful>>
  BY DEF Matched, There
<1>3. data'[h] = SetEndpoint(e, m) /\ \A k \in DataHandles \ {h} : data'[k] = data[k]
  BY <1>1 DEF DataInv, DataTyped
<1>4. There(h)' /\ data'[h].endpoint = e
  <2>1. data'[h] \in DataObjects
    BY <1>3, ObjectTypes
  <2> QED
    BY <1>3, <2>1, ObjectsAreThere DEF There, SetEndpoint
<1>5. DataTyped'
  BY <1>1, <1>2, ObjectTypes, OfTheClass DEF DataInv, DataTyped
<1>6. FilledByCopy'
  <2>1. data'[h].values = CopiedFrom[m] /\ data'[h].from = m
    BY <1>3 DEF SetEndpoint, CopiedFrom
  <2> QED
    BY <1>2, <1>3, <2>1, OfTheClass DEF DataInv, FilledByCopy, There
<1>7. EachOwnsItsEndpoint'
  <2> SUFFICES ASSUME careful PROVE EachOwnsItsEndpoint'
    BY <1>2 DEF EachOwnsItsEndpoint
  <2>1. /\ ~fault /\ allocated = Owned
        /\ \A k \in DataHandles : There(k) => data[k].endpoint # Wild
        /\ \A j, k \in DataHandles :
               (j # k /\ There(j) /\ There(k) /\ data[j].endpoint = data[k].endpoint)
               => data[j].endpoint = NoEndpoint
    BY DEF DataInv, EachOwnsItsEndpoint
  <2>2. \A k \in DataHandles \ {h} : There(k)' <=> There(k)
    BY <1>3 DEF There
  <2>3. e # NoEndpoint /\ e # Wild /\ e \notin Owned
    BY <2>1, DataAssumption
  <2>4. Owned' = Owned \cup {e}
    BY <1>2, <1>3, <1>4, <2>2, <2>3, OwnedBy
  <2>5. \A k \in DataHandles \ {h} : There(k) => data[k].endpoint # e
    BY <2>3, OwnedBy
  <2>6. \A j, k \in DataHandles :
            (j # k /\ There(j)' /\ There(k)' /\ data'[j].endpoint = data'[k].endpoint)
            => data'[j].endpoint = NoEndpoint
    BY <1>3, <1>4, <2>1, <2>2, <2>5
  <2>7. \A k \in DataHandles : There(k)' => data'[k].endpoint # Wild
    BY <1>3, <1>4, <2>1, <2>2, <2>3
  <2>8. ~fault' /\ allocated' = Owned'
    BY <1>1, <1>2, <2>1, <2>4
  <2> QED
    BY <2>6, <2>7, <2>8 DEF EachOwnsItsEndpoint
<1> QED
  BY <1>5, <1>6, <1>7 DEF DataInv

LEMMA DestroyKeeps == ASSUME DataInv, NEW h \in DataHandles, DestroyData(h) PROVE DataInv'
<1> DEFINE e == data[h].endpoint
<1>1. /\ There(h) /\ data' = [data EXCEPT ![h] = NoData]
      /\ allocated' = allocated \ {e} /\ fault' = (fault \/ e \notin allocated \cup {NoEndpoint})
      /\ UNCHANGED <<dataClass, careful>>
  BY DEF DestroyData, There, Freed
<1>2. ~There(h)' /\ \A k \in DataHandles \ {h} : data'[k] = data[k]
  BY <1>1 DEF DataInv, DataTyped, There
<1>3. DataTyped'
  BY <1>1, OfTheClass DEF DataInv, DataTyped
<1>4. \A k \in DataHandles : There(k)' <=> k # h /\ There(k)
  BY <1>2 DEF There
<1>5. FilledByCopy'
  BY <1>1, <1>2, <1>4, OfTheClass DEF DataInv, FilledByCopy
<1>6. EachOwnsItsEndpoint'
  <2> SUFFICES ASSUME careful PROVE EachOwnsItsEndpoint'
    BY <1>1 DEF EachOwnsItsEndpoint
  <2>1. /\ ~fault /\ allocated = Owned
        /\ \A k \in DataHandles : There(k) => data[k].endpoint # Wild
        /\ \A j, k \in DataHandles :
               (j # k /\ There(j) /\ There(k) /\ data[j].endpoint = data[k].endpoint)
               => data[j].endpoint = NoEndpoint
    BY DEF DataInv, EachOwnsItsEndpoint
  <2>2. NoEndpoint \notin Owned /\ (e # NoEndpoint => e \in Owned)
    BY <1>1, OwnedBy
  <2>3. Owned' = Owned \ {e}
    <3>1. ASSUME NEW x \in Owned, x # e PROVE x \in Owned'
      BY <1>2, <1>4, <3>1, OwnedBy
    <3>2. ASSUME NEW x \in Owned' PROVE x \in Owned /\ x # e
      BY <1>1, <1>2, <1>4, <2>1, <3>2, OwnedBy
    <3> QED
      BY <3>1, <3>2
  <2>4. ~fault' /\ allocated' = Owned'
    BY <1>1, <2>1, <2>2, <2>3
  <2> QED
    BY <1>2, <1>4, <2>1, <2>4 DEF EachOwnsItsEndpoint
<1> QED
  BY <1>3, <1>5, <1>6 DEF DataInv

LEMMA DataInvNext == ASSUME DataInv, [DataNext]_dataVars PROVE DataInv'
<1>1. CASE DataNext
  BY <1>1, ConstructKeeps, MatchedKeeps, NotMatchedKeeps, SetMemberKeeps, CopyKeeps, DestroyKeeps
     DEF DataNext
<1>2. CASE UNCHANGED dataVars
  <2>1. DataTyped' /\ FilledByCopy'
    BY <1>2, OfTheClass DEF dataVars, DataInv, DataTyped, FilledByCopy, There
  <2>2. EachOwnsItsEndpoint'
    BY <1>2 DEF dataVars, DataInv, EachOwnsItsEndpoint, Owned, There
  <2> QED
    BY <2>1, <2>2 DEF DataInv
<1> QED
  BY <1>1, <1>2

(* The inductive invariant of the data of matched endpoints.               *)
THEOREM DataInvariant == DataSpec => []DataInv
  BY DataInvInit, DataInvNext, PTL DEF DataSpec

(* What an object was filled with, member by member.                       *)
LEMMA FilledWith ==
    ASSUME DataInv, NEW h \in DataHandles, There(h), data[h].from # "nobody"
    PROVE  /\ DataClasses[dataClass].keepsEndpoint
           /\ \A f \in Members \ {"durability_service"} :
                  data[h].values[f] = EndpointValues(data[h].from)[f]
           /\ "durability_service" \in Members =>
                  data[h].values["durability_service"] = "default"
<1>1. /\ dataClass \in DOMAIN DataClasses /\ DataClasses[dataClass].keepsEndpoint
      /\ data[h].values = CopiedValues(data[h].from)
  <2>1. data[h].from \in Discovered
    BY DEF DataInv, DataTyped, There, DataObjects
  <2> QED
    BY <2>1 DEF DataInv, DataTyped, FilledByCopy, CopiedFrom
<1> QED
  BY <1>1, CopiedMembers DEF CopiedValues

(* What an application learns of a matched endpoint is that endpoint's,    *)
(* and data compare equal exactly if what they tell does; the C library's  *)
(* memory behind them is freed once, for applications that keep what a     *)
(* lookup returns where it was returned. For any number of endpoints.      *)
THEOREM BuiltinDataStayTrue == DataSpec => []BuiltinDataAgree
<1>1. ASSUME DataInv PROVE EndpointsFreedOnce
  <2> USE <1>1
  <2>1. Owned = {data[h].endpoint : h \in {k \in DataHandles : data[k] # NoData}} \ {NoEndpoint}
    BY DEF Owned, There
  <2> QED
    BY <2>1 DEF DataInv, EachOwnsItsEndpoint, EndpointsFreedOnce, There
<1>2. ASSUME DataInv PROVE DataAsDiscovered
  <2> SUFFICES ASSUME NEW h \in DataHandles, There(h), data[h].from # "nobody",
                      NEW f \in Members \ {"participant_key", "durability_service"}
               PROVE  Accessor(data[h], f) = EndpointValues(data[h].from)[f]
    BY DEF DataAsDiscovered, There
  <2> QED
    BY <1>2, FilledWith DEF Accessor
<1>3. ASSUME DataInv PROVE EqualIfSame
  <2> SUFFICES ASSUME NEW h \in DataHandles, NEW k \in DataHandles, There(h), There(k),
                      data[h].from # "nobody", data[k].from # "nobody"
               PROVE  EqualData(data[h], data[k])
                      <=> \A f \in Members \ NotTold :
                              EndpointValues(data[h].from)[f] = EndpointValues(data[k].from)[f]
    BY DEF EqualIfSame, There
  <2> DEFINE compared == DataClasses[dataClass].compared
  <2>1. /\ compared \ {"durability_service"} = Members \ NotTold
        /\ compared \subseteq Members
    BY <1>3, FilledWith, CopiedMembers DEF DataInv, DataTyped
  <2>2. "durability_service" \in compared =>
            data[h].values["durability_service"] = data[k].values["durability_service"]
    BY <1>3, <2>1, FilledWith
  <2>3. \A f \in compared \ {"durability_service"} :
            /\ data[h].values[f] = EndpointValues(data[h].from)[f]
            /\ data[k].values[f] = EndpointValues(data[k].from)[f]
    BY <1>3, <2>1, FilledWith
  <2>4. EqualData(data[h], data[k]) <=> \A f \in compared : data[h].values[f] = data[k].values[f]
    BY DEF EqualData
  <2> HIDE DEF compared
  <2> QED
    BY <2>1, <2>2, <2>3, <2>4
<1> QED
  BY <1>1, <1>2, <1>3, DataInvariant, PTL DEF BuiltinDataAgree
=============================================================================
