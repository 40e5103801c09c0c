------------------------------ MODULE MCWriter ------------------------------
(***************************************************************************)
(* Five parts that share no state, checked in one run: the listener of a   *)
(* writer, what its threads publish, the data of the entities it matches,  *)
(* the tables its streams walk, and the compiler that wrote the code for   *)
(* its type. A behaviour is one of one of them; the others stay as they    *)
(* are at first.                                                           *)
(***************************************************************************)
EXTENDS MCEntityListener, WritePath, BuiltinData, MCCompiler

VARIABLE subject       \* the part that runs

CONSTANTS t1, t2, k1, k2, k3, e1, e2

TwoThreads == {t1, t2}
TwoEndpoints == {e1, e2}

(* Every operation, ranges of no and of two samples, a range of handles    *)
(* that is shorter, both kinds of times, bytes that are not a sample.      *)
SomeCalls ==
    {WriteCall(k1, "given"), WriteRange(<< >>, "invalid"), WriteRange(<<k1, k2>>, "invalid"),
     WritePairs(<<k1, k2>>, 1, "given"), WriteLoan(k1), WriteDisposeCall(k2, "invalid"),
     WriteDisposeRange(<<k2, k1>>, "given"), WriteDisposePairs(<<k1>>, 2, "invalid"),
     WriteCdr(k1, "given"), DisposeCdr(k1, "invalid"), UnregisterCdr(k2, "given"),
     WriteCdr(k3, "invalid"),
     RegisterInstance(k1, "invalid"), RegisterInstance(k1, "given"),
     UnregisterInstance(k1, "given"), DisposeInstance(k2, "invalid"),
     UnregisterHandle(Nil, "invalid"), UnregisterHandle(k1, "given"),
     DisposeHandle(k1, "invalid"), KeyValue(k1), LookupInstance(k1), LoanSample, ReturnLoan,
     CloseWriter}

CxxKeywords == {<<"class">>}

ListenerIdle == Init /\ enabled /\ listener = NoListener /\ ~mask /\ stored = a1
DataIdle == dataClass = "Publication" /\ DataInit
PropsIdle == graph = SomeGraph /\ PropsInit
IdlIdle == idl = SomeFile /\ IdlInit

WriterInit ==
    /\ WriteInit
    /\ \/ subject = "listener" /\ Init /\ DataIdle /\ PropsIdle /\ IdlIdle
       \/ subject = "write" /\ ListenerIdle /\ DataIdle /\ PropsIdle /\ IdlIdle
       \/ subject = "data" /\ ListenerIdle /\ DataInit /\ PropsIdle /\ IdlIdle
       \/ subject = "tables" /\ ListenerIdle /\ DataIdle /\ PropsInit /\ IdlIdle
       \/ subject = "compiler" /\ ListenerIdle /\ DataIdle /\ PropsIdle /\ IdlInit

ListenerPart == subject = "listener" /\ Next /\ UNCHANGED <<subject, writeVars, dataVars, propVars, idlVars>>
WritePart == subject = "write" /\ WriteNext /\ UNCHANGED <<subject, vars, dataVars, propVars, idlVars>>
DataPart == subject = "data" /\ DataNext /\ UNCHANGED <<subject, vars, writeVars, propVars, idlVars>>
TablesPart == subject = "tables" /\ PropsNext /\ UNCHANGED <<subject, vars, writeVars, dataVars, idlVars>>
CompilerPart == subject = "compiler" /\ IdlNext /\ UNCHANGED <<subject, vars, writeVars, dataVars, propVars>>

WriterNext == ListenerPart \/ WritePart \/ DataPart \/ TablesPart \/ CompilerPart

WriterSpec ==
    /\ WriterInit
    /\ [][WriterNext]_<<subject, vars, writeVars, dataVars, propVars, idlVars>>
    /\ WriteFairness /\ PropsFairness

WriterTypeOK ==
    /\ subject \in {"listener", "write", "data", "tables", "compiler"}
    /\ TypeOK /\ WriteTypeOK /\ DataTypeOK /\ PropsTypeOK /\ IdlTypeOK

(* The code that the compiler writes for a type is a program that streams  *)
(* it as it is declared, and the tables its streams walk are complete      *)
(* whenever a thread may use them.                                         *)
GeneratedCodeAgrees ==
    /\ subject = "tables" => TablesAreRight
    /\ subject = "compiler" => CompilerAgrees

(* Every call of a writer ends, and every call that builds a table.        *)
CallsEnd == WriterCallsEnd /\ TablesAreBuilt
=============================================================================
