------------------------------ MODULE MCReader ------------------------------
(***************************************************************************)
(* Four parts that share no state, checked in one run: the listener of a   *)
(* reader that is closed, the filters of filtered topics, the states that  *)
(* samples are selected by, and status masks. A behaviour is one of one of *)
(* them; the others stay as they are at first.                             *)
(***************************************************************************)
EXTENDS MCEntityListener, FilteredTopic, ApplicationStates

CONSTANTS v1, v2, f1, f2, r1, r2

VARIABLE subject       \* the part that runs

TwoViews == {v1, v2}
TwoFilterUsers == {f1, f2}
TwoViewReaders == {r1, r2}

StatusesOfReader ==
    {"sample_rejected", "liveliness_changed", "requested_deadline_missed",
     "requested_incompatible_qos", "data_available", "sample_lost", "subscription_matched"}
StatusesOccurring == {"sample_lost", "data_available", "liveliness_changed"}

(* One of the initial states of each part that does not run.               *)
NoListenerYet == enabled /\ listener = NoListener /\ ~mask /\ stored = a1
NoSampleYet == dataState = AnyData

ReaderInit ==
    /\ subject \in {"listener", "filter", "state", "mask"}
    /\ Init /\ FilterInit /\ StatesInit /\ MasksInit
    /\ subject # "listener" => NoListenerYet
    /\ subject # "state" => NoSampleYet

ListenerPart ==
    subject = "listener" /\ Next /\ UNCHANGED <<subject, filterVars, stateVars, maskVars>>
Filters ==
    subject = "filter" /\ FilterNext /\ UNCHANGED <<subject, vars, stateVars, maskVars>>
SampleSelection ==
    subject = "state" /\ StatesNext /\ UNCHANGED <<subject, vars, filterVars, maskVars>>
StatusMasking ==
    subject = "mask" /\ MasksNext /\ UNCHANGED <<subject, vars, filterVars, stateVars>>

ReaderNext == ListenerPart \/ Filters \/ SampleSelection \/ StatusMasking

ReaderSpec ==
    /\ ReaderInit
    /\ [][ReaderNext]_<<subject, vars, filterVars, stateVars, maskVars>>
    /\ Fairness

(* The types of the parts.                                                 *)
ReaderTypeOK ==
    /\ subject \in {"listener", "filter", "state", "mask"}
    /\ TypeOK /\ FilterTypeOK /\ StatesTypeOK /\ MasksTypeOK
=============================================================================
