------------------------- MODULE ApplicationStates -------------------------
(***************************************************************************)
(* The states of samples and of entities as an application selects and is  *)
(* shown them, beside each other: neither part touches the other.          *)
(***************************************************************************)
EXTENDS SampleStates, StatusMasks

ApplicationInit == StatesInit /\ MasksInit

ApplicationNext ==
    \/ StatesNext /\ UNCHANGED maskVars
    \/ MasksNext /\ UNCHANGED stateVars

ApplicationSpec == ApplicationInit /\ [][ApplicationNext]_<<stateVars, maskVars>>

(* The states of samples and of entities that an application selects and   *)
(* is shown are those of the C layer.                                      *)
StatesAgree == SelectsWhatItShows /\ MasksAgree
=============================================================================
