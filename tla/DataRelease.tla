----------------------------- MODULE DataRelease -----------------------------
(***************************************************************************)
(* What the update pipeline promises, with no files, swap or rollback in   *)
(* sight: the recorded fingerprints never claim more than the products     *)
(* hold, and the server goes away only while there is an update to do.     *)
(***************************************************************************)
EXTENDS Naturals

CONSTANT MaxVersion

VARIABLES
    inputs,    \* versions of the two input files
    recorded,  \* versions the last successful update is recorded for
    table,     \* GeoPackage version in PostGIS
    serving    \* versions behind the tiles being served; Nothing: none

vars == <<inputs, recorded, table, serving>>

Versions == [base : 0..MaxVersion, nhvr : 0..MaxVersion]
Nothing == [base |-> 0, nhvr |-> 0]
AtLeast(v, w) == v.base >= w.base /\ v.nhvr >= w.nhvr

Init ==
    /\ inputs = [base |-> 1, nhvr |-> 1]
    /\ \/ recorded = Nothing /\ table = 0 /\ serving = Nothing
       \/ recorded = inputs /\ table = 1 /\ serving = inputs

ReplaceInputs ==
    /\ inputs' \in Versions /\ AtLeast(inputs', inputs)
    /\ UNCHANGED <<recorded, table, serving>>

LoadTable ==
    /\ table' \in recorded.nhvr..inputs.nhvr
    /\ UNCHANGED <<inputs, recorded, serving>>

TakeDown ==
    /\ recorded # inputs
    /\ serving' = Nothing
    /\ UNCHANGED <<inputs, recorded, table>>

BringUp ==
    /\ serving = Nothing
    /\ serving' \in Versions
    /\ AtLeast(serving', recorded) /\ AtLeast(inputs, serving')
    /\ UNCHANGED <<inputs, recorded, table>>

Record ==
    /\ recorded' \in Versions
    /\ AtLeast(serving, recorded') /\ table >= recorded'.nhvr
    /\ UNCHANGED <<inputs, table, serving>>

Next == ReplaceInputs \/ LoadTable \/ TakeDown \/ BringUp \/ Record

Spec == Init /\ [][Next]_vars

(* What a reader of the state file may rely on. *)
RecordIsTrue == recorded = inputs => table = inputs.nhvr /\ serving = inputs
=============================================================================
