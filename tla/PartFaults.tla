----------------------------- MODULE PartFaults -----------------------------
(***************************************************************************)
(* What the two things Connector takes as one step share here: a bounded   *)
(* number of faults of the kinds a model chooses.                          *)
(***************************************************************************)
EXTENDS Naturals

CONSTANTS
    None,        \* nothing
    FaultKinds,  \* what may fail or happen
    MaxFaults    \* bound: how often

VARIABLE faults

Fault(kind) ==
    /\ kind \in FaultKinds
    /\ faults < MaxFaults
    /\ faults' = faults + 1
=============================================================================
