----------------------------- MODULE PolicySets -----------------------------
(***************************************************************************)
(* What PolicyManager.ApplyPolicies may leave on a socket: Connector takes *)
(* it as one step, Policies checks it call by call.                        *)
(***************************************************************************)

\* A socket that has policies `held`, was listed with `listed` and should have
\* `names`: nothing for an empty list or a failed attach; else any of the names
\* it could look up, and the listed ones beside them gone unless the detach
\* failed.
PolicyOutcomes(held, listed, names) ==
    {held} \cup
    (IF names = {} THEN {}
     ELSE {(held \cup attached) \ detached :
             attached \in SUBSET names, detached \in {{}, listed \ names}})
=============================================================================
