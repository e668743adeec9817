-------------------------- MODULE MCAuditPipeline --------------------------
(***************************************************************************)
(* Instances of AuditPipeline for TLC.                                     *)
(***************************************************************************)
EXTENDS AuditPipeline, TLC

CONSTANTS e1, e2, e3, w1, w2

OneMonth  == [e \in Entries |-> 1]
TwoMonths == [e \in Entries |-> IF e = e1 THEN 1 ELSE 2]

\* Workers are interchangeable.
Symmetric == Permutations(Workers)
=============================================================================
