------------------------------ MODULE MCStock ------------------------------
(***************************************************************************)
(* Instances of Stock for TLC.                                             *)
(***************************************************************************)
EXTENDS Stock

CONSTANTS o1, o2, i1, b1, r1, r2

=============================================================================
