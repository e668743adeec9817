----------------------------- MODULE MCPayables -----------------------------
(***************************************************************************)
(* Instances of Payables for TLC.                                          *)
(***************************************************************************)
EXTENDS Payables, TLC

CONSTANTS b1, b2, v1, v2, n1, n2, r1, r2, t1, d1

AnyNumber(b)  == Numbers
Alike         == Permutations({v1, v2}) \cup Permutations({n1, n2})

=============================================================================
