--------------------------- MODULE MCReceivables ---------------------------
(***************************************************************************)
(* Instances of Receivables for TLC.                                       *)
(***************************************************************************)
EXTENDS Receivables

CONSTANTS i1, i2, q1, q2, c1, c2

NoSplits     == {<< >>}
CashAndBank  == {<< [mode |-> "cash", amt |-> 1], [mode |-> "bank", amt |-> 1] >>}
SplitsOrNone == NoSplits \cup CashAndBank
TwoClients   == Permutations({c1, c2})

=============================================================================
