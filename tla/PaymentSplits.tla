--------------------------- MODULE PaymentSplits ---------------------------
(***************************************************************************)
(* The split arithmetic of controllers/payment_splits.go: how one invoice  *)
(* payment is divided over payment methods, kept in step with the amount   *)
(* paid, and read back from the payment rows.                              *)
(*                                                                         *)
(* A split is a record [mode, amt].  A mode stands for a payment method    *)
(* together with the account it is mapped to.  Amounts are whole numbers   *)
(* of the smallest currency unit, so the 0.009 tolerances of the code      *)
(* become exact comparisons.  The empty sequence is the omitted            *)
(* payment_splits field.                                                   *)
(***************************************************************************)
EXTENDS Integers, Sequences, SequencesExt, Functions

Lesser(a, b) == IF a <= b THEN a ELSE b

SplitsTotal(splits) == SumFunction([k \in DOMAIN splits |-> splits[k].amt])

ModesOf(splits) == {splits[k].mode : k \in DOMAIN splits}

\* Equal methods are added up at the place of the first one; empty splits go.
MergedWith(out, s) ==
    IF s.amt <= 0 THEN out
    ELSE IF s.mode \in ModesOf(out)
    THEN [k \in DOMAIN out |-> IF out[k].mode = s.mode THEN [out[k] EXCEPT !.amt = @ + s.amt] ELSE out[k]]
    ELSE Append(out, s)

Merged(splits) == FoldLeft(MergedWith, << >>, splits)

\* Splits are honoured in order until the total is used up.
Taken(out, s, total) ==
    LET left == total - SplitsTotal(out)
    IN  IF left > 0 /\ s.amt > 0 THEN Append(out, [s EXCEPT !.amt = Lesser(s.amt, left)]) ELSE out

Clamped(splits, total) == FoldLeft(LAMBDA out, s : Taken(out, s, total), << >>, splits)

GrowLast(splits, extra) == [splits EXCEPT ![Len(splits)].amt = @ + extra]

Adjusted_NeverGrown(splits, amount) == Clamped(Merged(splits), amount)

\* Existing splits follow a new amount: the last one grows, the tail shrinks.
Adjusted(splits, amount) ==
    LET merged == Merged(splits)
        sum    == SplitsTotal(merged)
    IN  IF amount <= 0       THEN << >>
        ELSE IF merged = << >> THEN << [mode |-> "cash", amt |-> amount] >>
        ELSE IF amount >= sum  THEN GrowLast(merged, amount - sum)
        ELSE Clamped(merged, amount)

\* resolveInvoicePaymentSplits: no usable split means one split in the
\* document's own payment mode.
Resolved(splits, mode, amount) ==
    IF Merged(splits) = << >> /\ amount > 0
    THEN << [mode |-> mode, amt |-> amount] >>
    ELSE Merged(splits)

\* selectInvoicePaymentSplits: an omitted list keeps the existing methods.
Selected(input, existing, amount) ==
    IF input # << >>                  THEN Clamped(Merged(input), amount)
    ELSE IF Merged(existing) = << >>  THEN << >>
    ELSE Adjusted(existing, amount)

\* finalizeInvoicePaymentSplits and applyResolvedSplitsToInvoice: the paid
\* amount and mode an invoice is saved with, and the splits behind them.
FinalAmount(status, total, paid) ==
    IF status = "paid" THEN total
    ELSE IF paid > total THEN total
    ELSE IF paid < 0 THEN 0 ELSE paid

FinalSplits(status, total, paid, mode, input, existing) ==
    LET amount   == FinalAmount(status, total, paid)
        resolved == Resolved(Selected(input, existing, amount), mode, amount)
        short    == total - SplitsTotal(resolved)
    IN  IF status = "paid" /\ short > 0
        THEN IF resolved = << >> THEN Resolved(<< >>, mode, total)
                                 ELSE GrowLast(resolved, short)
        ELSE resolved

FirstMode(splits, mode) == IF splits = << >> THEN mode ELSE splits[1].mode
=============================================================================
