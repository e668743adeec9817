---------------------------- MODULE SalesReturns ----------------------------
(***************************************************************************)
(* Goods a customer brings back: sales returns, the credit notes and the   *)
(* refunds they lead to, credit notes written by hand, and what they do to *)
(* the invoices they settle, to the customer's balance and to cash.        *)
(* (controllers/sales_return.go, credit_note.go, and payment_out.go as far *)
(* as it pays customers)                                                   *)
(*                                                                         *)
(* There is one customer.  Journals are posted and reversed together with  *)
(* the cash row of a payment, and a row stands for both.  The server may   *)
(* die between two statements of a request, and the two that issue a note  *)
(* may fail, which nothing looks at.                                       *)
(***************************************************************************)
EXTENDS Integers, FiniteSets, Functions

CONSTANTS
    Clerks,         \* requests under way at a time
    Returns,        \* sales returns
    HandNotes,      \* credit notes written by hand
    Sales,          \* invoices
    NoSale,
    SaleTotal,      \* total of an invoice
    RefundAmounts,  \* amounts refunded, net of deductions
    LateEdits,      \* whether a draft that was refunded or is being processed is edited
    MaxRefunds,     \* bound: payments out kept at any time
    MaxSlips        \* bound: how often a return's processing or a note's issuing is cut short

VARIABLES
    db,     \* the tables
    req     \* what each request has read

vars   == << db, req >>
Idle   == [op |-> "idle"]
Unused == [st |-> "unused"]
Min2(a, b) == IF a < b THEN a ELSE b
Max0(n)    == IF n < 0 THEN 0 ELSE n

\* invoiceStatusForPaidAmount, of invoices that are not overdue
StatusFor(paid) == IF paid >= SaleTotal THEN "paid" ELSE IF paid > 0 THEN "partial" ELSE "sent"

Init ==
    /\ \E cash \in [Sales -> 0 .. SaleTotal] :
          db = [returns |-> [t \in Returns |-> Unused],
                notes   |-> [n \in Returns \cup HandNotes |-> Unused],
                sales   |-> [s \in Sales |-> [paid |-> cash[s], st |-> StatusFor(cash[s]), cash |-> cash[s]]],
                credits |-> {},     \* payments in, of mode credit_note
                outs    |-> {},     \* payments out to the customer
                owed    |-> 0,      \* parties.balance
                cash    |-> 0,      \* what the cash rows come to
                goods   |-> [t \in Returns |-> 0],
                slips   |-> [n \in HandNotes |-> 0]]   \* how often its issuing was cut short
    /\ req = [c \in Clerks |-> Idle]

Refunded(t)  == \E o \in db.outs : o.ret = t
Busy(t)      == \E c \in Clerks : req[c] # Idle /\ req[c].ret = t
Write(d)     == db' = d /\ UNCHANGED req
Owe(d, n)    == [d EXCEPT !.owed = @ + n]
SetPaid(d, s, paid) == [d EXCEPT !.sales[s].paid = paid, !.sales[s].st = StatusFor(paid)]

-----------------------------------------------------------------------------
(* Returns *)

\* refundSettlesInMoney
InMoney(mode) == mode = "cash"

CreateSalesReturn(t, amt, mode, s, settle) ==
    /\ db.returns[t].st = "unused"
    /\ Write([db EXCEPT !.returns[t] =
                [st |-> "draft", amt |-> amt, mode |-> mode, sale |-> s, settle |-> settle]])

UpdateSalesReturn(t, amt, mode, settle) ==
    /\ db.returns[t].st = "draft"
    /\ Refunded(t) \/ Busy(t) => LateEdits
    /\ Write([db EXCEPT !.returns[t].amt = amt, !.returns[t].mode = mode, !.returns[t].settle = settle])

DeleteSalesReturn(t) ==
    /\ db.returns[t].st = "draft"
    /\ Refunded(t) \/ Busy(t) => LateEdits
    /\ Write([db EXCEPT !.returns[t] = [st |-> "deleted"]])

\* ProcessSalesReturn reads the return, puts the goods back item by item, ...
LoadReturn(c, t) ==
    /\ req[c] = Idle
    /\ db.returns[t].st = "draft" /\ db.goods[t] <= MaxSlips
    /\ req' = [req EXCEPT ![c] = [op |-> "restore", ret |-> t, seen |-> db.returns[t]]]
    /\ UNCHANGED db

RestoreGoods(c) ==
    /\ req[c].op = "restore"
    /\ db' = [db EXCEPT !.goods[req[c].ret] = @ + 1]
    /\ req' = [req EXCEPT ![c].op = "settle"]

FreeOut(d) == CHOOSE i \in 1 .. MaxRefunds : \A o \in d.outs : o.id # i

\* recordSalesReturnRefundPayment, and the same written by CreatePaymentOut
PayOut(d, ret, note, sale, amt, moves) ==
    LET out == [id |-> FreeOut(d), ret |-> ret, note |-> note, sale |-> sale, amt |-> amt,
                live |-> TRUE, moved |-> moves]
        paid == [d EXCEPT !.outs = @ \cup {out}, !.cash = @ - amt]
    IN  IF moves THEN Owe(paid, amt) ELSE paid

\* issueCreditNoteForReturn
IssueForReturn(d, t, rec) ==
    [d EXCEPT !.notes[t] = [st |-> "issued", amt |-> rec.amt, sale |-> rec.sale, hand |-> FALSE]]

Covered_WholeAmount(d, s, amt) == IF s = NoSale THEN 0 ELSE amt

\* what settleInvoiceWithReturn applies to an invoice
Covered(d, s, amt) ==
    IF s = NoSale THEN 0 ELSE Min2(amt, Max0(SaleTotal - d.sales[s].paid))

\* recordCreditSettlePayment goes with it
SettleSale(d, t, s, amt) ==
    LET n == Covered(d, s, amt)
    IN  IF n = 0 THEN d
        ELSE SetPaid([d EXCEPT !.credits = @ \cup {[ret |-> t, sale |-> s, amt |-> n, live |-> TRUE]}],
                     s, d.sales[s].paid + n)

CreditCustomer(d, t, rec) ==
    SettleSale(IssueForReturn(Owe(d, -rec.amt), t, rec), t,
               IF rec.settle # NoSale THEN rec.settle ELSE rec.sale, rec.amt)

\* ... and settles it in one transaction, as it was when it was read
SettleReturn(c) ==
    LET t == req[c].ret  rec == req[c].seen
        done == [db EXCEPT !.returns[t] = [rec EXCEPT !.st = "processed"]]
    IN
    /\ req[c].op = "settle"
    /\ InMoney(rec.mode) /\ ~Refunded(t) /\ rec.amt > 0 => Cardinality(db.outs) < MaxRefunds
    /\ db' = IF rec.amt = 0 THEN done
             ELSE IF ~InMoney(rec.mode) THEN CreditCustomer(done, t, rec)
             ELSE IF Refunded(t) THEN done
             ELSE PayOut(done, t, NoSale, NoSale, rec.amt, FALSE)
    /\ req' = [req EXCEPT ![c] = Idle]

-----------------------------------------------------------------------------
(* Credit notes written by hand *)

CreateCreditNote(n, amt, s) ==
    /\ db.notes[n].st = "unused"
    /\ Write([db EXCEPT !.notes[n] = [st |-> "draft", amt |-> amt, sale |-> s, hand |-> TRUE]])

DeleteCreditNote(n) ==
    /\ db.notes[n].st = "draft"
    /\ Busy(n) => LateEdits
    /\ Write([db EXCEPT !.notes[n].st = "deleted"])

Slip(n) == db.slips[n] < MaxSlips /\ db' = [db EXCEPT !.slips[n] = @ + 1]

\* the invoice is saved as it was, but for the amount paid, ...
IssueCreditNote(c, n) ==
    LET note == db.notes[n] IN
    /\ req[c] = Idle
    /\ note.st = "draft"
    /\ Busy(n) => LateEdits
    /\ req' = [req EXCEPT ![c] = [op |-> "issue", ret |-> n, seen |-> note]]
    /\ Slip(n) \/ db' = [db EXCEPT !.sales[note.sale].paid = @ - note.amt]

\* ... and then the note: neither error is looked at
SaveNote(c) ==
    LET n == req[c].ret IN
    /\ req[c].op = "issue"
    /\ req' = [req EXCEPT ![c] = Idle]
    /\ Slip(n) \/ db' = [db EXCEPT !.notes[n] = [req[c].seen EXCEPT !.st = "issued"]]

Restored_Uncapped(note, paid) == paid + note.amt

Restored(note, paid) == Min2(paid + note.amt, SaleTotal)

\* refused while a refund of the note stands
CancelCreditNote(n) ==
    LET note == db.notes[n] IN
    /\ note.st \in {"draft", "issued"}
    /\ Busy(n) => LateEdits
    /\ ~\E o \in db.outs : o.note = n /\ o.live
    /\ LET gone == [db EXCEPT !.notes[n].st = "cancelled"]
       IN  Write(IF note.st = "issued" /\ note.hand
                 THEN SetPaid(gone, note.sale, Restored(note, db.sales[note.sale].paid)) ELSE gone)

-----------------------------------------------------------------------------
(* Payments out to the customer *)

\* CreatePaymentOut for a return, a note or an invoice
CreateRefund(ret, note, sale, amt) ==
    LET inMoney == ret # NoSale /\ InMoney(db.returns[ret].mode) IN
    /\ Cardinality(db.outs) < MaxRefunds
    /\ ret # NoSale => db.returns[ret].st \in {"draft", "processed"}
    /\ note # NoSale => db.notes[note].st \in {"draft", "issued", "cancelled"}
    /\ Write(PayOut(db, ret, note, sale, amt, ~inMoney /\ sale = NoSale))

Reversed_Always(o) == TRUE

\* whether reversePaymentOutEffects takes the amount off the balance
Reversed(o) ==
    /\ o.sale = NoSale
    /\ o.ret # NoSale /\ db.returns[o.ret].st # "deleted" => ~InMoney(db.returns[o.ret].mode)

ReverseRefund(d, o) ==
    LET back == [d EXCEPT !.cash = @ + o.amt]
    IN  IF Reversed(o) THEN Owe(back, -o.amt) ELSE back

CancelRefund(o) ==
    /\ o.live
    /\ Write(ReverseRefund([db EXCEPT !.outs = (@ \ {o}) \cup {[o EXCEPT !.live = FALSE]}], o))

DeleteRefund(o) ==
    /\ o.live
    /\ Write(ReverseRefund([db EXCEPT !.outs = @ \ {o}], o))

\* CancelPayment of a credit settlement.  It has no cash row of its own: a row
\* of the invoice of the same amount goes instead.
CancelCredit(p) ==
    LET s    == p.sale
        row  == db.sales[s].cash = p.amt
        gone == [db EXCEPT !.credits = (@ \ {p}) \cup {[p EXCEPT !.live = FALSE]},
                           !.sales[s].cash = IF row THEN 0 ELSE @]
    IN
    /\ p.live
    /\ Write(Owe(SetPaid(gone, s, Max0(db.sales[s].paid - p.amt)), p.amt))

-----------------------------------------------------------------------------
Modes == {"cash", "credit_note"}
MaybeSale == Sales \cup {NoSale}

ReturnSteps(t) ==
    \/ \E amt \in RefundAmounts \cup {0}, mode \in Modes, settle \in MaybeSale :
          (\E s \in MaybeSale : CreateSalesReturn(t, amt, mode, s, settle)) \/ UpdateSalesReturn(t, amt, mode, settle)
    \/ DeleteSalesReturn(t)
    \/ \E c \in Clerks : LoadReturn(c, t)
    \/ \E amt \in RefundAmounts : CreateRefund(t, NoSale, NoSale, amt)

NoteSteps ==
    \/ \E n \in HandNotes :
          (\E amt \in RefundAmounts, s \in Sales : CreateCreditNote(n, amt, s)) \/ DeleteCreditNote(n)
          \/ \E c \in Clerks : IssueCreditNote(c, n)
    \/ \E n \in Returns \cup HandNotes :
          CancelCreditNote(n) \/ \E amt \in RefundAmounts : CreateRefund(NoSale, n, NoSale, amt)

PaymentSteps ==
    \/ \E s \in Sales, amt \in RefundAmounts : CreateRefund(NoSale, NoSale, s, amt)
    \/ \E o \in db.outs : CancelRefund(o) \/ DeleteRefund(o)
    \/ \E p \in db.credits : CancelCredit(p)

Issuing(n) == \E c \in Clerks : req[c].op = "issue" /\ req[c].ret = n

Die ==
    /\ \E c \in Clerks : req[c] # Idle
    /\ \A n \in HandNotes : Issuing(n) => db.slips[n] < MaxSlips
    /\ db' = [db EXCEPT !.slips = [n \in HandNotes |-> IF Issuing(n) THEN @[n] + 1 ELSE @[n]]]
    /\ req' = [c \in Clerks |-> Idle]

Next ==
    \/ Die
    \/ \E c \in Clerks : RestoreGoods(c) \/ SettleReturn(c) \/ SaveNote(c)
    \/ \E t \in Returns : ReturnSteps(t)
    \/ NoteSteps
    \/ PaymentSteps

Spec == Init /\ [][Next]_vars

-----------------------------------------------------------------------------
(* Properties *)

Sum(S)   == SumFunctionOnSet([x \in S |-> x.amt], S)
CreditOf(t) == IF db.returns[t].st = "processed" /\ ~InMoney(db.returns[t].mode) THEN db.returns[t].amt ELSE 0
NoteOf(n, s) == IF db.notes[n].st \in {"issued", "cancelled"} /\ db.notes[n].sale = s THEN db.notes[n].amt ELSE 0
Moved    == {o \in db.outs : o.live /\ o.moved}

\* The customer's balance is what processed credit returns took off it and what
\* payments out that count put back; a refund that was reversed leaves no
\* trace, whatever became of its return in between.  (Cancelling a credit
\* settlement gives back what it never took, and is left out.)
CustomerBalanced ==
    (\A p \in db.credits : p.live) => db.owed = Sum(Moved) - SumFunctionOnSet([t \in Returns |-> CreditOf(t)], Returns)

\* A return's credit settles no more than its amount and never more than an
\* invoice has open; the amount paid of an invoice on which nothing was
\* cancelled is what was paid at the sale and by credits, less its notes - but for
\* notes that are being issued, or whose issuing a death or an error that nothing
\* looks at has cut short (credit_note.go:190-196).
CreditsSettle ==
    \A s \in Sales :
        LET credits == {p \in db.credits : p.sale = s}
            byHand  == {n \in HandNotes : db.notes[n].st # "unused" /\ db.notes[n].sale = s}
        IN  /\ db.sales[s].paid <= SaleTotal
            /\ \A p \in credits : p.amt <= db.returns[p.ret].amt
            /\ (\A p \in credits : p.live) /\ (\A n \in byHand : db.notes[n].st # "cancelled" /\ db.slips[n] = 0 /\ ~Busy(n)) =>
                  db.sales[s].paid = db.sales[s].cash + Sum(credits)
                                       - SumFunctionOnSet([n \in HandNotes |-> NoteOf(n, s)], HandNotes)

=============================================================================
