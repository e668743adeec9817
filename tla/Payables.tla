------------------------------ MODULE Payables ------------------------------
(***************************************************************************)
(* Purchase bills, the payments made for them, the cash/bank rows and      *)
(* journals behind those payments, purchase returns and debit notes, and   *)
(* the balance of each vendor (negative while we owe it).                  *)
(* (controllers/purchase.go, payment_out.go, purchase_return.go,           *)
(* debit_note.go and the purchase half of cashbank_helpers.go)             *)
(*                                                                         *)
(* db is the database.  A handler first reads the document it works on,    *)
(* outside any transaction, and keeps the copy in req[r].seen; what it     *)
(* does inside a transaction is one step, written as a composition of      *)
(* operators from one state of the database to the next.                   *)
(***************************************************************************)
EXTENDS Integers, FiniteSets, FiniteSetsExt

CONSTANTS
    Requests,       \* concurrent requests
    Vendors,        \* parties the business buys from
    Bills,          \* purchase bills
    Numbers,        \* bill numbers; vendors choose them
    NumbersOf(_),   \* those a bill may carry
    Returns,        \* purchase returns
    Notes,          \* debit notes entered by hand
    None,           \* no bill
    Totals,         \* bill totals a client may ask for
    Amounts,        \* amounts paid, returned or noted
    Discounts,      \* discounts on a payment out
    Modes,          \* "bank" or "initial_investment"
    Statuses,       \* bill statuses a client may ask for
    Ops,            \* handlers in use
    PayDrafts,      \* whether clients pay for a draft, by an edit, a payment, a return ...
    Faults,         \* whether a request may die between two steps, and a note be issued by half
    MaxOuts         \* bound: payments out kept at any time

ASSUME PayablesAssumption ==
    /\ IsFiniteSet(Bills) /\ None \notin Bills
    /\ IsFiniteSet(Returns)
    /\ \A b \in Bills : NumbersOf(b) \subseteq Numbers
    /\ Modes \subseteq {"bank", "initial_investment"}
    /\ Totals \subseteq Nat \ {0}
    /\ Amounts \subseteq Nat \ {0}
    /\ Discounts \subseteq Nat
    /\ Statuses \subseteq {"draft", "unpaid", "partial", "paid"}
    /\ Returns \cap Notes = {}
    /\ MaxOuts \in Nat

VARIABLES
    db,     \* the tables
    req     \* the request each client has under way

vars == << db, req >>

Idle   == [op |-> "idle"]
Unused == [doc |-> "unused"]
Min2(a, b)   == IF a < b THEN a ELSE b
AtLeast0(n)  == IF n < 0 THEN 0 ELSE n

Init ==
    /\ db = [bills   |-> [b \in Bills |-> Unused],
             due     |-> [b \in Bills |-> 0], \* purchase_bills.balance_due
             outs    |-> {},                  \* payment_outs
             rows    |-> {},                  \* cash_transactions
             bank    |-> 0,                   \* bank_accounts.balance
             owed    |-> [v \in Vendors |-> 0],
             gl      |-> {},                  \* journal entries by reference
             returns |-> [t \in Returns |-> Unused],
             notes   |-> [n \in Notes \cup Returns |-> Unused],
             goods   |-> [t \in Returns |-> 0]]
    /\ req = [r \in Requests |-> Idle]

-----------------------------------------------------------------------------
(* Cash/bank rows, journals and balances *)

Net(o)        == o.amt - o.disc
NetOf(S)      == SumFunctionOnSet([o \in S |-> Net(o)], S)
GrossOf(S)    == SumFunctionOnSet([o \in S |-> o.amt], S)
Signed(row)   == IF row.dir = "in" THEN row.amt ELSE -row.amt
BankOf(rows)  == SumFunctionOnSet([x \in rows |-> Signed(x)], rows)

\* adjustPartyBalance
Owe(d, v, delta) == [d EXCEPT !.owed[v] = @ + delta]

\* recordPaymentCashTxn
PostRow(d, row) == [d EXCEPT !.rows = @ \cup {row}, !.bank = @ + Signed(row)]

Journal(d, kind, id, amt) ==
    [d EXCEPT !.gl = @ \cup {[kind |-> kind, id |-> id, amt |-> amt]}]

\* reverseAccountingByRef, for every id of a set
Unjournal(d, kind, ids) ==
    [d EXCEPT !.gl = {g \in @ : ~(g.kind = kind /\ g.id \in ids)}]

DropRows_KeepsBank(d, rows) ==
    Unjournal([d EXCEPT !.rows = @ \ rows], "payment_out", {row.no : row \in rows})

DropRows_KeepsJournal(d, rows) ==
    [d EXCEPT !.rows = @ \ rows, !.bank = @ - BankOf(rows)]

\* reverseCashReduceTransaction, for every row of a set
DropRows(d, rows) ==
    Unjournal([d EXCEPT !.rows = @ \ rows, !.bank = @ - BankOf(rows)],
              "payment_out", {row.no : row \in rows})

\* matched on the reference, which for a bill is its number
RowsOfOut_ByReference(d, no) == {row \in d.rows : row.dir = "out" /\ row.ref = no}

\* findPaymentCashTransactions: by the number in the description
RowsOfOut(d, no) == {row \in d.rows : row.dir = "out" /\ row.no = no}

\* the sweep of reverseLinkedPurchasePaymentOuts: by the bill's number
RowsOfBill(d, number) == {row \in d.rows : row.dir = "out" /\ row.ref = number}

OutsOf(d, b) == {o \in d.outs : o.live /\ o.bill = b}

\* allocateUniquePaymentOutNumber
NextNo(d) == 1 + Max({0} \cup {o.no : o \in d.outs})

-----------------------------------------------------------------------------
(* Payments made along with a bill *)

\* createLinkedPurchasePaymentOut; several splits are one payment here
PayLinked(d, b, bill, amt, mode) ==
    IF amt = 0 THEN d
    ELSE LET n    == NextNo(d)
             out  == [no |-> n, bill |-> b, vendor |-> bill.vendor, amt |-> amt, disc |-> 0,
                      mode |-> mode, refund |-> FALSE, live |-> TRUE, auto |-> TRUE]
             kept == [d EXCEPT !.outs = @ \cup {out}]
             paid == IF mode = "initial_investment"
                     THEN Journal(kept, "payment_out_record", n, amt)
                     ELSE Journal(PostRow(kept, [dir |-> "out", no |-> n, ref |-> bill.number, amt |-> amt]),
                                  "payment_out", n, amt)
         IN  Owe(paid, bill.vendor, amt)

ReverseLinked_OneParty(d, b, vendor, number) ==
    LET outs  == OutsOf(d, b)
        swept == DropRows(d, RowsOfBill(d, number))
    IN  [Unjournal(swept, "payment_out_record", {o.no : o \in outs}) EXCEPT !.outs = @ \ outs]

\* reverseLinkedPurchasePaymentOuts, given the vendor and number of before
ReverseLinked(d, b, vendor, number) ==
    LET outs  == OutsOf(d, b)
        swept == DropRows(d, RowsOfBill(d, number))
        gone  == [Unjournal(swept, "payment_out_record", {o.no : o \in outs})
                     EXCEPT !.outs = @ \ outs]
    IN  Owe(gone, vendor, -GrossOf(outs))

-----------------------------------------------------------------------------
(* Purchase bills *)

FinalPaid_AsEntered(st, total, paid) == Min2(paid, total)

\* finalizePurchaseBillPaymentSplits: what the splits resolve to
FinalPaid(st, total, paid) == IF st = "paid" THEN total ELSE Min2(paid, total)

\* a bill contributes its total to what we owe unless it is a draft
Contribution(bill) == IF bill.st = "draft" THEN 0 ELSE -bill.total

Bill(v, number, st, total, paid) ==
    [doc |-> "live", vendor |-> v, number |-> number, st |-> st, total |-> total,
     paid |-> FinalPaid(st, total, paid)]

StatusFor_Renamed(total, paid, else) ==
    IF paid >= total THEN "paid" ELSE IF paid > 0 THEN "partially_paid" ELSE else

\* status recomputed by the handlers that move paid_amount
StatusFor(total, paid, else) ==
    IF paid >= total THEN "paid" ELSE IF paid > 0 THEN "partial" ELSE else

SetPaid_StatusOnly(d, b, paid, due, st) ==
    IF b \in Bills /\ d.bills[b].doc = "live" THEN [d EXCEPT !.due[b] = due, !.bills[b].st = st] ELSE d

\* what is due is a column of its own; some handlers keep it from going below 0
SetPaid(d, b, paid, due, st) ==
    IF b \in Bills /\ d.bills[b].doc = "live"
    THEN [d EXCEPT !.bills[b].paid = paid, !.due[b] = due, !.bills[b].st = st]
    ELSE d

SaveBill(d, b, bill) == [d EXCEPT !.bills[b] = bill, !.due[b] = AtLeast0(bill.total - bill.paid)]

\* the transaction of CreatePurchaseBill
Created(d, b, bill, mode) ==
    LET kept == SaveBill(d, b, bill)
    IN  IF bill.st = "draft" THEN kept
        ELSE PayLinked(Owe(Journal(kept, "purchase_bill", b, bill.total), bill.vendor, -bill.total),
                       b, bill, bill.paid, mode)

\* CreatePurchaseBill; a retry with the same client_bill_id writes nothing
CreateBill(b, v, number, st, total, paid, mode) ==
    /\ "create_bill" \in Ops
    /\ db.bills[b].doc = "unused"
    /\ NextNo(db) <= MaxOuts
    /\ db' = Created(db, b, Bill(v, number, st, total, paid), mode)
    /\ UNCHANGED req

\* the transaction of UpdatePurchaseBill; old is the bill read before it
Edited(d, b, old, new, mode) ==
    LET saved    == SaveBill(d, b, new)
        reversed == ReverseLinked(saved, b, old.vendor, old.number)
        paid     == PayLinked(reversed, b, new, new.paid, mode)
        bare     == Unjournal(paid, "purchase_bill", {b})
        posted   == IF new.st = "draft" THEN bare ELSE Journal(bare, "purchase_bill", b, new.total)
    IN  Owe(Owe(posted, old.vendor, -Contribution(old)), new.vendor, Contribution(new))

Done(r) == req' = [req EXCEPT ![r] = Idle]

UpdateBill(r, v, number, st, total, paid, mode) ==
    LET b == req[r].id IN
    /\ req[r].op = "update_bill"
    /\ number \in NumbersOf(b)
    /\ st = "draft" => paid = 0 \/ PayDrafts
    /\ db.bills[b].doc = "live"              \* lockPurchaseBillRow
    /\ NextNo(db) <= MaxOuts
    /\ db' = Edited(db, b, req[r].seen, Bill(v, number, st, total, paid), mode)
    /\ Done(r)

\* "mark as paid" from the list page: three statements, each on its own
MarkSave(r) ==
    LET b == req[r].id IN
    /\ req[r].op = "mark_paid" /\ req[r].step = 1
    /\ db' = SetPaid(db, b, req[r].seen.total, 0, "paid")
    /\ req' = [req EXCEPT ![r].step = 2]

MarkReverse(r) ==
    /\ req[r].op = "mark_paid" /\ req[r].step = 2
    /\ db' = ReverseLinked(db, req[r].id, req[r].seen.vendor, req[r].seen.number)
    /\ req' = [req EXCEPT ![r].step = 3]

MarkPay(r, mode) ==
    /\ req[r].op = "mark_paid" /\ req[r].step = 3
    /\ NextNo(db) <= MaxOuts
    /\ db' = PayLinked(db, req[r].id, req[r].seen, req[r].seen.total, mode)
    /\ Done(r)

\* DeletePurchaseBill
DeleteBill(r) ==
    LET b == req[r].id  old == req[r].seen
        gone == [ReverseLinked(db, b, old.vendor, old.number) EXCEPT !.bills[b] = [doc |-> "deleted"]]
    IN
    /\ req[r].op = "delete_bill"
    /\ db' = Owe(Unjournal(gone, "purchase_bill", {b}), old.vendor, -Contribution(old))
    /\ Done(r)

-----------------------------------------------------------------------------
(* Payments out *)

\* CreatePaymentOut; old is the bill read before its transaction, if any
PaidOut(d, b, old, v, amt, disc, mode, refund) ==
    LET n    == NextNo(d)
        net  == amt - disc
        out  == [no |-> n, bill |-> b, vendor |-> v, amt |-> amt, disc |-> disc,
                 mode |-> mode, refund |-> refund, live |-> TRUE, auto |-> FALSE]
        kept == Journal([d EXCEPT !.outs = @ \cup {out}], "payment_out_record", n, net)
        cash == IF mode = "initial_investment" THEN kept
                ELSE PostRow(kept, [dir |-> "out", no |-> n, amt |-> net,
                                    ref |-> IF b = None THEN n ELSE old.number])
        bill == IF b = None THEN cash
                ELSE SetPaid(cash, b, old.paid + net, AtLeast0(old.total - (old.paid + net)),
                             StatusFor(old.total, old.paid + net, old.st))
    IN  IF refund THEN bill ELSE Owe(bill, v, net)

PayBill(r, amt, disc, mode) ==
    /\ req[r].op = "pay_bill"
    /\ amt > disc
    /\ NextNo(db) <= MaxOuts
    /\ db' = PaidOut(db, req[r].id, req[r].seen, req[r].seen.vendor, amt, disc, mode, FALSE)
    /\ Done(r)

\* a payment to no bill; refund: one tagged to a sales invoice or to a return
\* that settles in money, which leaves the party's balance alone
PayVendor(v, amt, disc, mode, refund) ==
    /\ "pay_vendor" \in Ops
    /\ amt > disc
    /\ NextNo(db) <= MaxOuts
    /\ db' = PaidOut(db, None, Unused, v, amt, disc, mode, refund)
    /\ UNCHANGED req

\* reversePaymentOutEffects
Reversed(d, o) ==
    LET swept == DropRows(Unjournal(d, "payment_out_record", {o.no}), RowsOfOut(d, o.no))
        bill  == IF o.bill \in Bills /\ d.bills[o.bill].doc = "live"
                 THEN LET paid == AtLeast0(d.bills[o.bill].paid - Net(o))
                      IN  SetPaid(swept, o.bill, paid, d.bills[o.bill].total - paid,
                                  StatusFor(d.bills[o.bill].total, paid, "unpaid"))
                 ELSE swept
    IN  IF o.refund THEN bill ELSE Owe(bill, o.vendor, -Net(o))

\* CancelPaymentOut; the status was looked at before the transaction
CancelOut(r) ==
    LET o == req[r].seen
        cancelled == {[x EXCEPT !.live = FALSE] : x \in {y \in db.outs : y.no = o.no}}
    IN
    /\ req[r].op = "cancel_out"
    /\ db' = [Reversed(db, o) EXCEPT !.outs = {x \in @ : x.no # o.no} \cup cancelled]
    /\ Done(r)

\* DeletePaymentOut
DeleteOut(r) ==
    LET o == req[r].seen IN
    /\ req[r].op = "delete_out"
    /\ db' = [Reversed(db, o) EXCEPT !.outs = {x \in @ : x.no # o.no}]
    /\ Done(r)

-----------------------------------------------------------------------------
(* Purchase returns *)

CreateReturn(t, b, v, amt, money) ==
    /\ "returns" \in Ops
    /\ db.returns[t].doc = "unused"
    /\ b # None => db.bills[b].doc = "live" /\ db.bills[b].vendor = v
    /\ db' = [db EXCEPT !.returns[t] = [doc |-> "live", st |-> "draft", bill |-> b, vendor |-> v,
                                        amt |-> amt, money |-> money]]
    /\ UNCHANGED req

\* UpdatePurchaseReturn and DeletePurchaseReturn: drafts only
ReviseReturn(t, money) ==
    /\ db.returns[t].doc = "live" /\ db.returns[t].st = "draft"
    /\ db' = [db EXCEPT !.returns[t].money = money]
    /\ UNCHANGED req

DeleteReturn(t) ==
    /\ db.returns[t].doc = "live" /\ db.returns[t].st = "draft"
    /\ db' = [db EXCEPT !.returns[t] = [doc |-> "deleted"]]
    /\ UNCHANGED req

ProcessReturn_StaysDraft(r) ==
    LET t == req[r].id IN
    /\ req[r].op = "process_return" /\ req[r].step = 1
    /\ db' = [db EXCEPT !.goods[t] = @ + 1]
    /\ req' = [req EXCEPT ![r].step = 2]

\* ProcessPurchaseReturn writes the goods out and saves the status, ...
ProcessReturn(r) ==
    LET t == req[r].id IN
    /\ req[r].op = "process_return" /\ req[r].step = 1
    /\ db' = [db EXCEPT !.goods[t] = @ + 1, !.returns[t] = [req[r].seen EXCEPT !.st = "processed"]]
    /\ req' = [req EXCEPT ![r].step = 2]

Settled_Uncapped(d, b, amt) ==
    IF b = None \/ (b # None /\ d.bills[b].doc # "live") THEN d
    ELSE LET bill == d.bills[b]
             paid == bill.paid + amt
         IN  SetPaid(d, b, paid, AtLeast0(bill.total - paid), StatusFor(bill.total, paid, "unpaid"))

\* settlePurchaseBillWithReturn, for the bill read just before: the cap is what
\* is stored as due
Settled(d, b, amt) ==
    IF b = None \/ (b # None /\ d.bills[b].doc # "live") THEN d
    ELSE LET bill == d.bills[b]
             paid == bill.paid + Min2(amt, d.due[b])
         IN  IF d.due[b] <= 0 THEN d
             ELSE SetPaid(d, b, paid, AtLeast0(bill.total - paid), StatusFor(bill.total, paid, "unpaid"))

\* ... then settles in money, or against the balance and the linked bill, ...
SettleReturn(r) ==
    LET t == req[r].seen IN
    /\ req[r].op = "process_return" /\ req[r].step = 2
    /\ IF t.money
       THEN /\ db' = PostRow(db, [dir |-> "in", no |-> req[r].id, ref |-> req[r].id, amt |-> t.amt])
            /\ Done(r)
       ELSE /\ db' = Settled(Owe(db, t.vendor, t.amt), t.bill, t.amt)
            /\ req' = [req EXCEPT ![r].step = 3]

\* ... and writes the debit note, already issued (issueDebitNoteForReturn)
NoteReturn(r) ==
    LET t == req[r].seen IN
    /\ req[r].op = "process_return" /\ req[r].step = 3
    /\ db' = [db EXCEPT !.notes[req[r].id] =
                 [doc |-> "live", st |-> "issued", bill |-> t.bill, amt |-> t.amt, auto |-> TRUE]]
    /\ Done(r)

-----------------------------------------------------------------------------
(* Debit notes *)

CreateNote(n, b, amt) ==
    /\ "notes" \in Ops
    /\ db.notes[n].doc = "unused" /\ db.bills[b].doc = "live"
    /\ db' = [db EXCEPT !.notes[n] = [doc |-> "live", st |-> "draft", bill |-> b, amt |-> amt, auto |-> FALSE]]
    /\ UNCHANGED req

DeleteNote(n) ==
    /\ db.notes[n].doc = "live" /\ db.notes[n].st = "draft"
    /\ db' = [db EXCEPT !.notes[n] = [doc |-> "deleted"]]
    /\ UNCHANGED req

\* IssueDebitNote lowers what counts as paid, raises what is due as it stands,
\* and leaves the status alone; the bill and the note are saved one after the
\* other, and nothing looks at the errors
Saved == IF Faults THEN SUBSET {"bill", "note"} ELSE {{"bill", "note"}}

IssueNote(r) ==
    LET n == req[r].seen IN
    /\ req[r].op = "issue_note"
    /\ \E saved \in Saved :
          LET d == IF "bill" \in saved /\ n.bill # None /\ db.bills[n.bill].doc = "live"
                   THEN [db EXCEPT !.bills[n.bill].paid = @ - n.amt, !.due[n.bill] = @ + n.amt] ELSE db
          IN  db' = IF "note" \in saved THEN [d EXCEPT !.notes[req[r].id] = [n EXCEPT !.st = "issued"]] ELSE d
    /\ Done(r)

\* CancelDebitNote gives back what an issued note entered by hand took
CancelNote(r) ==
    LET n == req[r].seen IN
    /\ req[r].op = "cancel_note"
    /\ db' = [(IF n.st = "issued" /\ ~n.auto /\ n.bill # None /\ db.bills[n.bill].doc = "live"
               THEN LET bill == db.bills[n.bill]
                    IN  SetPaid(db, n.bill, bill.paid + n.amt, bill.total - (bill.paid + n.amt),
                                StatusFor(bill.total, bill.paid + n.amt, "unpaid"))
               ELSE db)
                 EXCEPT !.notes[req[r].id] = IF @.doc = "live" THEN [@ EXCEPT !.st = "cancelled"] ELSE @]
    /\ Done(r)

-----------------------------------------------------------------------------
(* What a request reads before it acts, and its early refusals *)

Begin(r, op, id, seen) ==
    /\ op \in Ops
    /\ req[r] = Idle
    /\ req' = [req EXCEPT ![r] = [op |-> op, id |-> id, seen |-> seen, step |-> 1]]
    /\ UNCHANGED db

LoadBill(r, op, b) ==
    /\ db.bills[b].doc = "live"
    /\ op \in {"pay_bill", "mark_paid"} => PayDrafts \/ db.bills[b].st # "draft"
    /\ op = "delete_bill" => db.bills[b].st # "paid"
    /\ Begin(r, op, b, db.bills[b])

LoadOut(r, op, o) ==
    /\ o.live
    /\ Begin(r, op, o.no, o)

\* the bill a document points at is not a draft, or clients do not care
IsDraft(b)    == b # None /\ db.bills[b].doc = "live" /\ db.bills[b].st = "draft"
Settleable(b) == PayDrafts \/ ~IsDraft(b)

LoadReturn(r, t) ==
    /\ db.returns[t].doc = "live" /\ db.returns[t].st = "draft"
    /\ Settleable(db.returns[t].bill)
    /\ Begin(r, "process_return", t, db.returns[t])

LoadNote(r, op, n) ==
    /\ db.notes[n].doc = "live"
    /\ Settleable(db.notes[n].bill)
    /\ IF op = "issue_note" THEN db.notes[n].st = "draft" ELSE db.notes[n].st # "cancelled"
    /\ Begin(r, op, n, db.notes[n])

\* refused by a check, rolled back, or dead with the server
Drop(r) ==
    /\ req[r] # Idle
    /\ Faults \/ req[r].step = 1
    /\ Done(r)
    /\ UNCHANGED db

BillSteps(r) ==
    \/ \E b \in Bills, op \in {"update_bill", "mark_paid", "delete_bill", "pay_bill"} : LoadBill(r, op, b)
    \/ \E v \in Vendors, st \in Statuses, total \in Totals, paid \in {0} \cup Amounts, mode \in Modes :
          \E number \in Numbers : UpdateBill(r, v, number, st, total, paid, mode)
    \/ MarkSave(r)
    \/ MarkReverse(r)
    \/ \E mode \in Modes : MarkPay(r, mode)
    \/ DeleteBill(r)

OutSteps(r) ==
    \/ \E amt \in Amounts, disc \in Discounts, mode \in Modes : PayBill(r, amt, disc, mode)
    \/ \E o \in db.outs, op \in {"cancel_out", "delete_out"} : LoadOut(r, op, o)
    \/ CancelOut(r)
    \/ DeleteOut(r)

ReturnSteps(r) ==
    \/ \E t \in Returns : LoadReturn(r, t)
    \/ ProcessReturn(r)
    \/ SettleReturn(r)
    \/ NoteReturn(r)

NoteSteps(r) ==
    \/ \E n \in Notes \cup Returns, op \in {"issue_note", "cancel_note"} : LoadNote(r, op, n)
    \/ IssueNote(r)
    \/ CancelNote(r)

Next ==
    \/ \E b \in Bills, v \in Vendors, st \in Statuses, total \in Totals, paid \in {0} \cup Amounts, mode \in Modes :
          \E number \in NumbersOf(b) : CreateBill(b, v, number, st, total, paid, mode)
    \/ \E v \in Vendors, amt \in Amounts, disc \in Discounts, mode \in Modes, refund \in BOOLEAN :
          PayVendor(v, amt, disc, mode, refund)
    \/ \E t \in Returns, b \in Bills \cup {None}, v \in Vendors, amt \in Amounts, money \in BOOLEAN :
          CreateReturn(t, b, v, amt, money)
    \/ \E t \in Returns, money \in BOOLEAN : ReviseReturn(t, money)
    \/ \E t \in Returns : DeleteReturn(t)
    \/ \E n \in Notes, b \in Bills, amt \in Amounts : CreateNote(n, b, amt)
    \/ \E n \in Notes : DeleteNote(n)
    \/ \E r \in Requests : BillSteps(r) \/ OutSteps(r) \/ ReturnSteps(r) \/ NoteSteps(r) \/ Drop(r)

Spec == Init /\ [][Next]_vars

-----------------------------------------------------------------------------
(* Properties *)

Quiet      == \A r \in Requests : req[r] = Idle
Live(b)    == db.bills[b].doc = "live"
IsPosted(b) == Live(b) /\ db.bills[b].st # "draft"
LiveOuts   == {o \in db.outs : o.live}

BillType ==
    [doc : {"live"}, vendor : Vendors, number : Numbers, st : {"draft", "unpaid", "partial", "paid"},
     total : Totals, paid : Int]
OutType ==
    [no : 1 .. MaxOuts, bill : Bills \cup {None}, vendor : Vendors, amt : Nat \ {0}, disc : Discounts \cup {0},
     mode : Modes, refund : BOOLEAN, live : BOOLEAN, auto : BOOLEAN]
RowType ==
    [dir : {"in", "out"}, no : (1 .. MaxOuts) \cup Returns, amt : Nat \ {0},
     ref : Numbers \cup (1 .. MaxOuts) \cup Returns]
ReturnType ==
    [doc : {"live"}, st : {"draft", "processed"}, bill : Bills \cup {None}, vendor : Vendors,
     amt : Amounts, money : BOOLEAN]
NoteType ==
    [doc : {"live"}, st : {"draft", "issued", "cancelled"}, bill : Bills \cup {None}, amt : Amounts,
     auto : BOOLEAN]
Gone == {Unused, [doc |-> "deleted"]}

\* Every table holds records of its own shape.
TypeOK ==
    /\ \A b \in Bills : db.bills[b] \in BillType \cup Gone
    /\ db.outs \subseteq OutType
    /\ db.rows \subseteq RowType
    /\ \A t \in Returns : db.returns[t] \in ReturnType \cup Gone
    /\ \A n \in Notes \cup Returns : db.notes[n] \in NoteType \cup Gone
    /\ db.due \in [Bills -> Int]
    /\ db.bank \in Int
    /\ db.owed \in [Vendors -> Int]

\* While no request is under way the journals are exactly one purchase entry
\* per posted bill, at its present total, and one entry per active payment,
\* at what it moved: edits, reversals and deletions leave none behind.
JournalsExact ==
    Quiet =>
      db.gl = {[kind |-> "purchase_bill", id |-> b, amt |-> db.bills[b].total] : b \in {x \in Bills : IsPosted(x)}}
              \cup {[kind |-> IF o.auto /\ o.mode = "bank" THEN "payment_out" ELSE "payment_out_record",
                     id |-> o.no, amt |-> Net(o)] : o \in LiveOuts}

\* The stored bank balance is the sum of the rows kept for it, at all times.
BankMatchesRows == db.bank = BankOf(db.rows)

\* Every active payment from the bank has exactly one row, of its net amount,
\* and every outgoing row belongs to one: however a payment was created, and
\* whichever number its row carries, its reversal finds that row.
OneRowPerPayment ==
    Quiet =>
      {<< row.no, row.amt >> : row \in {x \in db.rows : x.dir = "out"}}
        = {<< o.no, Net(o) >> : o \in {x \in LiveOuts : x.mode = "bank"}}

\* What a vendor is owed: the totals of its posted bills, less what was paid
\* and not refunded, less what was returned against its balance.
Billed(b, v)   == IF IsPosted(b) /\ db.bills[b].vendor = v THEN db.bills[b].total ELSE 0
Returned(t, v) == LET x == db.returns[t]
                  IN  IF x.doc = "live" /\ x.st = "processed" /\ x.vendor = v /\ ~x.money THEN x.amt ELSE 0
BilledTo(v)    == SumFunctionOnSet([b \in Bills |-> Billed(b, v)], Bills)
PaidTo(v)      == NetOf({o \in LiveOuts : o.vendor = v /\ ~o.refund})
ReturnedTo(v)  == SumFunctionOnSet([t \in Returns |-> Returned(t, v)], Returns)
VendorBalanced == Quiet => \A v \in Vendors : db.owed[v] = PaidTo(v) + ReturnedTo(v) - BilledTo(v)

\* The amount paid of a bill that no return or note has touched is what its
\* active payments add up to.
Touched(b) == \/ \E t \in Returns : /\ db.returns[t].doc = "live" /\ db.returns[t].st = "processed"
                                    /\ db.returns[t].bill = b
              \/ \E n \in Notes : db.notes[n].doc = "live" /\ db.notes[n].st # "draft" /\ db.notes[n].bill = b
PaidMatchesPayments ==
    Quiet => \A b \in Bills :
        IsPosted(b) /\ ~Touched(b) => db.bills[b].paid = NetOf({o \in LiveOuts : o.bill = b})

\* A bill is marked paid only when its total is covered, unless a debit note
\* entered by hand took some of it away.
PaidMeansCovered ==
    Quiet => \A b \in Bills :
        Live(b) /\ db.bills[b].st = "paid" =>
            \/ db.bills[b].paid >= db.bills[b].total
            \/ \E n \in Notes : db.notes[n].doc = "live" /\ db.notes[n].st = "issued" /\ db.notes[n].bill = b

\* A return is processed once: its goods leave once and its note is issued.
ReturnedOnce ==
    \A t \in Returns :
        /\ db.goods[t] <= 1
        /\ Quiet /\ db.goods[t] = 1 /\ ~db.returns[t].money => db.notes[t] # Unused

\* What settlements are capped at is the column balance_due, which each handler
\* keeps in its own way: edits, payments and their reversals, settlements and
\* cancelled notes.  It still holds that settling a bill with a return never
\* counts more as paid than its total, unless more was counted before, or a
\* debit note entered by hand stands against the bill: issuing one raises what
\* is due even when the bill was overpaid (debit_note.go:191-192).  With Faults
\* a note that is still a draft may have raised it, too.
NotedByHand(b) == \E n \in Notes : db.notes[n].doc = "live" /\ db.notes[n].st = "issued" /\ db.notes[n].bill = b
NeverOversettled ==
    [][\A r \in Requests, b \in Bills :
          SettleReturn(r) /\ Live(b) /\ ~NotedByHand(b)
             => db'.bills[b].paid <= IF db.bills[b].paid > db.bills[b].total
                                     THEN db.bills[b].paid ELSE db.bills[b].total]_vars

\* The tables are whole, and journals, rows and the bank tell one story.
BooksExact == TypeOK /\ JournalsExact /\ BankMatchesRows /\ OneRowPerPayment

\* The amount paid and the status of a bill follow its payments, and a return
\* is taken off once.
PaidExact == PaidMatchesPayments /\ PaidMeansCovered /\ ReturnedOnce

=============================================================================
