---------------------------- MODULE Receivables ----------------------------
(***************************************************************************)
(* Sales invoices, the payments received for them, the cash/bank rows and  *)
(* journals behind those payments, and the balance each party owes.        *)
(* (controllers/invoice.go, invoice_features.go, payment.go,               *)
(* cashbank_helpers.go, accounting_helpers.go)                             *)
(*                                                                         *)
(* Each HTTP request is a process.  What it reads outside a database       *)
(* transaction it keeps in req[c], as the handler keeps it in a local      *)
(* variable, and uses in later steps; a transaction is one step.           *)
(***************************************************************************)
EXTENDS PaymentSplits, FiniteSets

CONSTANTS
    Clients,        \* concurrent requests
    Parties,        \* customers
    Invoices,       \* sales invoices; an invoice is also its number
    None,           \* the nil invoice id
    Modes,          \* payment modes; "bank" is the only one with a stored balance
    Totals,         \* invoice totals a client may ask for
    Amounts,        \* amounts a client may pay
    SplitInputs,    \* payment_splits a client may send; << >> when omitted
    Statuses,       \* statuses a client may ask for
    Lates,          \* whether a due date may lie in the past
    Ops,            \* handlers in use
    Habits,         \* what else clients do: "delete_cancelled" also deletes
                    \* cancelled payments, "amount_with_cancel" also changes
                    \* the amount paid of a cancelled invoice
    Faults,         \* whether statements may fail and the server may crash
    MaxPay,         \* bound: payments ever created
    MaxOwed         \* bound: no request begins once a balance is beyond it

AllStatuses == {"draft", "sent", "paid", "partial", "overdue", "cancelled"}

ASSUME ReceivablesAssumption ==
    /\ IsFiniteSet(Invoices)
    /\ None \notin Invoices
    /\ Modes \subseteq {"cash", "bank", "initial_investment"}
    /\ Totals \subseteq Nat \ {0}
    /\ Amounts \subseteq Nat \ {0}
    /\ SplitInputs \subseteq Seq([mode : Modes, amt : Int])
    /\ Statuses \subseteq AllStatuses
    /\ Lates \subseteq BOOLEAN
    /\ Faults \in BOOLEAN
    /\ MaxPay \in Nat
    /\ MaxOwed \in Nat

VARIABLES
    inv,    \* the invoices table
    pay,    \* the payments table, by creation order
    row,    \* cash_transactions, by the payment that wrote the row
    bank,   \* bank_accounts.balance
    bal,    \* parties.balance
    gl,     \* receivable legs of the posted journals (ledgers table)
    req     \* the request each client is in

vars == << inv, pay, row, bank, bal, gl, req >>

PayIds == 1 .. MaxPay
NoRow == [st |-> "none"]
Idle  == [op |-> "idle"]

Sum(f(_), S) == SumFunction([x \in S |-> f(x)])
Gone         == [st |-> "deleted"]
NetIn(table) == LET Net(p) == table[p].net IN Sum(Net, DOMAIN table)
Rank(P, p)   == Cardinality({n \in P : n <= p})
Of(P)        == [p \in P |-> pay[p]]
NetOf(P)     == NetIn(Of(P))
Live(i)      == inv[i].doc = "live"
ActiveOf(i)  == {p \in PayIds : pay[p].st = "active" /\ pay[p].inv = i}

Init ==
    /\ inv  = [i \in Invoices |-> [doc |-> "unused"]]
    /\ pay  = [p \in PayIds |-> [st |-> "unused"]]
    /\ row  = [p \in PayIds |-> NoRow]
    /\ bank = 0
    /\ bal  = [q \in Parties |-> 0]
    /\ gl   = {}
    /\ req  = [c \in Clients |-> Idle]

-----------------------------------------------------------------------------
(* Invoice status and debit *)

Normalised_OffByOne(v) ==
    IF v.status \in {"cancelled", "draft"} THEN v.status
    ELSE IF v.paid > v.total               THEN "paid"
    ELSE IF v.paid > 0                     THEN "partial"
    ELSE IF v.late                         THEN "overdue"
    ELSE v.status

\* normalizeInvoicePaymentStatus
Normalised(v) ==
    IF v.status \in {"cancelled", "draft"} THEN v.status
    ELSE IF v.paid >= v.total              THEN "paid"
    ELSE IF v.paid > 0                     THEN "partial"
    ELSE IF v.late                         THEN "overdue"
    ELSE v.status

StatusForPaid_OffByOne(v, paid) ==
    IF v.status \in {"cancelled", "draft"} THEN v.status
    ELSE IF paid > v.total                 THEN "paid"
    ELSE IF v.late                         THEN "overdue"
    ELSE IF paid > 0                       THEN "partial"
    ELSE "sent"

\* invoiceStatusForPaidAmount
StatusForPaid(v, paid) ==
    IF v.status \in {"cancelled", "draft"} THEN v.status
    ELSE IF paid >= v.total                THEN "paid"
    ELSE IF v.late                         THEN "overdue"
    ELSE IF paid > 0                       THEN "partial"
    ELSE "sent"

\* invoicePartyDebit
Debit(v) == IF v.status = "cancelled" THEN 0 ELSE v.total

WithPaid(v, paid)      == [v EXCEPT !.paid = paid, !.status = StatusForPaid(v, paid)]
AtLeast0(n)            == IF n < 0 THEN 0 ELSE n

-----------------------------------------------------------------------------
(* Cash/bank rows and journals *)

Posted == {r \in PayIds : row[r].st = "posted"}

InvoiceRows_SaleTimeOnly(i) == {r \in Posted : row[r].inv = i /\ row[r].origin = "sale"}

\* findInvoiceCashTransactions: every row written under the invoice's number
InvoiceRows(i) == {r \in Posted : row[r].inv = i}

\* findPaymentCashTransactions: rows of receipts, by payment number
NumberRows(s) == {r \in Posted : row[r].origin = "receipt" /\ row[r].num = s.num}

FirstOf(R) == {r \in R : \A s \in R : r <= s}

\* The rows reversePaymentEffects takes for a payment s: those under its
\* number, else the invoice's oldest row of the same amount.
RowsFor(s) ==
    IF NumberRows(s) # {} \/ s.inv = None THEN NumberRows(s)
    ELSE IF ~Live(s.inv)                  THEN {}
    ELSE FirstOf({r \in InvoiceRows(s.inv) : row[r].amt = s.net})

BankAmt(r)  == IF row[r].mode = "bank" THEN row[r].amt ELSE 0
BankOf(R)   == Sum(BankAmt, R)
EquityMode(mode) == mode = "initial_investment"

Journal(kind, id, amt) == [kind |-> kind, id |-> id, amt |-> amt]

GlWithout_RecordsOnly(R, P) ==
    {j \in gl : ~ (j.kind = "payment_in_record" /\ j.id \in P)}
GlWithout_RowsOnly(R, P) == {j \in gl : ~ (j.kind = "payment_in" /\ j.id \in R)}

\* reverseAccountingByRef for the rows R and the payments P
GlWithout(R, P) ==
    {j \in gl : /\ ~ (j.kind = "payment_in" /\ j.id \in R)
                /\ ~ (j.kind = "payment_in_record" /\ j.id \in P)}

RowsWithout_Kept(R) == [r \in PayIds |-> row[r]]

\* reverseCashAddTransaction for every row of R
RowsWithout(R) == [r \in PayIds |-> IF r \in R THEN NoRow ELSE row[r]]

\* The payments P deleted, or cancelled unless they are deleted already.
PayDeleted(P)   == [p \in PayIds |-> IF p \in P THEN Gone ELSE pay[p]]
PayCancelled(P) == [p \in PayIds |-> IF p \in P /\ pay[p] # Gone
                                     THEN [pay[p] EXCEPT !.st = "cancelled"] ELSE pay[p]]

Credited(balances, q, amount) == [balances EXCEPT ![q] = @ + amount]

NextNumber_FromZero(table) == Cardinality({n \in PayIds : table[n].st # "unused"})

\* allocateUniquePaymentInNumber: one past the largest number in use
NextNumber(table) ==
    LET used == {table[p].num : p \in {n \in PayIds :
                                  table[n].st \in {"active", "cancelled"}}}
    IN  1 + (IF used = {} THEN 0 ELSE Max(used))

\* Ids no payment has had yet, in the order they will be used.
Fresh    == {p \in PayIds : \A n \in PayIds : pay[n].st # "unused" => n < p}
Place(p) == Rank(Fresh, p)

-----------------------------------------------------------------------------
(* Transactions *)

\* createLinkedSalePaymentIn: one payment per split, with its cash row and
\* journal, owed by party q.  The same transaction has deleted the payments P
\* and the rows R, and given the amount of P back to the party `freed`.
Repost(P, R, freed, splits, i, q) ==
    LET new       == {p \in Fresh : Place(p) <= Len(splits)}
        kept      == PayDeleted(P)
        mode(p)   == splits[Place(p)].mode
        amt(p)    == splits[Place(p)].amt
        cash      == {p \in new : ~ EquityMode(mode(p))}
        toBank(p) == IF mode(p) = "bank" THEN amt(p) ELSE 0
    IN  /\ Cardinality(Fresh) >= Len(splits)
        /\ pay' = [p \in PayIds |->
                     IF p \in new
                     THEN [st |-> "active", inv |-> i, party |-> q,
                           net |-> amt(p), mode |-> mode(p),
                           num |-> NextNumber(kept) + Place(p) - 1,
                           origin |-> "sale"]
                     ELSE kept[p]]
        /\ row' = [p \in PayIds |->
                     IF p \in cash
                     THEN [st |-> "posted", origin |-> "sale", inv |-> i,
                           mode |-> mode(p), amt |-> amt(p)]
                     ELSE RowsWithout(R)[p]]
        /\ bank' = bank - BankOf(R) + Sum(toBank, new)
        /\ gl' = GlWithout(R, P)
                   \cup {Journal("payment_in", p, amt(p)) : p \in cash}
                   \cup {Journal("payment_in_record", p, amt(p)) : p \in new \ cash}
        /\ bal' = Credited(Credited(bal, freed, NetOf(P)), q, - Sum(amt, new))

\* reversePaymentEffects for payments of one invoice or of none, as read
\* before (a function from payment id to record), with their cash rows R.
ReversePayments(read, R) ==
    LET P       == DOMAIN read
        of(i)   == {p \in P : read[p].inv = i}
        from(q) == [p \in {n \in P : read[n].party = q} |-> read[p]]
    IN  /\ row'  = RowsWithout(R)
        /\ bank' = bank - BankOf(R)
        /\ gl'   = GlWithout(R, P)
        /\ inv'  = [i \in Invoices |->
                      IF of(i) # {} /\ Live(i)
                      THEN WithPaid(inv[i], AtLeast0(inv[i].paid - NetIn(read)))
                      ELSE inv[i]]
        /\ bal'  = [q \in Parties |-> bal[q] + NetIn(from(q))]

-----------------------------------------------------------------------------
(* Requests *)

Bounded         == \A q \in Parties : - MaxOwed <= bal[q] /\ bal[q] <= MaxOwed
Begin(c, op)    == req[c] = Idle /\ op \in Ops /\ Bounded
At(c, op, step) == req[c].op = op /\ req[c].step = step
Now(c, r)       == req' = [req EXCEPT ![c] = r]
With(r, f, x)   == [g \in DOMAIN r \cup {f} |-> IF g = f THEN x ELSE r[g]]
Then(c, step)   == req' = [req EXCEPT ![c].step = step]
Done(c)         == req' = [req EXCEPT ![c] = Idle]

BooksSame == UNCHANGED << pay, row, bank, gl >>

(* CreateInvoice *)

CreateInvoice(c) ==
    /\ Begin(c, "create_invoice")
    /\ \E i \in Invoices, q \in Parties, total \in Totals, paid \in Amounts \cup {0},
          status \in Statuses, mode \in Modes, input \in SplitInputs, late \in Lates :
         LET splits == FinalSplits(status, total, paid, mode, input, << >>)
             new    == [doc |-> "live", party |-> q, total |-> total,
                        paid |-> SplitsTotal(splits), status |-> status,
                        mode |-> FirstMode(splits, mode), late |-> late]
             saved  == [new EXCEPT !.status = Normalised(new)]
         IN  /\ inv[i].doc = "unused"
             /\ inv' = [inv EXCEPT ![i] = saved]
             /\ Now(c, [op |-> "create_invoice", step |-> "loyalty", i |-> i,
                        v |-> saved, splits |-> splits, owed |-> bal[q]])
    /\ UNCHANGED bal /\ BooksSame

\* The loyalty transaction succeeds, or it fails and the invoice is deleted.
ApplyLoyalty(c) ==
    /\ At(c, "create_invoice", "loyalty")
    /\ \/ Then(c, "journal") /\ UNCHANGED inv
       \/ Faults /\ inv' = [inv EXCEPT ![req[c].i] = [doc |-> "deleted"]] /\ Done(c)
    /\ UNCHANGED bal /\ BooksSame

\* A journal that cannot be posted is logged and skipped.
PostInvoiceJournal(c) ==
    /\ At(c, "create_invoice", "journal")
    /\ \/ gl' = gl \cup {Journal("invoice", req[c].i, req[c].v.total)}
       \/ Faults /\ UNCHANGED gl
    /\ Then(c, IF req[c].v.paid > 0 THEN "pay" ELSE "party")
    /\ UNCHANGED << inv, pay, row, bank, bal >>

\* So is a payment transaction that fails.
PayInvoice(c) ==
    /\ At(c, "create_invoice", "pay")
    /\ LET v == req[c].v
       IN  \/ Repost({}, {}, v.party, req[c].splits, req[c].i, v.party)
           \/ Faults /\ UNCHANGED bal /\ BooksSame
    /\ Then(c, "party")
    /\ UNCHANGED inv

\* Had the handler written the balance it read with the party at the start.
DebitParty_Stale(c) ==
    /\ At(c, "create_invoice", "party")
    /\ bal' = [bal EXCEPT ![req[c].v.party] = req[c].owed + Debit(req[c].v)]
    /\ Done(c)
    /\ UNCHANGED inv /\ BooksSame

\* An atomic increment, not a write of the balance read with the party.
DebitParty(c) ==
    /\ At(c, "create_invoice", "party")
    /\ bal' = Credited(bal, req[c].v.party, Debit(req[c].v))
    /\ Done(c)
    /\ UNCHANGED inv /\ BooksSame

(* UpdateInvoice and UpdateInvoiceStatus *)

Nth(P, k)   == CHOOSE p \in P : Rank(P, p) = k
SplitsOf(P) == Merged([k \in 1 .. Cardinality(P) |->
                         LET p == Nth(P, k) IN [mode |-> pay[p].mode, amt |-> pay[p].net]])

\* attachInvoicePaymentSplits
Attached(i) ==
    LET found == SplitsOf(ActiveOf(i))
    IN  IF found = << >> /\ inv[i].paid > 0
        THEN << [mode |-> inv[i].mode, amt |-> inv[i].paid] >> ELSE found

UpdateInvoice(c) ==
    /\ Begin(c, "update_invoice")
    /\ \E i \in Invoices :
         /\ Live(i) /\ inv[i].status # "cancelled"
         /\ Now(c, [op |-> "update_invoice", step |-> "save", i |-> i,
                    prev |-> inv[i], had |-> Attached(i)])
    /\ UNCHANGED << inv, bal >> /\ BooksSame

\* Once an invoice is newly cancelled its payments are; else they follow it,
\* unless it was cancelled before.
AfterSave(prev, v) ==
    IF v.status # "cancelled" THEN "ledger"
    ELSE IF prev.status # "cancelled" THEN "find" ELSE "party"

\* gorm's Save writes every column; when the row was deleted meanwhile it
\* inserts it again.
SaveUpdatedInvoice(c) ==
    /\ At(c, "update_invoice", "save")
    /\ \E q \in Parties, total \in Totals, paid \in Amounts \cup {0},
          status \in Statuses, mode \in Modes, input \in SplitInputs, late \in Lates :
         LET r      == req[c]
             splits == FinalSplits(status, total, paid, mode, input, r.had)
             new    == [doc |-> "live", party |-> q, total |-> total,
                        paid |-> SplitsTotal(splits), status |-> status,
                        mode |-> FirstMode(splits, mode), late |-> late]
             saved  == [new EXCEPT !.status = Normalised(new)]
         IN  /\ status = "cancelled" =>
                  "amount_with_cancel" \in Habits \/ saved.paid <= r.prev.paid
             /\ inv' = [inv EXCEPT ![r.i] = saved]
             /\ Now(c, [op |-> "update_invoice", step |-> AfterSave(r.prev, saved),
                        i |-> r.i, prev |-> r.prev, had |-> r.had,
                        v |-> saved, splits |-> splits])
    /\ UNCHANGED bal /\ BooksSame

UpdateInvoiceStatus(c) ==
    /\ Begin(c, "patch_status")
    /\ \E i \in Invoices :
         /\ Live(i)
         /\ Now(c, [op |-> "patch_status", step |-> "save", i |-> i, prev |-> inv[i]])
    /\ UNCHANGED << inv, bal >> /\ BooksSame

\* amount_paid is optional: leaving it out keeps what was read.
SavePatchedStatus(c) ==
    /\ At(c, "patch_status", "save")
    /\ \E status \in Statuses, paid \in Amounts \cup {0, req[c].prev.paid} :
         LET r     == req[c]
             sent  == paid # r.prev.paid
             new   == [r.prev EXCEPT
                         !.status = status,
                         !.late   = IF Live(r.i) THEN inv[r.i].late ELSE @,
                         !.paid   = IF status = "paid" THEN @
                                    ELSE IF sent THEN Lesser(paid, r.prev.total) ELSE @]
             full  == IF status = "paid" THEN [new EXCEPT !.paid = new.total] ELSE new
             saved == [full EXCEPT !.status = Normalised(full)]
         IN  /\ status = "cancelled" => "amount_with_cancel" \in Habits \/ ~sent
             /\ inv' = [inv EXCEPT ![r.i] = saved]
             /\ Now(c, [op |-> "patch_status", step |-> AfterSave(r.prev, saved),
                        i |-> r.i, prev |-> r.prev, v |-> saved])
    /\ UNCHANGED bal /\ BooksSame

\* cancelLinkedInvoicePayments reads the payments before its transaction.
FindLinkedPayments(c) ==
    /\ req[c] # Idle /\ req[c].step = "find"
    /\ Now(c, With([req[c] EXCEPT !.step = "cancel"], "read", Of(ActiveOf(req[c].i))))
    /\ UNCHANGED << inv, bal >> /\ BooksSame

CancelLinkedPayments(c) ==
    /\ req[c] # Idle /\ req[c].step = "cancel"
    /\ LET read == req[c].read
       IN  /\ ReversePayments(read, InvoiceRows(req[c].i) \cup
                                    UNION {NumberRows(read[p]) : p \in DOMAIN read})
           /\ pay' = PayCancelled(DOMAIN read)
    /\ Then(c, "party")

NeedsResync_MethodOnly(r) == r.prev.mode # r.v.mode \/ r.prev.party # r.v.party

\* invoiceCashLedgerNeedsResync
NeedsResync(r) ==
    \/ r.prev.paid # r.v.paid
    \/ r.prev.mode # r.v.mode
    \/ r.prev.party # r.v.party
    \/ r.op = "update_invoice" /\ Merged(r.had) # Merged(r.splits)

\* ledgerSplitsForInvoice: the splits of the edit, else those on file
LedgerSplits(r) ==
    LET found == SplitsOf(ActiveOf(r.i))
        kept  == IF r.op = "update_invoice" THEN Clamped(Merged(r.splits), r.v.paid)
                 ELSE IF r.prev.mode # r.v.mode \/ found = << >> THEN << >>
                 ELSE Adjusted(found, r.v.paid)
    IN  IF r.v.paid <= 0 THEN << >> ELSE Resolved(kept, r.v.mode, r.v.paid)

\* resyncLinkedInvoicePayments, rewriteLinkedInvoicePayments
ResyncLedger(c) ==
    /\ req[c] # Idle /\ req[c].step = "ledger"
    /\ LET r == req[c]
       IN  IF NeedsResync(r)
           THEN Repost(ActiveOf(r.i), InvoiceRows(r.i), r.prev.party,
                       LedgerSplits(r), r.i, r.v.party)
           ELSE UNCHANGED bal /\ BooksSame
    /\ Then(c, "party")
    /\ UNCHANGED inv

MoveDebit_OneParty(c) ==
    /\ At(c, "update_invoice", "party")
    /\ bal' = Credited(bal, req[c].v.party, Debit(req[c].v) - Debit(req[c].prev))
    /\ Done(c)
    /\ UNCHANGED inv /\ BooksSame

\* The debit leg moves from what the invoice was to what it is now.
MoveDebit(c) ==
    /\ At(c, "update_invoice", "party")
    /\ bal' = Credited(Credited(bal, req[c].prev.party, - Debit(req[c].prev)),
                       req[c].v.party, Debit(req[c].v))
    /\ Done(c)
    /\ UNCHANGED inv /\ BooksSame

\* adjustPartyBalance outside a transaction: read the balance ...
ReadBalance(c) ==
    /\ At(c, "patch_status", "party")
    /\ LET r     == req[c]
           delta == Debit(r.v) - Debit(r.prev)
       IN  IF delta = 0 THEN Done(c)
           ELSE Now(c, [op |-> "patch_status", step |-> "write",
                        q |-> r.v.party, balance |-> bal[r.v.party] + delta])
    /\ UNCHANGED << inv, bal >> /\ BooksSame

\* ... and write the sum
WriteBalance(c) ==
    /\ At(c, "patch_status", "write")
    /\ bal' = [bal EXCEPT ![req[c].q] = req[c].balance]
    /\ Done(c)
    /\ UNCHANGED inv /\ BooksSame

(* DeleteInvoice *)

DeleteInvoice(c) ==
    /\ Begin(c, "delete_invoice")
    /\ \E i \in Invoices :
         /\ Live(i)
         /\ Now(c, [op |-> "delete_invoice", step |-> "erase", i |-> i, v |-> inv[i]])
    /\ UNCHANGED << inv, bal >> /\ BooksSame

\* One transaction: reverseLinkedInvoicePayments, the invoice's journal, an
\* atomic decrement of the balance by the debit read before, the invoice.
EraseInvoice(c) ==
    /\ At(c, "delete_invoice", "erase")
    /\ LET r == req[c]
           P == ActiveOf(r.i)
           R == InvoiceRows(r.i)
       IN  /\ pay'  = PayDeleted(P)
           /\ row'  = RowsWithout(R)
           /\ bank' = bank - BankOf(R)
           /\ gl'   = {j \in GlWithout(R, P) : ~ (j.kind = "invoice" /\ j.id = r.i)}
           /\ bal'  = Credited(bal, r.v.party, NetOf(P) - Debit(r.v))
           /\ inv'  = [inv EXCEPT ![r.i] = [doc |-> "deleted"]]
    /\ Done(c)

-----------------------------------------------------------------------------
(* CreatePayment, DeletePayment, CancelPayment *)

\* The party, the payment number and the linked invoice are read first.
CreatePayment(c) ==
    /\ Begin(c, "create_payment")
    /\ \E q \in Parties, i \in Invoices \cup {None}, net \in Amounts, mode \in Modes :
         LET r == [op |-> "create_payment", step |-> "record", i |-> i, q |-> q,
                   net |-> net, mode |-> mode, num |-> NextNumber(pay), owed |-> bal[q]]
         IN  /\ i # None => Live(i) /\ inv[i].party = q
             /\ Now(c, IF i = None THEN r ELSE With(r, "v", inv[i]))
    /\ UNCHANGED << inv, bal >> /\ BooksSame

\* One transaction, writing the paid amount, the status and the balance
\* computed from what was read before it.
RecordPayment(c) ==
    /\ At(c, "create_payment", "record")
    /\ \E p \in FirstOf(Fresh) :
         LET r      == req[c]
             equity == EquityMode(r.mode)
         IN  /\ pay'  = [pay EXCEPT ![p] =
                           [st |-> "active", inv |-> r.i, party |-> r.q, net |-> r.net,
                            mode |-> r.mode, num |-> r.num, origin |-> "receipt"]]
             /\ gl'   = gl \cup {Journal("payment_in_record", p, r.net)}
             /\ row'  = IF equity THEN row
                        ELSE [row EXCEPT ![p] =
                                [st |-> "posted", origin |-> "receipt", inv |-> r.i,
                                 num |-> r.num, mode |-> r.mode, amt |-> r.net]]
             /\ bank' = IF r.mode = "bank" THEN bank + r.net ELSE bank
             /\ inv'  = IF r.i # None /\ Live(r.i)
                        THEN LET v == WithPaid([r.v EXCEPT !.late = inv[r.i].late],
                                               r.v.paid + r.net)
                             IN  [inv EXCEPT ![r.i].paid = v.paid, ![r.i].status = v.status]
                        ELSE inv
             /\ bal'  = [bal EXCEPT ![r.q] = r.owed - r.net]
    /\ Done(c)

\* Both read the payment before their transaction.  Only CancelPayment looks
\* at its status.
DeletePayment(c) ==
    /\ Begin(c, "delete_payment")
    /\ \E p \in PayIds :
         /\ \/ pay[p].st = "active"
            \/ pay[p].st = "cancelled" /\ "delete_cancelled" \in Habits
         /\ Now(c, [op |-> "delete_payment", step |-> "reverse",
                    read |-> Of({p})])
    /\ UNCHANGED << inv, bal >> /\ BooksSame

CancelPayment(c) ==
    /\ Begin(c, "cancel_payment")
    /\ \E p \in PayIds :
         /\ pay[p].st = "active"
         /\ Now(c, [op |-> "cancel_payment", step |-> "reverse",
                    read |-> Of({p})])
    /\ UNCHANGED << inv, bal >> /\ BooksSame

ReverseDeleted(c) ==
    /\ At(c, "delete_payment", "reverse")
    /\ \E p \in DOMAIN req[c].read : ReversePayments(req[c].read, RowsFor(req[c].read[p]))
    /\ pay' = PayDeleted(DOMAIN req[c].read)
    /\ Done(c)

ReverseCancelled(c) ==
    /\ At(c, "cancel_payment", "reverse")
    /\ \E p \in DOMAIN req[c].read : ReversePayments(req[c].read, RowsFor(req[c].read[p]))
    /\ pay' = PayCancelled(DOMAIN req[c].read)
    /\ Done(c)

-----------------------------------------------------------------------------
(* syncOverdueInvoices, run when invoices are listed *)

FindOverdue(c) ==
    /\ Begin(c, "sync_overdue")
    /\ LET stale == {i \in Invoices : /\ Live(i) /\ inv[i].late
                                      /\ inv[i].status \in {"sent", "partial"}
                                      /\ inv[i].total > inv[i].paid}
       IN  /\ stale # {}
           /\ Now(c, [op |-> "sync_overdue", step |-> "mark", ids |-> stale])
    /\ UNCHANGED << inv, bal >> /\ BooksSame

MarkOverdue(c) ==
    /\ At(c, "sync_overdue", "mark")
    /\ inv' = [i \in Invoices |-> IF i \in req[c].ids /\ Live(i)
                                  THEN [inv[i] EXCEPT !.status = "overdue"] ELSE inv[i]]
    /\ Done(c)
    /\ UNCHANGED bal /\ BooksSame

DueDatePasses ==
    /\ TRUE \in Lates
    /\ \E i \in Invoices : /\ Live(i) /\ ~ inv[i].late
                           /\ inv' = [inv EXCEPT ![i].late = TRUE]
    /\ UNCHANGED << bal, req >> /\ BooksSame

\* A statement fails and the handler returns, or the server dies.
Abort(c) ==
    /\ Faults /\ req[c] # Idle
    /\ Done(c)
    /\ UNCHANGED << inv, bal >> /\ BooksSame

Step(c) ==
    \/ CreateInvoice(c) \/ ApplyLoyalty(c) \/ PostInvoiceJournal(c)
    \/ PayInvoice(c) \/ DebitParty(c)
    \/ UpdateInvoice(c) \/ SaveUpdatedInvoice(c) \/ MoveDebit(c)
    \/ UpdateInvoiceStatus(c) \/ SavePatchedStatus(c)
    \/ ReadBalance(c) \/ WriteBalance(c)
    \/ FindLinkedPayments(c) \/ CancelLinkedPayments(c) \/ ResyncLedger(c)
    \/ DeleteInvoice(c) \/ EraseInvoice(c)
    \/ CreatePayment(c) \/ RecordPayment(c)
    \/ DeletePayment(c) \/ CancelPayment(c)
    \/ ReverseDeleted(c) \/ ReverseCancelled(c)
    \/ FindOverdue(c) \/ MarkOverdue(c)
    \/ Abort(c)

Next == DueDatePasses \/ \E c \in Clients : Step(c)

Spec == Init /\ [][Next]_vars

-----------------------------------------------------------------------------
(* Properties *)

Quiet == \A c \in Clients : req[c] = Idle

InvoiceType ==
    [doc : {"live"}, party : Parties, total : Totals, paid : Nat,
     status : AllStatuses, mode : Modes, late : BOOLEAN]
PaymentType ==
    [st : {"active", "cancelled"}, inv : Invoices \cup {None},
     party : Parties, net : Nat \ {0}, mode : Modes,
     num : Nat \ {0}, origin : {"sale", "receipt"}]
RowType ==
    [st : {"posted"}, origin : {"sale"}, inv : Invoices,
     mode : Modes, amt : Nat \ {0}]
    \cup [st : {"posted"}, origin : {"receipt"}, inv : Invoices \cup {None},
          num : Nat \ {0}, mode : Modes, amt : Nat \ {0}]

\* Types of the tables.
TypeOK ==
    /\ \A i \in Invoices : inv[i].doc \in {"unused", "deleted"} \/ inv[i] \in InvoiceType
    /\ \A p \in PayIds : pay[p].st \in {"unused", "deleted"} \/ pay[p] \in PaymentType
    /\ \A p \in PayIds : row[p] = NoRow \/ row[p] \in RowType
    /\ bank \in Int
    /\ bal \in [Parties -> Int]

\* The receivable journals of payments are exactly those of the payments and
\* rows on file: a receipt or an equity payment has one for its net amount
\* while it is active, a row written at sale time has one while it exists,
\* and nothing else has one.  (reverseAccountingByRef is called on every
\* path that ends a payment or removes a row.)
JournalsOf(kind, p) == {j \in gl : j.kind = kind /\ j.id = p}

PaymentJournalsExact ==
    \A p \in PayIds :
        JournalsOf("payment_in_record", p) =
            IF pay[p].st = "active" /\ (pay[p].origin = "receipt" \/ EquityMode(pay[p].mode))
            THEN {Journal("payment_in_record", p, pay[p].net)} ELSE {}

RowJournalsExact ==
    \A p \in PayIds :
        JournalsOf("payment_in", p) =
            IF row[p].st = "posted" /\ row[p].origin = "sale"
            THEN {Journal("payment_in", p, row[p].amt)} ELSE {}

JournalsExact == PaymentJournalsExact /\ RowJournalsExact

\* The stored bank balance is the sum of the bank rows on file
\* (recordSalePaymentIn, adjustBankAccountBalance, reverseCashAddTransaction).
BankMatchesRows == bank = BankOf(Posted)

\* When no request is under way a party owes the debits of its live invoices
\* less what its active payments brought (cashbank_helpers.go:470-477,
\* invoice.go:480-482).
OwedInvoices(q)  == {i \in Invoices : Live(i) /\ inv[i].party = q}
DebitOf(i)       == Debit(inv[i])
PaymentsOf(q)    == {p \in PayIds : pay[p].st = "active" /\ pay[p].party = q}

PartyBalanced ==
    Quiet => \A q \in Parties :
                 bal[q] = Sum(DebitOf, OwedInvoices(q)) - NetOf(PaymentsOf(q))

\* When no request is under way the paid amount of an invoice is what its
\* active payments add up to (payment.go:158-161, cashbank_helpers.go:576-587).
PaidMatchesPayments ==
    Quiet => \A i \in Invoices : Live(i) => inv[i].paid = NetOf(ActiveOf(i))

\* Cancelling an invoice cancels its payments, and reinstating it "leaves the
\* payments cancelled, so the invoice comes back unpaid"
\* (invoice_features.go:491-494): what a standing invoice counts as paid, an
\* active payment brought.
ReinstatedUnpaid ==
    Quiet => \A i \in Invoices :
                 Live(i) /\ inv[i].status # "cancelled" => inv[i].paid <= NetOf(ActiveOf(i))

\* When no request is under way an issued invoice says "paid" exactly when it
\* is covered (normalizeInvoicePaymentStatus, invoiceStatusForPaidAmount).
PaidMeansCovered ==
    Quiet => \A i \in Invoices :
                 Live(i) /\ inv[i].status \notin {"draft", "cancelled"} =>
                     (inv[i].status = "paid" <=> inv[i].paid >= inv[i].total)

\* When no request is under way the cash and the bank rows on file add up to
\* the active payments in that mode: reversing a payment "undoes every side
\* effect a payment-in created" (payment.go:255-258).
RowsInMode(m)     == {r \in Posted : row[r].mode = m}
PaymentsInMode(m) == {p \in PayIds : pay[p].st = "active" /\ pay[p].mode = m}
AmtOf(r)          == row[r].amt

RowsMatchPayments ==
    Quiet => \A m \in Modes \ {"initial_investment"} :
                 Sum(AmtOf, RowsInMode(m)) = NetOf(PaymentsInMode(m))

\* "A cancelled invoice no longer counts anywhere" (invoice_features.go:491):
\* when no request is under way it has no journal either.
CancelledOffLedger ==
    Quiet => \A i \in Invoices :
                 Live(i) /\ inv[i].status = "cancelled" => JournalsOf("invoice", i) = {}

\* No two payments on file carry the same number (payment.go:126-132, "Payment
\* number already exists").
NumbersUnique ==
    \A p, n \in {k \in PayIds : pay[k].st \in {"active", "cancelled"}} :
        pay[p].num = pay[n].num => p = n

\* When no request is under way the tables are whole, and journals, rows, the
\* bank and the payments tell one story.
BooksExact == TypeOK /\ JournalsExact /\ BankMatchesRows /\ RowsMatchPayments

\* When no request is under way the amount paid and the status of an invoice
\* follow its payments.
PaidExact == PaidMatchesPayments /\ PaidMeansCovered

\* Whatever the payment methods, the journals and the amounts paid are those of
\* the payments (payment_splits.go).
PaymentsExact == JournalsExact /\ PaidExact

=============================================================================
