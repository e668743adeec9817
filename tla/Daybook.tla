------------------------------ MODULE Daybook ------------------------------
(***************************************************************************)
(* Two importers of the migration that belong together: the daybook makes  *)
(* a document, its payments and its cash rows of every row, all of it in   *)
(* cash; the cash and bank statement then moves what it finds under a      *)
(* row's number to the account of the row's mode.  Both are run again when *)
(* they were cut short.  (controllers/migration_daybook.go,                *)
(* migration_cashbank_statement.go)                                        *)
(*                                                                         *)
(* A number is a pair of its prefix and what follows.  Every mode but cash *)
(* is mapped to the one bank account; dates and parties are left out but   *)
(* for the order of documents and the party of a row.                      *)
(***************************************************************************)
EXTENDS Integers, Sequences, FiniteSets, FiniteSetsExt

CONSTANTS
    Clerks,
    Book,           \* the rows of the daybook: [kind, no, party, total, n]
    Statement,      \* the rows of the statement: [kind, no, mode]
    Deaths,         \* whether the process may stop between two rows
    Meanwhile,      \* whether two imports run at a time
    MaxStarts       \* imports of each file

VARIABLES
    db,     \* the tables, and the balance of the bank account
    req     \* where every import is

vars == << db, req >>
Idle == [op |-> "idle"]
None == << >>
Files == {"book", "statement"}
RowsOf(f) == IF f = "book" THEN Book ELSE Statement

\* docs in the order they were made; leg is the account a record's own journal
\* books its money to, and none if it has no journal
Init ==
    /\ db = [docs |-> << >>, pays |-> {}, cash |-> {}, exps |-> {}, bank |-> 0,
             starts |-> [f \in Files |-> 0], ended |-> {}]
    /\ req = [c \in Clerks |-> Idle]

AccountOf(mode) == IF mode = "cash" THEN "hand" ELSE "bank"
Signed(t)       == IF t.typ = "add" THEN t.n ELSE 0 - t.n
SumBy(op(_), S) == MapThenSumSet(op, S)

-----------------------------------------------------------------------------
(* Reading *)

\* The statement works on the tables as they were when it began
Start(c, f) ==
    /\ req[c] = Idle /\ (Meanwhile \/ \A e \in Clerks : req[e] = Idle) /\ db.starts[f] < MaxStarts
    /\ req' = [req EXCEPT ![c] = [op |-> f, at |-> 1, d |-> db, moved |-> {}]]
    /\ db' = [db EXCEPT !.starts[f] = @ + 1, !.ended = @ \ {f}]

Row(c)    == RowsOf(req[c].op)[req[c].at]
At(c, f)  == req[c].op = f /\ req[c].at \in DOMAIN RowsOf(f)
Over(c)   == req' = [req EXCEPT ![c].at = @ + 1]
Kind(c, k) == At(c, "book") /\ Row(c).kind = k

End(c) ==
    /\ req[c] # Idle /\ req[c].at > Len(RowsOf(req[c].op))
    /\ db' = [db EXCEPT !.ended = @ \cup {req[c].op}]
    /\ req' = [req EXCEPT ![c] = Idle]

Die(c) == Deaths /\ req[c] # Idle /\ req' = [req EXCEPT ![c] = Idle] /\ UNCHANGED db

-----------------------------------------------------------------------------
(* What a row of the daybook leaves: each is one transaction *)

Numbered(dir, no) == {p \in db.pays : p.dir = dir /\ p.no = no}

\* The number of a payment that has none of its own
Fresh(dir, prefix) == << prefix, 1 + Cardinality({p \in db.pays : p.dir = dir /\ p.no[1] = prefix}) >>

Payment(i, dir, no, doc, n, leg) ==
    [id |-> << Cardinality(db.pays), i >>, dir |-> dir, no |-> no, ref |-> IF doc = None THEN no ELSE doc,
     doc |-> doc, n |-> n, mode |-> "cash", leg |-> leg]

CashRow(i, typ, n, desc, leg) ==
    [id |-> << Cardinality(db.cash), i >>, typ |-> typ, n |-> n, desc |-> desc, acct |-> "hand", leg |-> leg]

Document(kind, no, party, total, paid) ==
    [kind |-> kind, no |-> no, party |-> party, total |-> total, paid |-> paid, mode |-> "cash"]

Made(kind, no) == \E i \in DOMAIN db.docs : db.docs[i].kind = kind /\ db.docs[i].no = no

SaleRow(c) ==
    LET r  == Row(c)
        p  == Payment(1, "in", Fresh("in", "PIN"), r.no, r.n, "none")
        t  == CashRow(1, "add", r.n, << "sale", r.no >>, "hand")
    IN  /\ Kind(c, "sale") /\ Over(c)
        /\ db' = IF Made("sale", r.no) THEN db
                 ELSE [db EXCEPT !.docs = Append(@, Document("sale", r.no, r.party, r.total, r.n)),
                                 !.pays = IF r.n > 0 THEN @ \cup {p} ELSE @,
                                 !.cash = IF r.n > 0 THEN @ \cup {t} ELSE @]

BillRow(c) ==
    LET r  == Row(c)
        p  == Payment(1, "out", Fresh("out", "POUT"), r.no, r.n, "none")
        t  == CashRow(1, "reduce", r.n, << "pay", "out", p.no, r.no >>, "hand")
    IN  /\ Kind(c, "bill") /\ Over(c)
        /\ db' = IF Made("bill", r.no) THEN db
                 ELSE [db EXCEPT !.docs = Append(@, Document("bill", r.no, r.party, r.total, r.n)),
                                 !.pays = IF r.n > 0 THEN @ \cup {p} ELSE @,
                                 !.cash = IF r.n > 0 THEN @ \cup {t} ELSE @]

OpenOn(i) == db.docs[i].total - db.docs[i].paid

Owing(kind, party) ==
    {i \in DOMAIN db.docs : db.docs[i].kind = kind /\ db.docs[i].party = party /\ OpenOn(i) > 0}

Share_Each(S, i, n) == Min({n, OpenOn(i)})

\* The oldest documents take first
Share(S, i, n) == Max({0, Min({OpenOn(i), n - SumBy(OpenOn, {j \in S : j < i})})})

Rest_Small(S, n) == IF S = {} THEN n ELSE 0

\* What no document takes becomes a payment of its own
Rest(S, n) == Max({0, n - SumBy(OpenOn, S)})

\* dir "in" for receipts, "out" for payments; rest is the number of the remainder
Allocated(dir, kind, typ, no, party, n, restNo(_)) ==
    LET S    == {i \in Owing(kind, party) : Share(Owing(kind, party), i, n) > 0}
        all  == Owing(kind, party)
        rest == Rest(all, n)
        last == Len(db.docs) + 1
    IN  [db EXCEPT
           !.docs = [i \in DOMAIN @ |-> IF i \in S THEN [@[i] EXCEPT !.paid = @ + Share(all, i, n)] ELSE @[i]],
           !.pays = @ \cup {Payment(i, dir, no, db.docs[i].no, Share(all, i, n), "none") : i \in S}
                      \cup (IF rest > 0 THEN {Payment(last, dir, restNo(S), None, rest, "hand")} ELSE {}),
           !.cash = @ \cup {CashRow(i, typ, Share(all, i, n), << "pay", dir, no, db.docs[i].no >>, "hand") : i \in S}
                      \cup (IF rest > 0 THEN {CashRow(last, typ, rest, << "pay", dir, restNo(S), None >>, "none")}
                            ELSE {})]

PaymentInRow(c) ==
    LET r == Row(c)
        restNo(S) == IF S = {} THEN r.no ELSE Fresh("in", "PIN")
    IN  /\ Kind(c, "payin") /\ Over(c)
        /\ db' = IF Numbered("in", r.no) # {} THEN db
                 ELSE Allocated("in", "sale", "add", r.no, r.party, r.n, restNo)

PaymentOutRow(c) ==
    LET r == Row(c)
        restNo(S) == r.no
    IN  /\ Kind(c, "payout") /\ Over(c)
        /\ db' = IF Numbered("out", r.no) # {} THEN db
                 ELSE Allocated("out", "bill", "reduce", r.no, r.party, r.n, restNo)

ExpenseRow(c) ==
    LET r == Row(c) IN
    /\ Kind(c, "expense") /\ Over(c)
    /\ db' = IF \E e \in db.exps : e.no = r.no THEN db
             ELSE [db EXCEPT !.exps = @ \cup {[no |-> r.no, mode |-> "cash", leg |-> "hand"]},
                             !.cash = @ \cup {CashRow(1, "expense", r.n, << "expense", r.no >>, "none")}]

\* Add Money and Reduce Money
ManualRow(c, kind) ==
    LET r == Row(c) IN
    /\ Kind(c, kind) /\ Over(c)
    /\ db' = IF \E t \in db.cash : t.desc = << kind, r.no >> THEN db
             ELSE [db EXCEPT !.cash = @ \cup {CashRow(1, kind, r.n, << kind, r.no >>, "hand")}]

\* A refund is a payment under a number of its own, with the cash row of a sale or a purchase
RefundRow(c, kind, dir, typ, prefix) ==
    LET r  == Row(c)
        no == << prefix, r.no[2] >>
    IN  /\ Kind(c, kind) /\ Over(c)
        /\ db' = IF Numbered(dir, no) # {} THEN db
                 ELSE [db EXCEPT !.pays = @ \cup {Payment(1, dir, no, None, r.n, "none")},
                                 !.cash = @ \cup {CashRow(1, typ, r.n, << "refund", no >>, "hand")}]

SalesReturnRow(c)    == RefundRow(c, "sales_return", "out", "reduce", "SR")
PurchaseReturnRow(c) == RefundRow(c, "purchase_return", "in", "add", "PR")

-----------------------------------------------------------------------------
(* What a row of the statement moves *)

\* T with the payments P, the cash rows C and the expenses E settled by a mode
Settled(T, mode, docs, P, C, E) ==
    LET acct  == AccountOf(mode)
        Moved == {t \in C : t.acct # acct}
        Gain(t) == IF acct = "bank" THEN Signed(t) ELSE 0 - Signed(t)
        To(x) == IF x.leg = "none" THEN x ELSE [x EXCEPT !.leg = acct]
        IdsOf(S) == {x.id : x \in S}
    IN  [T EXCEPT
           !.docs = [i \in DOMAIN @ |-> IF << @[i].kind, @[i].no >> \in docs THEN [@[i] EXCEPT !.mode = mode] ELSE @[i]],
           !.pays = {IF p.id \in IdsOf({q \in P : q.mode # mode}) THEN To([p EXCEPT !.mode = mode]) ELSE p : p \in @},
           !.cash = {IF t.id \in IdsOf(Moved) THEN To([t EXCEPT !.acct = acct]) ELSE t : t \in @},
           !.exps = {IF e.no \in E THEN To([e EXCEPT !.mode = mode]) ELSE e : e \in @},
           !.bank = @ + SumBy(Gain, Moved)]

\* A cash row that an earlier row of the file has placed stays where it is
Move(c, mode, docs, P, C, E) ==
    LET d    == req[c].d
        left == {t \in C : t.id \notin req[c].moved}
    IN  /\ db' = Settled(db, mode, docs, P, left, E)
        /\ req' = [req EXCEPT ![c].at = @ + 1, ![c].moved = @ \cup {t.id : t \in left},
                              ![c].d = Settled(d, mode, docs, P, left, E)]

States(c, kind) == At(c, "statement") /\ Row(c).kind = kind
Paid(c, dir, no) == {p \in req[c].d.pays : p.dir = dir /\ p.no = no}
Described(c, descs) == {t \in req[c].d.cash : t.desc \in descs}
DescsOf(P) == UNION {{<< "pay", p.dir, p.no, None >>, << "pay", p.dir, p.no, p.ref >>} : p \in P}

\* Only the payments made with the invoice have numbers of this prefix
AtSale(c, dir, no, prefix) == {p \in req[c].d.pays : p.dir = dir /\ p.doc = no /\ p.no[1] = prefix}

StateSale(c) ==
    /\ States(c, "sale")
    /\ Move(c, Row(c).mode, {<< "sale", Row(c).no >>}, AtSale(c, "in", Row(c).no, "PIN"),
            Described(c, {<< "sale", Row(c).no >>}), {})

StateBill(c) ==
    LET P == AtSale(c, "out", Row(c).no, "POUT") IN
    /\ States(c, "bill")
    /\ Move(c, Row(c).mode, {<< "bill", Row(c).no >>}, P, Described(c, DescsOf(P)), {})

StatePayment(c, kind, dir) ==
    LET P == Paid(c, dir, Row(c).no) IN
    /\ States(c, kind)
    /\ Move(c, Row(c).mode, {}, P, Described(c, DescsOf(P)), {})

StatePaymentIn(c)  == StatePayment(c, "payin", "in")
StatePaymentOut(c) == StatePayment(c, "payout", "out")

StateExpense(c) ==
    /\ States(c, "expense")
    /\ Move(c, Row(c).mode, {}, {}, Described(c, {<< "expense", Row(c).no >>}), {Row(c).no})

StateManual(c, kind) ==
    /\ States(c, kind)
    /\ Move(c, Row(c).mode, {}, {}, Described(c, {<< kind, Row(c).no >>}), {})

StateRefund(c, kind, dir, prefix) ==
    LET no == << prefix, Row(c).no[2] >> IN
    /\ States(c, kind)
    /\ Move(c, Row(c).mode, {}, Paid(c, dir, no), Described(c, {<< "refund", no >>}), {})

-----------------------------------------------------------------------------
Next ==
    \E c \in Clerks :
        \/ \E f \in Files : Start(c, f)
        \/ End(c) \/ Die(c)
        \/ SaleRow(c) \/ BillRow(c) \/ PaymentInRow(c) \/ PaymentOutRow(c) \/ ExpenseRow(c)
        \/ \E kind \in {"add", "reduce"} : ManualRow(c, kind) \/ StateManual(c, kind)
        \/ SalesReturnRow(c) \/ PurchaseReturnRow(c)
        \/ StateSale(c) \/ StateBill(c) \/ StatePaymentIn(c) \/ StatePaymentOut(c) \/ StateExpense(c)
        \/ StateRefund(c, "sales_return", "out", "SR") \/ StateRefund(c, "purchase_return", "in", "PR")

Spec == Init /\ [][Next]_vars

-----------------------------------------------------------------------------
(* Properties: every row is a transaction, so they hold at all times *)

Amount(x) == x.n

\* The bank account holds what the cash rows placed in it add up to, however
\* often a statement moves them there and back: stmtReassignCashTxn.
BankExact == db.bank = SumBy(Signed, {t \in db.cash : t.acct = "bank"})

\* A document's paid amount is that of its payments, and never above its total:
\* the allocation to the oldest documents and markInvoicePaid, markPurchaseBillPaid.
PaidExact ==
    \A i \in DOMAIN db.docs :
        LET x == db.docs[i]
        IN  /\ x.paid = SumBy(Amount, {p \in db.pays : p.doc = x.no /\ (p.dir = "in") = (x.kind = "sale")})
            /\ x.paid <= x.total

\* The journal of a record is booked to the account its money is in: the
\* reversals and postings of the statement's rows.
LegsFollow ==
    /\ \A t \in db.cash : t.leg \in {"none", t.acct}
    /\ \A p \in db.pays : p.leg \in {"none", AccountOf(p.mode)}
    /\ \A e \in db.exps : e.leg = AccountOf(e.mode)

\* What was received is in payments, once and whole, however a receipt is
\* spread over invoices and however often the daybook is imported.
ReceiptsWhole ==
    LET Receipts == {i \in DOMAIN Book : Book[i].kind = "payin" /\ Numbered("in", Book[i].no) # {}}
        Of(i) == Book[i].n
        Ours == {p \in db.pays : p.dir = "in" /\ p.no[1] # "PR" /\ ~(p.no[1] = "PIN" /\ p.doc # None)}
    IN  SumBy(Amount, Ours) = SumBy(Of, Receipts)

DaybookExact == BankExact /\ PaidExact /\ LegsFollow /\ ReceiptsWhole

\* A statement that names another mode than cash for every row of the daybook
\* leaves nothing in hand: the statement updates how the money of every
\* transaction was settled.
AllSettled == db.ended = Files => \A t \in db.cash : t.acct = "bank"

=============================================================================
