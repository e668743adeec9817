------------------------------ MODULE Imports ------------------------------
(***************************************************************************)
(* The importers of the data migration: a file is read row by row, and     *)
(* every row is written by one statement or by several, each on its own.   *)
(* An importer that died half-way is started again with the same file.     *)
(* (controllers/migration.go, migration_imports.go, invoice_import.go,     *)
(* migration_sales_returns.go, migration_purchase_returns.go)              *)
(*                                                                         *)
(* A row names the record it is about by key: a category, an account, the  *)
(* batch of a product, an invoice or a bill.  Names, dates, links to the   *)
(* old documents and the parsing of cells are left out.                    *)
(***************************************************************************)
EXTENDS Integers, Sequences, FiniteSets, FiniteSetsExt

CONSTANTS
    Clerks, Files, Keys,
    RowsOf,         \* the rows of every file: [kind, key, n, paid, who, items]
    Zips,           \* files that stand for an archive of reports
    PartyRows,      \* rows of the table of parties
    Deaths,         \* whether the process may stop between two statements
    Meanwhile,      \* whether two imports run at a time
    MaxStarts,      \* bound: imports of one file
    MaxFails        \* bound: statements that fail

VARIABLES
    db,     \* the tables
    req     \* where every import is

vars == << db, req >>
Idle == [op |-> "idle"]

\* n records under a key: their total, the amount paid (a balance, a quantity),
\* and what the payments (the cash rows, the stock entries) make of it
Absent == [n |-> 0, total |-> 0, val |-> 0, log |-> 0, bal |-> 0]

Init ==
    \* ended: the files whose last import was read to its end with nothing failing;
    \* torn: the batches with an entry whose quantity was not taken
    /\ db = [t |-> [k \in Keys |-> Absent], parties |-> {}, returns |-> {},
             times  |-> [f \in Files |-> [i \in DOMAIN RowsOf[f] |-> 0]],
             starts |-> [f \in Files |-> 0], ended |-> {}, torn |-> {}, fails |-> 0]
    /\ req = [c \in Clerks |-> Idle]

Has(key) == db.t[key].n > 0

\* A purchase return is known by its vendor and its amount, whatever its number
SigOf(x) == [who |-> x.who, n |-> x.n]

-----------------------------------------------------------------------------
(* Reading a file *)

\* The numbers of the documents on file are read once, when the import begins
Start(c, f) ==
    /\ req[c] = Idle /\ (Meanwhile \/ \A d \in Clerks : req[d] = Idle) /\ db.starts[f] < MaxStarts
    /\ req' = [req EXCEPT ![c] = [op |-> "import", file |-> f, at |-> 1, step |-> 1, n |-> 0, on |-> {}, clean |-> TRUE,
                                     index |-> {k \in Keys : Has(k)},
                                     sigs |-> {SigOf(x) : x \in db.returns}]]
    /\ db' = [db EXCEPT !.starts[f] = @ + 1, !.ended = @ \ {f}]

Row(c) == RowsOf[req[c].file][req[c].at]

At(c, kinds, step) ==
    /\ req[c] # Idle /\ req[c].at \in DOMAIN RowsOf[req[c].file]
    /\ Row(c).kind \in kinds /\ req[c].step = step

NextRow(c) == [req EXCEPT ![c].at = @ + 1, ![c].step = 1, ![c].on = {}]

Indexed_Never(c, key) == req[c].index

\* What an import has made it finds again further down in the file
Indexed(c, key) == req[c].index \cup {key}

Finds(c, key) == key \in req[c].index

\* times counts the documents that were written for a row
Counted(t, c) == [t EXCEPT !.times[req[c].file][req[c].at] = @ + 1]

\* A row is over, or one more statement of it is
Over(c, to) == db' = to /\ req' = NextRow(c)
More(c, to) == db' = to /\ req' = [req EXCEPT ![c].step = @ + 1]
Made(c, to) == db' = to /\ req' = [req EXCEPT ![c].step = @ + 1, ![c].index = Indexed(c, Row(c).key)]

End(c) ==
    /\ req[c] # Idle /\ req[c].at > Len(RowsOf[req[c].file])
    /\ req' = [req EXCEPT ![c] = Idle]
    /\ db' = IF req[c].clean THEN [db EXCEPT !.ended = @ \cup {req[c].file}] ELSE db

\* importMyBillBookZIPRows reads the number of payments as a float64, which it
\* is not: the panic leaves the expenses out, and the job has failed
PanicsAt(c) ==
    /\ req[c].file \in Zips /\ Row(c).kind = "expense"
    /\ \E i \in 1..req[c].at : RowsOf[req[c].file][i].kind \in {"payin", "payout"}

Panic(c) ==
    /\ At(c, {"expense"}, 1) /\ PanicsAt(c)
    /\ req' = [req EXCEPT ![c] = Idle] /\ UNCHANGED db

Torn(c) == [db EXCEPT !.torn = @ \cup req[c].on]

Die(c) == Deaths /\ req[c] # Idle /\ req' = [req EXCEPT ![c] = Idle] /\ db' = Torn(c)

\* What fails after an invoice is stored is only logged, and so is a balance that
\* is not saved; anything else that fails is an error of its row, and its end
GoesOn(c) ==
    \/ Row(c).kind = "sale" /\ req[c].step = 2
    \/ Row(c).kind = "invoice" /\ req[c].step \in 2 .. 5
    \/ Row(c).kind = "cash" /\ req[c].step = 1

Fail(c) ==
    /\ req[c] # Idle /\ req[c].at \in DOMAIN RowsOf[req[c].file] /\ ~PanicsAt(c)
    /\ db.fails < MaxFails /\ db' = [Torn(c) EXCEPT !.fails = @ + 1]
    /\ req' = [ (IF ~GoesOn(c) THEN NextRow(c)
                ELSE [req EXCEPT ![c].on = {}, ![c].step =
                        \* without its entry no sale takes from a batch
                        IF Row(c).kind = "invoice" /\ @ = 2 THEN 4 ELSE @ + 1])
                EXCEPT ![c].clean = FALSE]

-----------------------------------------------------------------------------
(* Parties, categories, users, staff, accounts: skipped where they exist *)

\* importPartiesRows skips a party of the same name, balance and telephone
ImportParty(c) ==
    LET r == Row(c)
        p == [name |-> r.key, bal |-> r.n]
    IN  /\ At(c, {"party"}, 1)
        /\ IF \E q \in db.parties : q.p = p THEN Over(c, db)
           ELSE \E id \in PartyRows : /\ \A q \in db.parties : q.id # id
                                      /\ Over(c, [db EXCEPT !.parties = @ \cup {[id |-> id, p |-> p]}])

Master(c, kind) ==
    /\ At(c, {kind}, 1)
    /\ Over(c, IF Has(Row(c).key) THEN db ELSE [db EXCEPT !.t[Row(c).key].n = 1])

ImportCategory(c)        == Master(c, "category")
ImportExpenseCategory(c) == Master(c, "expense_category")
ImportUser(c)            == Master(c, "user")
ImportStaff(c)           == Master(c, "staff")

ImportAccount(c) ==
    LET r == Row(c) IN
    /\ At(c, {"account"}, 1)
    /\ Over(c, IF Has(r.key) THEN db
               ELSE [db EXCEPT !.t[r.key] = [Absent EXCEPT !.n = 1, !.total = r.n, !.val = r.n]])

-----------------------------------------------------------------------------
(* Cash and stock *)

\* The balance is saved before the row is written
CashBalance(c) ==
    LET r == Row(c) IN
    /\ At(c, {"cash"}, 1)
    /\ More(c, IF Has(r.key) THEN [db EXCEPT !.t[r.key].val = @ + r.n] ELSE db)

CashRow(c) ==
    LET r == Row(c) IN
    /\ At(c, {"cash"}, 2)
    /\ Over(c, Counted(IF Has(r.key) THEN [db EXCEPT !.t[r.key].log = @ + r.n] ELSE db, c))

Added_RowOnly(t, key, n) == [t EXCEPT !.t[key].n = 1, !.t[key].val = @ + n]

Added(t, key, n) == [t EXCEPT !.t[key].n = 1, !.t[key].val = @ + n, !.t[key].log = @ + n]

\* importInventoryRows: the stock row and its opening entry in a transaction
ImportInventory(c) ==
    /\ At(c, {"opening"}, 1)
    /\ Over(c, Counted(Added(db, Row(c).key, Row(c).n), c))

\* importStockSummaryRows makes the product it does not find; a product of the
\* same name at another price is another one
SummaryProduct(c) ==
    /\ At(c, {"summary"}, 1)
    /\ More(c, IF Has(Row(c).who) THEN db ELSE [db EXCEPT !.t[Row(c).who].n = 1])

\* ... and sets the quantity of the batch, without an entry
SummaryStock(c) ==
    /\ At(c, {"summary"}, 2)
    /\ Over(c, [db EXCEPT !.t[Row(c).key].n = 1, !.t[Row(c).key].val = Row(c).n])

-----------------------------------------------------------------------------
(* Documents *)

Document(r, paid) == [Absent EXCEPT !.n = 1, !.total = r.n, !.val = paid]

\* A second one of a number is added, not found: n counts them
Stored(t, key, d) == [t EXCEPT !.t[key] = [d EXCEPT !.n = t.t[key].n + 1]]

\* importPurchaseBillsRows
ImportBill(c) ==
    LET r == Row(c) IN
    /\ At(c, {"bill"}, 1)
    /\ IF Finds(c, r.key) THEN Over(c, db)
       ELSE /\ db' = Stored(db, r.key, Document(r, 0))
            /\ req' = [NextRow(c) EXCEPT ![c].index = Indexed(c, r.key)]

\* importSalesReturnsRows: the document only
ImportSalesReturn(c) ==
    LET r == Row(c) IN
    /\ At(c, {"sales_return"}, 1)
    /\ Over(c, IF Has(r.key) THEN db ELSE Stored(db, r.key, Document(r, 0)))

\* importPurchaseReturnsRows: the number gets a suffix where another return has it
ImportPurchaseReturn(c) ==
    LET r == Row(c)
        x == [no |-> << r.key, Cardinality({y \in db.returns : y.no[1] = r.key}) >>, who |-> r.who, n |-> r.n]
    IN  /\ At(c, {"purchase_return"}, 1)
        /\ IF SigOf(r) \in req[c].sigs THEN Over(c, db)
           ELSE /\ db' = [db EXCEPT !.returns = @ \cup {x}]
                /\ req' = [NextRow(c) EXCEPT ![c].sigs = @ \cup {SigOf(r)}]

\* importPurchasePaymentStatusRows: the bill is paid as the file says ...
SetStatus(c) ==
    LET r == Row(c) IN
    /\ At(c, {"status"}, 1)
    /\ IF Has(r.key) THEN More(c, [db EXCEPT !.t[r.key].total = r.n, !.t[r.key].val = r.paid])
       ELSE Over(c, db)

Unpaid_Fresh(r) == r.paid > 0 /\ db.t[r.key].log = 0 /\ \A f \in Files : db.starts[f] < 2

Unpaid(r) == r.paid > 0 /\ db.t[r.key].log = 0

\* ... and has a payment if it had none
AddStatusPayment(c) ==
    LET r == Row(c) IN
    /\ At(c, {"status"}, 2)
    /\ Over(c, IF Unpaid(r) THEN [db EXCEPT !.t[r.key].log = r.paid] ELSE db)

\* importSalesRows: the invoice, its journal, its payment
ImportSale(c) ==
    LET r == Row(c) IN
    /\ At(c, {"sale"}, 1)
    /\ IF Finds(c, r.key) THEN Over(c, db) ELSE Made(c, Stored(db, r.key, Document(r, r.paid)))

Named(who) == {q \in db.parties : q.p.name = who}

\* createImportedInvoice looks the party and the number up for every invoice
ImportInvoice(c) ==
    LET r == Row(c) IN
    /\ At(c, {"invoice"}, 1)
    /\ IF Has(r.key) \/ Named(r.who) = {} THEN Over(c, db) ELSE Made(c, Stored(db, r.key, Document(r, r.paid)))

\* applyInvoiceSaleStock: the entry of the sale, for a batch of the product the
\* line names ...
SellEntry(c) ==
    /\ At(c, {"invoice"}, 2)
    /\ IF Row(c).items = {} THEN db' = db /\ req' = [req EXCEPT ![c].step = 4]
       ELSE \E k \in Row(c).items :
               /\ db' = [db EXCEPT !.t[k].log = @ - Row(c).n]
               /\ req' = [req EXCEPT ![c].step = 3, ![c].on = {k}]

\* ... then the row of the batch, which is made if it is missing
SellStock(c) ==
    /\ At(c, {"invoice"}, 3)
    /\ \E k \in req[c].on : db' = [db EXCEPT !.t[k].n = 1, !.t[k].val = @ - Row(c).n]
    /\ req' = [req EXCEPT ![c].step = 4, ![c].on = {}]

PostImported(c) ==
    /\ At(c, {"sale"}, 2) \/ At(c, {"invoice"}, 4)
    /\ More(c, [db EXCEPT !.t[Row(c).key].bal = Row(c).n])

PayImported(c) ==
    LET r  == Row(c)
        to == [db EXCEPT !.t[r.key].log = @ + r.paid]
    IN  /\ At(c, {"sale"}, 3) \/ At(c, {"invoice"}, 5)
        /\ IF r.kind = "sale" THEN Over(c, to) ELSE More(c, to)

\* Only createImportedInvoice adds to what the party owes
OweImported(c) ==
    /\ At(c, {"invoice"}, 6)
    /\ \E q \in Named(Row(c).who) :
          Over(c, [db EXCEPT !.parties = (@ \ {q}) \cup {[q EXCEPT !.p.bal = @ + Row(c).n]}])

-----------------------------------------------------------------------------
(* Payments, expenses, items: every row is written *)

OpenOn(key) == Max({0, db.t[key].total - db.t[key].val})

Allocated_Whole(r) == r.n

\* importOnePaymentIn: an invoice that is found takes what is open on it
Allocated(r) == IF Has(r.key) /\ db.t[r.key].total > 0 THEN Min({r.n, OpenOn(r.key)}) ELSE r.n

ImportPayment(c) ==
    LET r == Row(c)
        n == IF r.kind = "payin" THEN Allocated(r) ELSE r.n
    IN  /\ At(c, {"payin", "payout"}, 1)
        /\ IF n = 0 THEN Over(c, db)
           ELSE LET to == Counted(IF Has(r.key) THEN [db EXCEPT !.t[r.key].log = @ + n] ELSE db, c)
                IN  IF Has(r.key) THEN db' = to /\ req' = [req EXCEPT ![c].step = 2, ![c].n = n]
                    ELSE Over(c, to)

\* markInvoicePaid, markPurchaseBillPaid
MarkPaid(c) ==
    /\ At(c, {"payin", "payout"}, 2)
    /\ Over(c, [db EXCEPT !.t[Row(c).key].val = @ + req[c].n])

ImportExpense(c) == At(c, {"expense"}, 1) /\ ~PanicsAt(c) /\ Over(c, Counted(db, c))

\* A line of a document that is found
Item(c, kind) == At(c, {kind}, 1) /\ Over(c, IF Has(Row(c).key) THEN Counted(db, c) ELSE db)

ImportPurchaseItem(c) == Item(c, "purchase_item")
ImportSalesItem(c)    == Item(c, "sales_item")

-----------------------------------------------------------------------------
Next ==
    \E c \in Clerks :
        \/ \E f \in Files : Start(c, f)
        \/ End(c) \/ Panic(c) \/ Die(c) \/ Fail(c)
        \/ ImportParty(c) \/ ImportCategory(c) \/ ImportExpenseCategory(c)
        \/ ImportUser(c) \/ ImportStaff(c) \/ ImportAccount(c)
        \/ CashBalance(c) \/ CashRow(c) \/ ImportInventory(c) \/ SummaryProduct(c) \/ SummaryStock(c)
        \/ ImportSalesReturn(c) \/ ImportPurchaseReturn(c)
        \/ ImportBill(c) \/ SetStatus(c) \/ AddStatusPayment(c)
        \/ ImportSale(c) \/ ImportInvoice(c) \/ SellEntry(c) \/ SellStock(c) \/ PostImported(c) \/ PayImported(c) \/ OweImported(c)
        \/ ImportPayment(c) \/ MarkPaid(c) \/ ImportExpense(c)
        \/ ImportPurchaseItem(c) \/ ImportSalesItem(c)

Spec == Init /\ [][Next]_vars

-----------------------------------------------------------------------------
(* Properties *)

RowsOfKind(f, kinds) == {i \in DOMAIN RowsOf[f] : RowsOf[f][i].kind \in kinds}

\* A number is on file once, however often its file is imported, whether the
\* imports ended or died, and though the file may name it twice: the lookups of
\* importSalesRows, importPurchaseBillsRows and createImportedInvoice.  The same
\* goes for returns, by what they are known by.
ImportedOnce ==
    /\ \A k \in Keys : db.t[k].n <= 1
    /\ \A x, y \in db.returns : SigOf(x) = SigOf(y) => x = y

\* A status report that was read to its end without an error of a row left no
\* bill of it paid without a payment, even if an earlier import of it died, or
\* failed, between the bill's update and the payment:
\* importPurchasePaymentStatusRows.
StatusBacked ==
    \A f \in db.ended : \A i \in RowsOfKind(f, {"status"}) :
        LET r == RowsOf[f][i] IN Has(r.key) /\ db.t[r.key].val > 0 => db.t[r.key].log > 0

\* No invoice is paid beyond its total, whatever the payments of a file
\* bring and however often they are imported: importOnePaymentIn.
NeverOverpaid ==
    \A f \in Files : \A i \in RowsOfKind(f, {"sale", "invoice"}) :
        LET t == db.t[RowsOf[f][i].key] IN t.val <= t.total

\* A quantity that no summary has set is what the stock entries say, through
\* imports that died and were run again, once no invoice is between the entry of
\* its sale and the row it takes from, or stopped there: importInventoryRows,
\* applyInvoiceSaleStock.
StockBacked ==
    \A f \in Files : \A i \in RowsOfKind(f, {"opening"}) :
        LET k == RowsOf[f][i].key
        IN  \/ k \in db.torn \/ \E c \in Clerks : req[c] # Idle /\ k \in req[c].on
            \/ \E g \in Files : \E j \in RowsOfKind(g, {"summary"}) : RowsOf[g][j].key = k
            \/ db.t[k].val = db.t[k].log

ImportsExact == ImportedOnce /\ StatusBacked /\ NeverOverpaid /\ StockBacked

\* Running an archive again writes no row of it a second time: the comment on
\* importMyBillBookZIPRows.
RerunSafe == \A f \in Zips : \A i \in DOMAIN RowsOf[f] : db.times[f][i] <= 1

=============================================================================
