------------------------------ MODULE StoreReset ------------------------------
(* Resetting a store (controllers/store.go, ResetStore): the rows of the      *)
(* store's owner are deleted scope by scope, in one transaction, in a         *)
(* database that holds foreign keys between the tables.  A row is a table, an *)
(* owner and the rows it refers to.  The rows of another owner matter because *)
(* some of them refer to this owner's parties, products and documents.        *)
(* Bounds: one row of a table for each owner besides the seeded ones,         *)
(* MaxRows rows entered before the first reset, Requests the sets of scopes   *)
(* asked for, MaxResets requests.  Groups are the sets of tables one          *)
(* behaviour is about.                                                        *)
EXTENDS Naturals, FiniteSets, Sequences, SequencesExt

CONSTANTS Groups, Requests, MaxRows, MaxResets

VARIABLES
    db,     \* the tables of this behaviour, and every row of them, those marked
            \* deleted by GORM included (Unscoped)
    req     \* the last reset: its scopes and its answer, the rows it found, and
            \* how many there have been

vars == << db, req >>

Owners == {"own", "other"}

-----------------------------------------------------------------------------
(* What refers to what: the foreign keys GORM declares for the models, the    *)
(* ones that may not be null first                                            *)

InvoiceKeys ==
    {<< "Invoice", "Party" >>, << "InvoiceItem", "Invoice" >>, << "Payment", "Party" >>}
InvoiceLinks ==
    {<< "InvoiceItem", "Product" >>, << "Payment", "Invoice" >>}
RefundKeys ==
    {<< "PaymentOut", "Party" >>}
RefundLinks ==
    {<< "PaymentOut", p >> : p \in {"PurchaseBill", "SalesReturn", "CreditNote", "Invoice"}}
PurchaseKeys ==
    {<< d, "Party" >> : d \in {"PurchaseOrder", "PurchaseReceipt", "PurchaseBill"}}
        \cup {<< "PurchaseOrderItem", "PurchaseOrder" >>, << "PurchaseReceiptItem", "PurchaseReceipt" >>,
              << "PurchaseBillItem", "PurchaseBill" >>}
JournalKeys ==
    {<< "JournalEntryLine", "JournalEntry" >>, << "JournalEntryLine", "Account" >>, << "Ledger", "Account" >>}
NoteKeys ==
    {<< d, "Party" >> : d \in {"CreditNote", "DebitNote"}}
        \cup {<< "CreditNoteItem", "CreditNote" >>, << "DebitNoteItem", "DebitNote" >>}
NoteLinks ==
    {<< "CreditNote", "Invoice" >>, << "CreditNote", "SalesReturn" >>, << "DebitNote", "PurchaseBill" >>}
LoyaltyKeys ==
    {<< "LoyaltyTransaction", "Party" >>}
LoyaltyLinks ==
    {<< "LoyaltyCard", "Party" >>}
ReturnKeys ==
    {<< d, "Party" >> : d \in {"SalesReturn", "PurchaseReturn"}}
        \cup {<< "SalesReturnItem", "SalesReturn" >>, << "PurchaseReturnItem", "PurchaseReturn" >>}
ReturnLinks ==
    {<< "SalesReturn", "Invoice" >>, << "SalesReturnItem", "Product" >>, << "PurchaseReturn", "PurchaseBill" >>}
StaffKeys ==
    {<< t, "Staff" >> : t \in {"Attendance", "Payroll", "StaffDeduction", "StaffAdvancePayment", "StaffExtraAmount"}}
        \cup {<< "PayrollPayment", "Payroll" >>}
StaffLinks ==
    {<< t, "BankAccount" >> : t \in {"Payroll", "PayrollPayment", "StaffExtraAmount"}}
ProductKeys ==
    {<< t, "Product" >> : t \in {"InventoryStock", "ProductImage", "ProductVariant", "StockTransferItem"}}
        \cup {<< "StockTransferItem", "StockTransfer" >>}
ProductLinks ==
    {<< "StockEntry", "Product" >>}
MoneyKeys ==
    {<< "ExpenseItem", "Expense" >>, << "ProfitDistribution", "Partner" >>}
MoneyLinks ==
    {<< t, "BankAccount" >> : t \in {"Expense", "CashTransaction", "ProfitDistribution"}}
PaperKeys ==
    {<< t, "Party" >> : t \in {"DeliveryChallan", "Quotation", "CustomerStatement", "CustomerPortalAccess", "SupportTicket"}}
        \cup {<< "DeliveryChallanItem", "DeliveryChallan" >>, << "QuotationItem", "Quotation" >>,
              << "QuotationVersion", "Quotation" >>, << "StatementTransaction", "CustomerStatement" >>}
PaperLinks ==
    {<< "DeliveryChallan", "Invoice" >>, << "QuotationItem", "Product" >>}
CampaignKeys ==
    {<< "EmailRecipient", "EmailMarketing" >>, << "SMSRecipient", "SMSMarketing" >>, << "WhatsAppRecipient", "WhatsAppMarketing" >>}
CampaignLinks ==
    {<< t, "Party" >> : t \in {"EmailRecipient", "SMSRecipient", "WhatsAppRecipient"}}

\* Columns that hold the other row's id without a foreign key: those that are
\* always set, those that may be null, and those of more than one kind of row
\* (ReferenceID, SourceID), which hold an id of the row's own owner
PlainKeys ==
    {<< "InvoiceStatusHistory", "Invoice" >>, << "CashMovement", "POSSession" >>,
     << "SerialNumber", "Product" >>, << "StockDailySnapshot", "Product" >>}
PlainLinks ==
    {<< t, "Invoice" >> : t \in {"StockEntry", "LoyaltyTransaction", "SerialNumber", "StatementTransaction", "Quotation", "GSTR1Data"}}
        \cup {<< t, "PurchaseBill" >> : t \in {"StockEntry", "InputTaxCredit"}}
        \cup {<< t, "POSSession" >> : t \in {"Invoice", "POSDraft"}}
        \cup {<< t, "BankAccount" >> : t \in {"Invoice", "PurchaseBill"}}
        \cup {<< t, "Warehouse" >> : t \in {"PurchaseBill", "POSSession", "StockEntry", "InventoryStock", "StockTransfer", "SerialNumber"}}
        \cup {<< t, "Expense" >> : t \in {"Payroll", "PayrollPayment", "StaffAdvancePayment", "StaffExtraAmount"}}
        \cup {<< t, "Payroll" >> : t \in {"StaffAdvancePayment", "StaffExtraAmount"}}
        \cup {<< "PurchaseBillItem", "Product" >>, << "POSDraft", "Party" >>, << "PurchaseBill", "PurchaseReceipt" >>,
              << "PurchaseReceipt", "PurchaseOrder" >>, << "DebitNote", "PurchaseReturn" >>}
Plain == PlainKeys \cup PlainLinks

Must ==
    InvoiceKeys \cup RefundKeys \cup PurchaseKeys \cup JournalKeys \cup NoteKeys \cup LoyaltyKeys \cup ReturnKeys
        \cup StaffKeys \cup ProductKeys \cup MoneyKeys \cup PaperKeys \cup CampaignKeys \cup PlainKeys

May ==
    InvoiceLinks \cup RefundLinks \cup NoteLinks \cup LoyaltyLinks \cup ReturnLinks \cup StaffLinks
        \cup ProductLinks \cup MoneyLinks \cup PaperLinks \cup CampaignLinks \cup PlainLinks

\* Lines and recipients carry no user of their own: theirs is the document's
Lines ==
    {"InvoiceItem", "PurchaseOrderItem", "PurchaseReceiptItem", "PurchaseBillItem", "CreditNoteItem", "DebitNoteItem",
     "SalesReturnItem", "PurchaseReturnItem", "DeliveryChallanItem", "QuotationItem", "QuotationVersion", "ExpenseItem",
     "StatementTransaction", "StockTransferItem", "JournalEntryLine", "CashMovement",
     "EmailRecipient", "SMSRecipient", "WhatsAppRecipient"}
Parts == {k \in Must : k[1] \in Lines /\ k[2] \notin {"Product", "Account"}}

\* A seeded row is referred to by none
Key(r) == << r.table, r.owner >>
Enforced(r) == {k \in r.refs : << r.table, k[1] >> \notin Plain}

-----------------------------------------------------------------------------
(* A transaction: the rows as they are within it, what stopped it, and the    *)
(* scopes its answer asks for                                                 *)

\* A statement that deletes the rows gone fails while another row refers to one
Delete(tx, gone) ==
    LET kept == tx.rows \ gone
        keys == {Key(r) : r \in {g \in gone : ~g.seeded}}
    IN  IF \E r \in kept : Enforced(r) \cap keys # {}
            THEN [tx EXCEPT !.out = "failed"]
            ELSE [tx EXCEPT !.rows = kept]

hardDeleteByUser(tx, t) == Delete(tx, {r \in tx.rows : r.table = t /\ r.owner = "own"})

pluckIDsByUser(tx, p) == {Key(r) : r \in {q \in tx.rows : q.table = p /\ q.owner = "own" /\ ~q.seeded}}

\* The rows of t that refer to a row of p the owner has now, whoever's they are
hardDeleteByFK(tx, t, p) ==
    Delete(tx, {r \in tx.rows : r.table = t /\ r.refs \cap pluckIDsByUser(tx, p) # {}})

\* The link of those rows to p is set to null
Detach(tx, t, p, whose) ==
    LET hit == {r \in tx.rows : r.table = t /\ r.owner \in whose}
        cut == IF whose = {"own"} THEN {<< p, o >> : o \in Owners} ELSE pluckIDsByUser(tx, p)
    IN  [tx EXCEPT !.rows = (@ \ hit) \cup {[r EXCEPT !.refs = @ \ cut] : r \in hit}]

\* refs are the tables asked about, with the scope that deletes their rows
ensureNoReferences(tx, p, refs) ==
    LET found == {q \in refs : \E r \in tx.rows : r.table = q[1] /\ r.refs \cap pluckIDsByUser(tx, p) # {}}
    IN  IF found = {} THEN tx ELSE [tx EXCEPT !.out = "refused", !.asks = {q[2] : q \in found}]

\* The steps a scope is made of
Own(tables)        == [i \in DOMAIN tables |-> [do |-> "own", table |-> tables[i], of |-> "", refs |-> {}]]
Children(p, t)     == << [do |-> "children", table |-> t, of |-> p, refs |-> {}] >>
Unlink(t, p)       == << [do |-> "unlink", table |-> t, of |-> p, refs |-> {}] >>
UnlinkOwn(t, p)    == << [do |-> "unlinkOwn", table |-> t, of |-> p, refs |-> {}] >>
Unless(p, t, s)    == << [do |-> "unless", table |-> "", of |-> p, refs |-> {<< t[i], s >> : i \in DOMAIN t}] >>
UnlessAny(p, refs) == << [do |-> "unless", table |-> "", of |-> p, refs |-> refs] >>

\* The transactions of the statements, anyone's, of the owner's parties
statementLines(tx) ==
    LET theirs == {Key(r) : r \in {q \in tx.rows : q.table = "CustomerStatement" /\ q.refs \cap pluckIDsByUser(tx, "Party") # {}}}
    IN  Delete(tx, {r \in tx.rows : r.table = "StatementTransaction" /\ r.refs \cap theirs # {}})

Step(tx, s) ==
    IF tx.out # "done" THEN tx
    ELSE CASE s.do = "own"       -> hardDeleteByUser(tx, s.table)
           [] s.do = "children"  -> hardDeleteByFK(tx, s.table, s.of)
           [] s.do = "unlink"    -> Detach(tx, s.table, s.of, Owners)
           [] s.do = "unlinkOwn" -> Detach(tx, s.table, s.of, {"own"})
           [] s.do = "lines"     -> statementLines(tx)
           [] s.do = "unless"    -> ensureNoReferences(tx, s.of, s.refs)

-----------------------------------------------------------------------------
(* The scopes, in the order they are wiped in                                 *)

SalesScope ==
    Children("Invoice", "InvoiceItem") \o Children("Invoice", "InvoiceStatusHistory")
    \o Children("SalesReturn", "SalesReturnItem") \o Children("CreditNote", "CreditNoteItem")
    \o Children("DeliveryChallan", "DeliveryChallanItem") \o Children("CustomerStatement", "StatementTransaction")
    \o Children("Quotation", "QuotationItem") \o Children("Quotation", "QuotationVersion")
    \o Own(<< "InvoiceStatusHistory", "Payment", "CreditNote", "SalesReturn", "DeliveryChallan", "CustomerStatement", "Quotation" >>)
    \o Unless("Invoice", << "Payment", "CreditNote", "SalesReturn", "DeliveryChallan" >>, "sales")
    \o Own(<< "Invoice", "SavedInvoiceTemplate", "InvoiceSettings", "InvoiceCustomFieldDefinition" >>)

Purchases ==
    Children("PurchaseOrder", "PurchaseOrderItem") \o Children("PurchaseReceipt", "PurchaseReceiptItem")
    \o Children("PurchaseBill", "PurchaseBillItem") \o Children("PurchaseReturn", "PurchaseReturnItem")
    \o Children("DebitNote", "DebitNoteItem")
    \o Own(<< "PaymentOut", "DebitNote", "PurchaseReturn" >>)
    \o Unless("PurchaseBill", << "PaymentOut", "DebitNote", "PurchaseReturn" >>, "purchases")
    \o Own(<< "PurchaseBill", "PurchaseReceipt", "PurchaseOrder" >>)

Expenses == Children("Expense", "ExpenseItem") \o Own(<< "Expense", "ExpenseCategory" >>)

Pos_SessionsFirst == Own(<< "POSSession", "POSDraft" >>) \o Children("POSSession", "CashMovement")
Pos == Children("POSSession", "CashMovement") \o Own(<< "POSSession", "POSDraft" >>)

Staff ==
    Own(<< "StaffAdvancePayment", "StaffDeduction", "StaffExtraAmount", "PayrollPayment", "Payroll", "Attendance" >>)
    \o Unless("Staff", << "Attendance", "Payroll", "StaffDeduction", "StaffAdvancePayment", "StaffExtraAmount" >>, "staff")
    \o Own(<< "Staff" >>)

Products ==
    Children("StockTransfer", "StockTransferItem") \o Own(<< "StockTransfer" >>)
    \o FlattenSeq([i \in 1 .. 6 |->
          LET t == << "StockEntry", "InventoryStock", "StockDailySnapshot", "ProductImage", "ProductVariant", "SerialNumber" >>[i]
          IN  Own(<< t >>) \o Children("Product", t)])
    \o Own(<< "StockSnapshotMeta", "StockOpeningOverride" >>)
    \o Unlink("InvoiceItem", "Product") \o Unlink("SalesReturnItem", "Product") \o Unlink("QuotationItem", "Product")
    \o UnlessAny("Product", {<< "StockTransferItem", "products" >>} \cup
                            {<< t, "sales" >> : t \in {"InvoiceItem", "SalesReturnItem", "QuotationItem"}})
    \o Own(<< "Product", "Warehouse", "Category" >>)

Settings ==
    Children("EmailMarketing", "EmailRecipient") \o Children("SMSMarketing", "SMSRecipient")
    \o Children("WhatsAppMarketing", "WhatsAppRecipient")
    \o Own(<< "EmailMarketing", "SMSMarketing", "WhatsAppMarketing", "LoyaltyTransaction", "LoyaltySettings", "Notification",
              "Draft", "OfflineQueue", "MediaFile", "CustomerPortalAccess", "CustomerPortalSettings", "SupportTicket",
              "MigrationJob" >>)

Accounting ==
    UnlinkOwn("Expense", "BankAccount") \o UnlinkOwn("Payroll", "BankAccount") \o UnlinkOwn("PayrollPayment", "BankAccount")
    \o UnlinkOwn("ProfitDistribution", "BankAccount")
    \o Children("JournalEntry", "JournalEntryLine")
    \o Own(<< "ProfitDistribution", "Partner", "CashTransaction", "PaymentMethodAccountMap", "BankReconciliation", "Ledger", "JournalEntry" >>)
    \o UnlessAny("BankAccount", {<< "CashTransaction", "accounting" >>, << "Expense", "expenses" >>, << "Payroll", "staff" >>})
    \o Own(<< "BankAccount" >>)
    \o Unless("Account", << "JournalEntryLine", "Ledger" >>, "accounting")
    \o Own(<< "Account" >>)

Gst == Own(<< "TaxPeriod", "InputTaxCredit", "GSTFilingStatus", "GSTR1Data", "GSTR3BData", "TaxExemption", "TaxRule", "TaxRate" >>)

\* What is only an attachment of a party goes with it, whoever's it is.  The
\* transactions of a statement go by the statement, not by its owner
PartyAttachments == << "LoyaltyTransaction", "CustomerPortalAccess", "SupportTicket", "EmailRecipient", "SMSRecipient", "WhatsAppRecipient" >>

PartyRefs ==
    << [do |-> "lines", table |-> "", of |-> "", refs |-> {}] >> \o Children("Party", "CustomerStatement")
    \o FlattenSeq([i \in 1 .. 6 |-> Children("Party", PartyAttachments[i])])

SalesPapers    == {"Invoice", "Payment", "CreditNote", "SalesReturn", "DeliveryChallan", "Quotation", "CustomerStatement"}
PurchasePapers == {"PurchaseOrder", "PurchaseReceipt", "PurchaseBill", "PurchaseReturn", "DebitNote", "PaymentOut"}

Parties ==
    PartyRefs
    \o UnlessAny("Party", {<< t, "sales" >> : t \in SalesPapers} \cup {<< t, "purchases" >> : t \in PurchasePapers}
                             \cup {<< PartyAttachments[i], "settings" >> : i \in 1 .. 6})
    \o Own(<< "Party" >>)

Order == << "sales", "purchases", "expenses", "pos", "staff", "products", "settings", "accounting", "gst", "parties", "audit" >>

Block ==
    [sales |-> SalesScope, purchases |-> Purchases, expenses |-> Expenses, pos |-> Pos, staff |-> Staff, products |-> Products,
     settings |-> Settings, accounting |-> Accounting, gst |-> Gst, parties |-> Parties, audit |-> Own(<< "AuditLog" >>)]

Scopes == DOMAIN Block

-----------------------------------------------------------------------------
(* The request                                                                *)

Seeded(t) == [table |-> t, owner |-> "own", seeded |-> TRUE, refs |-> {}]

\* What is written again once the scopes are empty: the chart of accounts, the
\* categories (with the accounts of the expense categories), the default vendor
Seeds(S) ==
    {Seeded(t) : t \in db.group \cap
        ((IF "accounting" \in S THEN {"Account"} ELSE {})
            \cup (IF "products" \in S THEN {"Category", "ExpenseCategory", "Account"} ELSE {})
            \cup (IF "parties" \in S THEN {"Party"} ELSE {}))}

wipeStoreOperationalData(from, S) ==
    LET steps == FlattenSeq([i \in DOMAIN Order |-> IF Order[i] \in S THEN Block[Order[i]] ELSE << >>])
    IN  FoldLeft(Step, [rows |-> from, out |-> "done", asks |-> {}], steps)

Init ==
    /\ db \in {[group |-> g, rows |-> {Seeded(t) : t \in g \cap {"Account", "Category", "ExpenseCategory", "Party"}}] : g \in Groups}
    /\ req = [out |-> "none", scopes |-> {}, asks |-> {}, was |-> db.rows, times |-> 0]

Entered == {r \in db.rows : ~r.seeded}

\* The other handlers write a row that refers to rows that are there
Enter(t, o) ==
    /\ req.times = 0
    /\ Cardinality(Entered) < MaxRows
    /\ << t, o >> \notin {Key(r) : r \in Entered}
    /\ \E refs \in SUBSET {Key(r) : r \in {q \in Entered : << t, q.table >> \in Must \cup May}} :
          /\ \A k1, k2 \in refs : k1[1] = k2[1] => k1 = k2
          /\ \A m \in Must : m[1] = t => \E k \in refs : k[1] = m[2]
          /\ \A k \in refs : << t, k[1] >> \in Parts \cup PlainLinks => k[2] = o
          /\ db' = [db EXCEPT !.rows = @ \cup {[table |-> t, owner |-> o, seeded |-> FALSE, refs |-> refs]}]
    /\ UNCHANGED req

\* One transaction: an error of any step, or of the database, undoes it all
ResetStore(S) ==
    /\ req.times < MaxResets
    /\ LET tx == wipeStoreOperationalData(db.rows, S)
       IN  /\ db' = [db EXCEPT !.rows = IF tx.out = "done" THEN tx.rows \cup Seeds(S) ELSE @]
           /\ req' = [out |-> tx.out, scopes |-> S, asks |-> tx.asks, was |-> db.rows, times |-> req.times + 1]

Next ==
    \/ \E t \in db.group, o \in Owners : Enter(t, o)
    \/ \E S \in Requests : ResetStore(S)

Spec == Init /\ [][Next]_vars

-----------------------------------------------------------------------------
(* Properties                                                                 *)

TypeOK ==
    /\ db.group \in Groups
    /\ \A r \in db.rows : r.table \in db.group /\ r.owner \in Owners /\ r.seeded \in BOOLEAN
    /\ req.out \in {"none", "done", "refused", "failed"} /\ req.scopes \subseteq Scopes /\ req.asks \subseteq Scopes
    /\ req.times \in 0 .. MaxResets

\* The plain columns of rows that a scope keeps while it deletes, without a
\* word, what they name: nothing unlinks or asks about them
Orphans ==
    {<< t, "Invoice" >> : t \in {"StockEntry", "LoyaltyTransaction", "SerialNumber", "GSTR1Data"}}
        \cup {<< t, "PurchaseBill" >> : t \in {"StockEntry", "InputTaxCredit"}}
        \cup {<< t, "Expense" >> : t \in {"Payroll", "PayrollPayment", "StaffAdvancePayment", "StaffExtraAmount"}}
        \cup {<< t, "BankAccount" >> : t \in {"Invoice", "PurchaseBill"}}
        \cup {<< t, "Warehouse" >> : t \in {"PurchaseBill", "POSSession"}}
        \cup {<< "Invoice", "POSSession" >>, << "PurchaseBillItem", "Product" >>, << "POSDraft", "Party" >>}

\* "Scope blocks run in dependency order so children are removed before the rows
\* they reference": no row is left that refers to one that is gone, but for the
\* owner's own rows of the Orphans.  A foreign key never dangles; of the columns
\* without one, InvoiceStatusHistory, CashMovement, SerialNumber and the others
\* of Plain outside Orphans go with their parent
\* (store.go, the comment of wipeStoreOperationalData)
NothingDangles ==
    \A r \in db.rows : \A k \in r.refs :
        k \in {Key(q) : q \in Entered} \/ (r.owner = "own" /\ << r.table, k[1] >> \in Orphans)

\* The keys of the owner's own rows that no scope deletes, unlinks or asks
\* about before it deletes what they refer to
Gaps ==
    {<< "PaymentOut", p >> : p \in {"SalesReturn", "CreditNote", "Invoice"}}
        \cup {<< "LoyaltyCard", "Party" >>, << "StaffExtraAmount", "BankAccount" >>}

\* The database itself refuses a reset only for another owner's rows or for one
\* of the Gaps; anything else is said to the user beforehand
\* (store.go, ensureNoReferences)
RefusedWithReason ==
    req.out = "failed" =>
        \/ \E r \in req.was : r.owner = "other" /\ \E k \in r.refs : k[2] = "own"
        \/ \E r \in req.was : \E k \in r.refs : r.owner = "own" /\ k[2] = "own" /\ << r.table, k[1] >> \in Gaps

\* "Also select": when all rows are the owner's, a reset that is asked for again
\* with the scopes the refusal names is not refused again
AdviceHelps ==
    req.out = "refused" /\ (\A r \in req.was : r.owner = "own") =>
        wipeStoreOperationalData(req.was, req.scopes \cup req.asks).out # "refused"

\* What a reset may delete of another owner: what is attached to the parties,
\* products and documents that go
Attached(r) == r.owner = "other" /\ \E k \in r.refs : k \notin {Key(q) : q \in Entered}

\* A reset leaves every row of another owner that is not attached to what it
\* deletes, and a row it keeps loses no link but to what is gone or was unlinked
\* (store.go:747, "scoped to OwnerUserID")
OthersKept ==
    req.out = "done" =>
        \A r \in req.was : r.owner = "other" =>
            \/ Attached(r)
            \/ \E q \in Entered : Key(q) = Key(r) /\ \A k \in r.refs \ q.refs : k[2] = "own"

\* The scopes that delete a table's rows, by what their name says
Wipes ==
    [sales |-> SalesPapers, purchases |-> PurchasePapers, expenses |-> {"Expense", "ExpenseCategory"}, pos |-> {"POSSession", "CashMovement"},
     staff |-> {"Staff", "Attendance", "Payroll", "PayrollPayment", "StaffExtraAmount", "StaffAdvancePayment", "StaffDeduction"},
     products |-> {"Product", "Warehouse", "Category", "StockEntry", "InventoryStock", "StockTransfer", "SerialNumber"},
     settings |-> {"EmailMarketing", "EmailRecipient", "Notification"}, accounting |-> {"BankAccount", "Account", "JournalEntry", "Ledger", "CashTransaction"},
     gst |-> {"TaxPeriod"}, parties |-> {"Party"}, audit |-> {"AuditLog"}]

\* A reset that succeeds leaves none of the owner's rows of the scopes asked for
\* but the seeded ones, and each of those is there; one that does not changes nothing
AllOrNothing ==
    /\ req.out = "done" =>
          /\ \A s \in req.scopes, r \in db.rows : r.owner = "own" /\ r.table \in Wipes[s] => r.seeded
          /\ Seeds(req.scopes) \subseteq db.rows
    /\ req.out \in {"refused", "failed"} => db.rows = req.was

\* The whole of what a reset promises (store.go:545)
ResetExact == TypeOK /\ NothingDangles /\ RefusedWithReason /\ AdviceHelps /\ OthersKept /\ AllOrNothing

=============================================================================
