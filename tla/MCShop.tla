------------------------------- MODULE MCShop -------------------------------
(* What happens at the counter - returns, loyalty, the tills - and behind   *)
(* it: imports, stock snapshots, scheduled jobs, campaigns, and the         *)
(* batches of the audit worker.  A behaviour is about one of them: focus    *)
(* says which.                                                              *)
EXTENDS Pos, AuditWorker, Sequences, TLC

CONSTANTS
    Clerks, Returns, HandNotes, Bills, NoSale, SaleTotal, RefundAmounts, LateEdits, MaxRefunds, MaxSlips,
    Desks, Customers, Slips, SlipTotals, Spend, PerSpend, PointValue, MaxPercent, MinRedeem,
    Adjustments, BatchSizes, MaxEntries, MaxCards,
    c1, c2, k1, k2

VARIABLE focus

\* Returns, and the loyalty programme; the tills are Pos.
Brought == INSTANCE SalesReturns WITH Sales <- Bills
Program == INSTANCE Loyalty WITH MaxMoves <- MaxEntries

-----------------------------------------------------------------------------
(* Imports: the rows of the files are chosen so that every key occurs again *)

Row(kind, key, n, paid, who) == [kind |-> kind, key |-> key, n |-> n, paid |-> paid, who |-> who, items |-> {}]
Of(items, row) == [row EXCEPT !.items = items]

RowsOf ==
    [masters  |-> << Row("category", "k1", 1, 0, ""), Row("expense_category", "k2", 1, 0, ""),
                     Row("user", "u1", 1, 0, ""), Row("staff", "s1", 1, 0, ""),
                     Row("expense", "k2", 1, 0, "") >>,
     stock    |-> << Row("opening", "b1", 2, 0, "tea"), Row("opening", "b2", 1, 0, "tea"), Row("summary", "b2", 3, 0, "tea") >>,
     money    |-> << Row("account", "bank", 2, 0, ""), Row("cash", "bank", 1, 0, "") >>,
     bills    |-> << Row("bill", "p1", 2, 0, ""), Row("bill", "p2", 2, 0, ""), Row("payout", "p2", 1, 0, "") >>,
     status   |-> << Row("status", "p1", 2, 1, ""), Row("status", "p2", 2, 2, ""), Row("purchase_item", "p1", 1, 0, "tea") >>,
     sales    |-> << Row("sale", "i1", 3, 1, ""), Row("sale", "i1", 3, 1, ""), Row("sales_item", "i1", 1, 0, "tea") >>,
     invoices |-> << Of({"b1", "b2"}, Row("invoice", "i2", 2, 1, "buyer")), Row("invoice", "i3", 1, 0, "buyer") >>,
     people   |-> << Row("party", "buyer", 1, 0, ""), Row("opening", "b1", 3, 0, "tea"), Row("payin", "i2", 2, 0, "") >>,
     returns  |-> << Row("sales_return", "r1", 1, 0, "buyer"), Row("sales_return", "r1", 1, 0, "buyer"),
                     Row("purchase_return", "r2", 1, 0, "maker"), Row("purchase_return", "r2", 2, 0, "maker"), Row("purchase_return", "r3", 1, 0, "maker") >>,
     archive  |-> << Row("party", "buyer", 1, 0, ""), Row("bill", "p1", 2, 0, ""), Row("bill", "p1", 2, 0, ""),
                     Row("payin", "i1", 1, 0, ""), Row("payin", "i1", 2, 0, ""), Row("payout", "p1", 1, 0, ""),
                     Row("expense", "k2", 1, 0, "") >>]

Keys == {"k1", "k2", "u1", "s1", "tea", "bank", "b1", "b2", "p1", "p2", "i1", "i2", "i3", "r1"}

Masters == INSTANCE Imports WITH
    Clerks <- {c1}, Files <- {"masters", "stock", "money"}, Zips <- {}, PartyRows <- 1 .. 3,
    Deaths <- TRUE, Meanwhile <- FALSE, MaxStarts <- 2, MaxFails <- 1

Sold == INSTANCE Imports WITH
    Clerks <- {c1}, Files <- {"archive", "sales"}, Zips <- {"archive"}, PartyRows <- 1 .. 3,
    Deaths <- TRUE, Meanwhile <- FALSE, MaxStarts <- 2, MaxFails <- 1

Billed == INSTANCE Imports WITH
    Clerks <- {c1}, Files <- {"invoices", "people"}, Zips <- {}, PartyRows <- 1 .. 3,
    Deaths <- TRUE, Meanwhile <- FALSE, MaxStarts <- 2, MaxFails <- 1

Reported == INSTANCE Imports WITH
    Clerks <- {c1}, Files <- {"bills", "status"}, Zips <- {}, PartyRows <- {},
    Deaths <- TRUE, Meanwhile <- FALSE, MaxStarts <- 2, MaxFails <- 2

GivenBack == INSTANCE Imports WITH
    Clerks <- {c1}, Files <- {"returns"}, Zips <- {}, PartyRows <- {},
    Deaths <- TRUE, Meanwhile <- FALSE, MaxStarts <- 2, MaxFails <- 1

InBook(kind, no, party, total, n) == [kind |-> kind, no |-> << "", no >>, party |-> party, total |-> total, n |-> n]
Stated(kind, no) == [kind |-> kind, no |-> << "", no >>, mode |-> "upi"]

Daybook == INSTANCE Daybook WITH
    Clerks <- {c1}, Deaths <- TRUE, Meanwhile <- FALSE, MaxStarts <- 2,
    Book <- << InBook("sale", 1, "p", 3, 1), InBook("sale", 2, "p", 2, 0), InBook("bill", 1, "v", 2, 1),
               InBook("payin", 5, "p", 3, 3), InBook("payin", 8, "p", 2, 2), InBook("payout", 6, "v", 2, 2),
               InBook("payin", 7, "q", 1, 1), InBook("expense", 1, "", 1, 1), InBook("add", 1, "", 2, 2),
               InBook("reduce", 2, "", 1, 1), InBook("sales_return", 3, "p", 1, 1), InBook("purchase_return", 3, "v", 1, 1) >>,
    Statement <- << Stated("sale", 1), Stated("bill", 1), Stated("payin", 5), Stated("payin", 8), Stated("payout", 6),
                    Stated("payin", 7), Stated("expense", 1), Stated("add", 1), Stated("reduce", 2),
                    Stated("sales_return", 3), Stated("purchase_return", 3) >>

-----------------------------------------------------------------------------
(* Snapshots, scheduled jobs and campaigns *)

\* Two requests about one product, one of which may be about its price
Snapshots == INSTANCE StockSnapshots WITH
    Clerks <- {c1, c2}, Keys <- {k1}, LastDay <- 1, Quantities <- {1}, Holdings <- {2}, Costs <- {0}, Prices <- {0, 1},
    Declared <- {3}, MaxEntries <- 1, MaxStamps <- 2, MaxOver <- 0, Ahead <- FALSE

\* One request at a time about two days, with opening quantities declared
Openings == INSTANCE StockSnapshots WITH
    Clerks <- {c1}, Keys <- {k1}, LastDay <- 2, Quantities <- {1}, Holdings <- {1}, Costs <- {1}, Prices <- {1},
    Declared <- {3}, MaxEntries <- 1, MaxStamps <- 2, MaxOver <- 1, Ahead <- FALSE

Choice(enabled, at, every, keep) == [enabled |-> enabled, at |-> at, every |-> every, keep |-> keep]

Backups == INSTANCE Schedulers WITH
    Jobs <- {"backup"}, Recipients <- {}, Choices <- {Choice(TRUE, 1, 1, 1), Choice(TRUE, 0, 2, 2)},
    LastTick <- 3, MaxDumps <- 2, MaxDeaths <- 1, RecordCap <- 1, Meanwhile <- FALSE

\* Enough files for several to go at a time
Pruning == INSTANCE Schedulers WITH
    Jobs <- {"backup"}, Recipients <- {}, Choices <- {Choice(TRUE, 1, 1, 1)},
    LastTick <- 0, MaxDumps <- 3, MaxDeaths <- 1, RecordCap <- 2, Meanwhile <- FALSE

Maintenance == INSTANCE Schedulers WITH
    Jobs <- {"maintenance"}, Recipients <- {}, LastTick <- 3, MaxDumps <- 2, MaxDeaths <- 1, RecordCap <- 2, Meanwhile <- FALSE,
    Choices <- {Choice(TRUE, 1, 1, 1), Choice(TRUE, 0, 1, 1), Choice(FALSE, 0, 1, 1)}

Mail == INSTANCE Schedulers WITH
    Jobs <- {"mail"}, Recipients <- {"r1", "r2"}, LastTick <- 3, MaxDumps <- 2, MaxDeaths <- 1, RecordCap <- 2, Meanwhile <- FALSE,
    Choices <- {Choice(TRUE, 1, 1, 1), Choice(TRUE, 0, 1, 1), Choice(FALSE, 0, 1, 1)}

\* One address that is given twice
Campaigns == INSTANCE Campaigns WITH
    Clerks <- {"c1"}, Campaigns <- {"m1"}, People <- {"p1"}, Audiences <- {<< "p1", "p1" >>}, Kinds <- {"email", "sms", "whatsapp"},
    Dates <- {0, 1}, Ends <- {0, 1}, Recurring <- {FALSE, TRUE}, LastTick <- 1, MaxOrders <- 2, MaxSlips <- 1, Deaths <- TRUE

-----------------------------------------------------------------------------
(* Resetting a store: each group of tables holds what refers to each other  *)

Reset == INSTANCE StoreReset WITH
    Groups <- {{"Party", "Invoice", "InvoiceItem", "Product"}, {"Party", "Invoice", "PaymentOut", "SalesReturn"},
               {"BankAccount", "Expense", "Staff", "StaffExtraAmount"}, {"Party", "LoyaltyCard", "EmailMarketing", "EmailRecipient"},
               {"Party", "PurchaseBill", "CustomerStatement", "StatementTransaction"},
               {"Account", "JournalEntry", "JournalEntryLine", "POSSession", "CashMovement"},
               {"Party", "Invoice", "POSSession", "StockEntry", "LoyaltyTransaction"}, {"POSSession", "POSDraft", "Party", "Warehouse"},
               {"Expense", "Staff", "Payroll", "StaffAdvancePayment", "StaffExtraAmount"},
               {"Party", "PurchaseBill", "StockEntry", "BankAccount", "Warehouse"}},
    Requests <- {{"sales"}, {"purchases"}, {"parties"}, {"products"}, {"accounting"}, {"staff"}, {"settings"}, {"pos"},
                 {"sales", "parties"}, {"purchases", "parties"}, {"sales", "purchases"}, {"accounting", "staff"},
                 {"products", "sales"}, {"sales", "purchases", "parties"}, {"expenses", "gst", "audit"}},
    MaxRows <- 3, MaxResets <- 1

-----------------------------------------------------------------------------

\* Tills are alike, and so are sessions.
Alike == Permutations(Tills) \cup Permutations(Sessions)

ShopInit ==
    /\ WorkerInit
    /\ \/ focus = "returns"     /\ Brought!Init /\ lost = {}
       \/ focus = "loyalty"     /\ Program!Init /\ db.store /\ lost = {}
       \/ focus = "cards"       /\ Program!Init /\ lost = {}
       \/ focus = "pos"         /\ Init
       \/ focus = "masters"     /\ Masters!Init /\ lost = {}
       \/ focus = "sold"        /\ Sold!Init /\ lost = {}
       \/ focus = "billed"      /\ Billed!Init /\ lost = {}
       \/ focus = "reported"    /\ Reported!Init /\ lost = {}
       \/ focus = "given back"  /\ GivenBack!Init /\ lost = {}
       \/ focus = "daybook"     /\ Daybook!Init /\ lost = {}
       \/ focus = "snapshots"   /\ Snapshots!Init /\ lost = {}
       \/ focus = "openings"    /\ Openings!Init /\ lost = {}
       \/ focus = "backups"     /\ Backups!Init /\ lost = {}
       \/ focus = "pruning"     /\ Pruning!Init /\ lost = {}
       \/ focus = "maintenance" /\ Maintenance!Init /\ lost = {}
       \/ focus = "mail"        /\ Mail!Init /\ lost = {}
       \/ focus = "campaigns"   /\ Campaigns!Init /\ lost = {}
       \/ focus = "reset"       /\ Reset!Init /\ lost = {}
       \/ focus = "worker"      /\ db = << >> /\ req = << >> /\ lost = {}

Elsewhere == UNCHANGED << focus, lost, workerVars >>

\* Requests are about points, or about cards and their design.
OnlyPoints == db'.cards = db.cards /\ \A d \in Desks : req'[d].op # "design"
OnlyCards  == /\ db'.points = db.points /\ db'.enabled = db.enabled
              /\ \A d \in Desks : req'[d].op \in {"idle", "design"}

ReturnsStep     == focus = "returns" /\ Brought!Next /\ Elsewhere
LoyaltyStep     == focus = "loyalty" /\ Program!Next /\ OnlyPoints /\ Elsewhere
CardsStep       == focus = "cards" /\ Program!Next /\ OnlyCards /\ Elsewhere
PosStep         == focus = "pos" /\ Next /\ UNCHANGED << focus, workerVars >>
MastersStep     == focus = "masters" /\ Masters!Next /\ Elsewhere
SoldStep        == focus = "sold" /\ Sold!Next /\ Elsewhere
BilledStep      == focus = "billed" /\ Billed!Next /\ Elsewhere
ReportedStep    == focus = "reported" /\ Reported!Next /\ Elsewhere
GivenBackStep   == focus = "given back" /\ GivenBack!Next /\ Elsewhere
DaybookStep     == focus = "daybook" /\ Daybook!Next /\ Elsewhere
SnapshotsStep   == focus = "snapshots" /\ Snapshots!Next /\ Elsewhere
OpeningsStep    == focus = "openings" /\ Openings!Next /\ Elsewhere
BackupsStep     == focus = "backups" /\ Backups!Next /\ Elsewhere
PruningStep     == focus = "pruning" /\ Pruning!Next /\ Elsewhere
MaintenanceStep == focus = "maintenance" /\ Maintenance!Next /\ Elsewhere
MailStep        == focus = "mail" /\ Mail!Next /\ Elsewhere
CampaignsStep   == focus = "campaigns" /\ Campaigns!Next /\ Elsewhere
ResetStep       == focus = "reset" /\ Reset!Next /\ Elsewhere
WorkerStep      == focus = "worker" /\ WorkerNext /\ UNCHANGED << focus, db, req, lost >>

ShopNext ==
    \/ ReturnsStep \/ LoyaltyStep \/ CardsStep \/ PosStep \/ MastersStep \/ SoldStep \/ BilledStep \/ ReportedStep
    \/ GivenBackStep \/ DaybookStep \/ SnapshotsStep \/ OpeningsStep \/ BackupsStep \/ PruningStep \/ MaintenanceStep \/ MailStep \/ CampaignsStep
    \/ ResetStep \/ WorkerStep

ShopSpec == ShopInit /\ [][ShopNext]_<< focus, db, req, lost, workerVars >>

-----------------------------------------------------------------------------
(* Properties *)

\* A customer's balance is what the returns that stand have left with them, and
\* what credits settle of an invoice is what its credit notes cover, up to the
\* notes whose issuing stopped between its two saves
\* (sales_return.go, cashbank_helpers.go:579, credit_note.go:190-196)
ReturnsExact == focus = "returns" => Brought!CustomerBalanced /\ Brought!CreditsSettle

\* Customers' points are what corrections gave and invoices took and brought,
\* those whose points were never taken counted apart; and no two cards of a store
\* have one number (invoice.go:433-447, loyalty_helpers.go, loyalty_cards.go:457)
LoyaltyExact == focus \in {"loyalty", "cards"} => Program!PointsConserved /\ Program!CardsNeverRepeat


\* However often files are imported, and wherever imports stop or fail: a
\* document is on file once, a status report read to its end without an error
\* leaves no bill paid without a payment, no invoice is paid beyond its total,
\* and the stock of a batch is what its entries say.  Payments, cash rows,
\* opening stock and lines of documents are written again by every import,
\* against migration.go:1576 and migration_imports.go:28: RerunSafe, which is
\* not checked, is false.
ImportsExact ==
    /\ focus = "masters" => Masters!ImportsExact
    /\ focus = "sold" => Sold!ImportsExact
    /\ focus = "billed" => Billed!ImportsExact
    /\ focus = "reported" => Reported!ImportsExact
    /\ focus = "given back" => GivenBack!ImportsExact
    /\ focus = "daybook" => Daybook!DaybookExact

\* Snapshots that count as fresh are what a rebuild would make of the entries,
\* the rows and the prices it read, a closing is the stock it stands for, the
\* reports agree, and a day opens where the day before closed
\* (stock_snapshot.go:55-80, daily_profit_report.go)
SnapshotsExact ==
    /\ focus = "snapshots" => Snapshots!SnapshotsExact
    /\ focus = "openings" => Openings!SnapshotsExact

\* A job runs once in a slot unless its settings could not be saved, its rows tell
\* what became of it, its oldest files go first, and no file is out of its reach
\* but one whose row is gone (db_backup.go:23, 485-502, 622-670)
SchedulesExact ==
    /\ focus = "backups" => Backups!SchedulesExact
    /\ focus = "pruning" => Pruning!SchedulesExact
    /\ focus = "maintenance" => Maintenance!SchedulesExact
    /\ focus = "mail" => Mail!SchedulesExact

\* A run of a campaign writes once to each of its rows, an address given twice
\* having two, counts what it did, and goes on to its next date
\* (email_marketing.go:99-153, campaign_sender.go)
CampaignsExact == focus = "campaigns" => Campaigns!CampaignsExact

\* A reset of a store deletes the owner's rows of the scopes asked for and
\* nothing that is not attached to them, leaves nothing that refers to what is
\* gone but by the references listed as Orphans, and refuses what it cannot
\* delete with advice that helps (store.go:545)
ResetExact == focus = "reset" => Reset!ResetExact

=============================================================================
