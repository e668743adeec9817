------------------------------ MODULE MCOffice ------------------------------
(* The books of the office: payroll, accounts, the cash book, estimates,    *)
(* orders and goods, warehouses and the numbers of products.  They share no *)
(* rows that a property is about, so a behaviour is about one of them:      *)
(* focus says which.                                                        *)
EXTENDS Procurement, Sequences

CONSTANTS
    Estimates, Carts, Bodies, Reopens, MaxVersions, MaxInvoices, MaxCuts,
    Products, Pictures, Legacy, Names, Endings, NewItems, Deletes,
    Defaults, Types, Categories, General, Openings, Amounts, Entries, Documents, MaxAccounts,
    Accounts, Expenses, Shares, Partners, ByHand, Reuse, MaxRows, MaxDeaths,
    Main,           \* the account that expenses and shares are checked with
    v1, x1, d1

VARIABLE focus

Quotes == INSTANCE Estimates
Wares  == INSTANCE Catalogue
Chart  == INSTANCE Books
Bank   == INSTANCE CashBook

Staff == INSTANCE Payroll WITH
    LastDay <- 2, Statuses <- {"present"}, Basic <- 2, Payrolls <- {1, 2}, Advances <- {v1}, Extras <- {x1},
    Deductions <- {d1}, Amounts <- {1}, Sent <- {0}, MaxEntries <- 1, MaxPayments <- 1, Reuse <- FALSE

\* The chart of accounts of the configuration
SmallChart == << [code |-> 11, type |-> "asset", name |-> "cash"], [code |-> 51, type |-> "expense", name |-> General] >>

-----------------------------------------------------------------------------

OfficeInit ==
    \/ focus = "payroll" /\ Staff!Init /\ req = << >>
    \/ focus = "books" /\ Chart!Init
    \/ focus \in {"banking", "spending"} /\ Bank!Init
    \/ focus = "quotes" /\ Quotes!Init
    \/ focus \in {"goods", "depots"} /\ Init
    \/ focus \in {"catalogue", "gallery"} /\ Wares!Init

\* No request is about a picture, or all of them are.
NoPictures   == \A c \in Clerks : req'[c].op # "picture"
OnlyPictures == db'.products = db.products /\ \A c \in Clerks : req'[c].op \in {"idle", "picture"}

PayrollStep   == focus = "payroll" /\ Staff!Next /\ UNCHANGED << focus, req >>
BooksStep     == focus = "books" /\ Chart!Next /\ UNCHANGED focus
BankingStep   == focus = "banking" /\ (Bank!AccountSteps \/ Bank!MoneySteps \/ Bank!Die) /\ UNCHANGED focus
SpendingStep  == focus = "spending" /\ Bank!Next /\ (\A a \in Accounts \ {Main} : db'.accounts[a] = Bank!Unused) /\ UNCHANGED focus
QuotesStep    == focus = "quotes" /\ Quotes!Next /\ UNCHANGED focus
GoodsStep     == focus = "goods" /\ (DocumentSteps \/ Die) /\ UNCHANGED focus
DepotsStep    == focus = "depots" /\ (WarehouseSteps \/ Die) /\ UNCHANGED focus
CatalogueStep == focus = "catalogue" /\ Wares!Next /\ NoPictures /\ db'.pictures = db.pictures /\ UNCHANGED focus
GalleryStep   == focus = "gallery" /\ Wares!Next /\ OnlyPictures /\ UNCHANGED focus

OfficeNext ==
    \/ PayrollStep \/ BooksStep \/ BankingStep \/ SpendingStep \/ QuotesStep
    \/ GoodsStep \/ DepotsStep \/ CatalogueStep \/ GalleryStep

OfficeSpec == OfficeInit /\ [][OfficeNext]_<< focus, vars >>

-----------------------------------------------------------------------------
(* Properties *)

\* The cash that left the book is what payments, advances and extra amounts that
\* stand come to, and a payroll that is undone gives back what it took up
\* (payroll.go:150-161)
PayrollExact == focus = "payroll" => Staff!CashExact /\ Staff!TakenUpOnce

\* Paying all that is due lowers the staff's balance by what was paid
\* (payroll.go:753)
DuesSettled == [][focus = "payroll" => Staff!DuesSettledStep]_db

\* Balances follow the ledger, and the reports are out by the opening balances
\* and the inactive accounts only (accounting.go:488, 684)
BooksBalance == focus = "books" => Chart!BooksBalance

\* No two accounts have one code; a scale's number, an SKU and the primary
\* picture stand for one row (accounting_helpers.go:105, utils/sku.go:70)
NumbersUnique ==
    /\ focus = "books" => Chart!CodesUnique
    /\ focus \in {"catalogue", "gallery"} => Wares!NumbersUnique

\* An account's stored balance is its opening balance and its rows, and an expense
\* or a share of the profit is paid once, from its account (cashbank.go, expense.go)
CashBookExact ==
    focus \in {"banking", "spending"} => Bank!BookMatchesBank /\ Bank!PaidOutOnce

\* An estimate becomes one invoice that says what it says unless its conversion
\* or its own save was cut short or failed, its versions are kept, goods are entered once
\* for a receipt and received as they were sent, and one warehouse is the default
\* (quotation.go:626, purchase.go, warehouse.go:83-84)
OrdersExact ==
    /\ focus = "quotes" => Quotes!SoldOnce /\ Quotes!VersionsKept
    /\ focus \in {"goods", "depots"} => ReceivedOnce /\ OneWarehouseEach

=============================================================================
