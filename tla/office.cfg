SPECIFICATION OfficeSpec
CONSTANTS
    v1 = v1  x1 = x1  d1 = d1
    Clerks = {c1, c2}
    Deaths = TRUE  Meanwhile = FALSE
    Orders = {o1, o2}  Receipts = {r1}  Transfers = {t1}  Challans = {h1}
    Warehouses = {w1, w2, w3}  Codes = {m1, m2}  Lines = 2
    Estimates = {q1}  Carts = {k1}  Bodies = {b1, b2}  Reopens = FALSE  MaxVersions = 3  MaxInvoices = 2  MaxCuts = 1
    Products = {p1, p2, p3}  Pictures = {i1, i2}  Legacy = {p1}  Names = {"tea", "ink"}  Endings = {1, 2}
    NewItems = 1  Deletes = TRUE
    Defaults <- SmallChart
    Types = {"income", "expense"}  Categories = {rent}  General = general  Openings = {1}  Amounts = {1}
    Entries = {j1}  Documents = {d2}  MaxAccounts = 3
    Accounts = {a1, a2}  Main = a1  Expenses = {e1}  Shares = {s1}  Partners = {y1}
    ByHand = {"add", "reduce", "transfer_in", "transfer_out", "expense"}  Reuse = FALSE  MaxRows = 2  MaxDeaths = 1
INVARIANTS PayrollExact BooksBalance NumbersUnique CashBookExact OrdersExact
PROPERTIES DuesSettled
CHECK_DEADLOCK FALSE
