SPECIFICATION ShopSpec
CONSTANTS
    c1 = c1  c2 = c2  k1 = k1  k2 = k2
    Tills = {t1, t2}  Sales = {s1, s2}  Sessions = {x1, x2}  NoSession = NoSession  SaleTotals = {1}  Cash = {1}
    Deaths = TRUE  Meanwhile = FALSE  MaxMoves = 1
    Clerks = {c1}  Returns = {r1}  HandNotes = {n1}  Bills = {s1}  NoSale = NoSale  SaleTotal = 1
    RefundAmounts = {1, 2}  LateEdits = FALSE  MaxRefunds = 1  MaxSlips = 1
    Desks = {c1}  Customers = {p1, p2}  Slips = {s1}  SlipTotals = {4}  Spend = 2  PerSpend = 1
    PointValue = 1  MaxPercent = 50  MinRedeem = 1  Adjustments = {2}  BatchSizes = {1, 2}
    MaxEntries = 5  MaxCards = 3
    BatchLimit = 8
    FlushInterval = 5
INVARIANTS ReturnsExact LoyaltyExact  ImportsExact SnapshotsExact SchedulesExact CampaignsExact ResetExact LingerAtMost
SYMMETRY Alike
CHECK_DEADLOCK FALSE
