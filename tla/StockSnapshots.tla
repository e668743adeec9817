--------------------------- MODULE StockSnapshots ---------------------------
(***************************************************************************)
(* The daily stock snapshots: rows rebuilt from the stock tables when a    *)
(* fingerprint of these differs from that of the last rebuild, the reports *)
(* that read them, the opening stock a superadmin may declare, and the log *)
(* the nightly job writes of every day.  (controllers/stock_snapshot.go,   *)
(* daily_stock_summary_log.go, stock_opening_override.go,                  *)
(* daily_profit_report.go loadDailyStockPositions)                         *)
(*                                                                         *)
(* A write stamps its row, and a fingerprint is what five queries, one     *)
(* after the other, find of the stamps and the numbers of rows.  Writes    *)
(* become visible in the order of their stamps: a transaction that commits *)
(* after one with a later stamp is not modelled.  Neither is an entry that *)
(* is removed for good, which a reset of the store does.  A unit costs 0   *)
(* or 1, so that an average cost is 0 or 1.  A unit moved in a range is    *)
(* not modelled.                                                           *)
(***************************************************************************)
EXTENDS Integers, FiniteSets, FiniteSetsExt, Sequences, TLC

CONSTANTS
    Clerks,         \* requests and scheduled jobs under way
    Keys,           \* products of an outlet
    LastDay,        \* days are counted from 1
    Quantities,     \* of a stock entry
    Holdings,       \* what a stock row may hold
    Costs,          \* of a unit, in an entry or a stock row
    Prices,         \* purchase prices of a product; 0 as well once it is deleted
    Declared,       \* opening quantities a superadmin declares
    MaxEntries, MaxStamps, MaxOver,
    Ahead           \* whether a document may be dated ahead of today

VARIABLES
    db,     \* the tables
    req     \* where every request is

vars == << db, req >>
Days == 1 .. LastDay
Idle == [op |-> "idle"]

NoStock == [qty |-> 0, cost |-> 0, day |-> 0, at |-> 0]

\* stock[k].day is the day the row was made, 0 if there is none; through is the
\* last day the snapshots cover; used is the prices the last rebuild read
Init ==
    \E P \in [Keys -> Prices] :
        /\ db = [day |-> 1, stamp |-> 0, entries |-> {}, stock |-> [k \in Keys |-> NoStock],
                 price |-> P, used |-> P, snaps |-> [k \in Keys |-> [d \in {} |-> 0]], fp |-> << >>, through |-> 0,
                 over |-> {}, logs |-> [d \in {} |-> 0]]
        /\ req = [c \in Clerks |-> Idle]

-----------------------------------------------------------------------------
(* The tables a rebuild reads, and the single writes of them that the      *)
(* handlers of stock are made of, in any order                             *)

Now  == db.stamp + 1
Open == db.stamp < MaxStamps
Write(T) == Open /\ db' = [T EXCEPT !.stamp = Now] /\ UNCHANGED req

\* An entry carries the date of its document; one that waits for approval does
\* not count yet
AddEntry(k, q, cost, d, state) ==
    /\ Cardinality(db.entries) < MaxEntries /\ (d <= db.day \/ Ahead)
    /\ Write([db EXCEPT !.entries = @ \cup {[id |-> Cardinality(@), key |-> k, q |-> q, cost |-> cost, day |-> d,
                                             state |-> state, at |-> Now, gone |-> 0]}])

Replaced(x, y) == [db EXCEPT !.entries = (@ \ {x}) \cup {y}]

EditEntry(x, q, cost) == x.gone = 0 /\ Write(Replaced(x, [x EXCEPT !.q = q, !.cost = cost, !.at = Now]))

\* ApproveStockEntry, RejectStockEntry
Review(x, state) ==
    /\ x.gone = 0 /\ x.state = "pending" /\ state \in {"approved", "rejected"}
    /\ Write(Replaced(x, [x EXCEPT !.state = state, !.at = Now]))

\* A soft deletion stamps nothing but deleted_at
DeleteEntry(x) == x.gone = 0 /\ Write(Replaced(x, [x EXCEPT !.gone = Now]))

\* updateInventoryStock, and the imports, which write a stock row without an entry
SaveStock(k, q, cost) ==
    Write([db EXCEPT !.stock[k] = [qty |-> q, cost |-> cost, at |-> Now, day |-> IF @.day = 0 THEN db.day ELSE @.day]])

\* UpdateProduct: a price is not part of the fingerprint
SetPrice(k, p) == p # db.price[k] /\ db' = [db EXCEPT !.price[k] = p] /\ UNCHANGED req

NextDay == db.day < LastDay /\ db' = [db EXCEPT !.day = @ + 1] /\ UNCHANGED req

-----------------------------------------------------------------------------
(* rebuildStockSnapshots *)

Quantity(x) == x.q
Approved(E, k)  == {x \in E : x.key = k /\ x.state = "approved" /\ x.gone = 0}
SumQ(E)         == MapThenSumSet(Quantity, E)

Base_None(S, E, k) == 0

\* What the entries do not explain of the stock row
Base(S, E, k) == IF S[k].day = 0 THEN 0 ELSE S[k].qty - SumQ(Approved(E, k))

BaseDay(S, E, k, d) == S[k].day = d /\ Base(S, E, k) # 0
On(E, k, d)  == {x \in Approved(E, k) : x.day = d}
Net(S, E, k, d) == SumQ(On(E, k, d)) + (IF BaseDay(S, E, k, d) THEN Base(S, E, k) ELSE 0)

Costed(S, E, k, d) ==
    \/ \E x \in On(E, k, d) : x.q > 0 /\ x.cost > 0
    \/ BaseDay(S, E, k, d) /\ Base(S, E, k) > 0 /\ S[k].qty > 0 /\ S[k].cost > 0

Active(S, E, k) == {d \in Days : On(E, k, d) # {} \/ BaseDay(S, E, k, d)}

\* The rows of a product: one for every day from its first movement on, but
\* none while there is nothing of it
RowsOf(S, E, P, k, today) ==
    LET at[d \in 0 .. LastDay] ==
            IF d = 0 THEN [qty |-> 0, avg |-> 0]
            ELSE LET q == at[d - 1].qty + Net(S, E, k, d)
                     a == IF Costed(S, E, k, d) THEN 1 ELSE at[d - 1].avg
                 IN  [qty |-> q, avg |-> IF q # 0 /\ a = 0 THEN P[k] ELSE a]
        A  == Active(S, E, k)
        R  == IF A = {} THEN {} ELSE {d \in Min(A) .. Max(A \cup {today}) : d \in A \/ at[d].qty # 0}
    IN  [d \in R |-> [open |-> at[d - 1].qty, openVal |-> at[d - 1].qty * at[d - 1].avg,
                      close |-> at[d].qty, closeVal |-> at[d].qty * at[d].avg]]

Rebuilt(S, E, P, today) == [k \in Keys |-> RowsOf(S, E, P, k, today)]
Through(S, E, today) == Max({today} \cup UNION {Active(S, E, k) : k \in Keys})

-----------------------------------------------------------------------------
(* What the reports read *)

UpTo(k, d) == {x \in DOMAIN db.snaps[k] : x <= d}
LastRow(k, d) == IF UpTo(k, d) = {} THEN [close |-> 0, closeVal |-> 0]
                 ELSE LET r == db.snaps[k][Max(UpTo(k, d))]
                      IN  [close |-> r.close, closeVal |-> r.closeVal]
Position(d) == LET Qty(k) == LastRow(k, d).close
                   Val(k) == LastRow(k, d).closeVal
               IN  [qty |-> MapThenSumSet(Qty, Keys), val |-> MapThenSumSet(Val, Keys)]

Plus(p, q)  == [qty |-> p.qty + q.qty, val |-> p.val + q.val]
Minus(p, q) == [qty |-> p.qty - q.qty, val |-> p.val - q.val]
Zero == [qty |-> 0, val |-> 0]

Latest(O) == CHOOSE o \in O : \A x \in O : x.day < o.day \/ (x.day = o.day /\ x.id <= o.id)
Delta(o)  == Minus([qty |-> o.q, val |-> o.q], Position(o.day - 1))

\* overallPositionAsOf
Overall(d) ==
    LET O == {o \in db.over : o.live /\ o.day <= d + 1}
    IN  IF O = {} THEN Position(d) ELSE Plus(Position(d), Delta(Latest(O)))

Shift_AfterBase(d) ==
    LET O == {o \in db.over : o.day <= d} IN IF O = {} THEN Zero ELSE Delta(Latest(O))

\* The daily report counts the ones taken back as well
Shift(d) ==
    LET O == {o \in db.over : o.day - 1 <= d} IN IF O = {} THEN Zero ELSE Delta(Latest(O))

\* loadDailyStockPositions: a day whose rows are worth nothing counts as one without rows
Positions(from, to) ==
    LET OnDay(d) == {k \in Keys : d \in DOMAIN db.snaps[k]}
        Sum(d, f(_)) == LET At(k) == f(db.snaps[k][d]) IN MapThenSumSet(At, OnDay(d))
        Qty(r) == r.close
        Val(r) == r.closeVal
        OpenVal(r) == r.openVal
        raw[d \in from - 1 .. to] ==
            IF d < from THEN Position(d)
            ELSE IF Sum(d, Val) = 0 /\ Sum(d, OpenVal) = 0 THEN raw[d - 1]
            ELSE [qty |-> Sum(d, Qty), val |-> Sum(d, Val)]
    IN  [d \in from .. to |-> [open  |-> Plus(raw[d - 1], Shift(d - 1)), close |-> Plus(raw[d], Shift(d))]]

-----------------------------------------------------------------------------
(* Requests: a report, the scheduler, a forced refresh and the nightly job *)

Ask(c, op) ==
    /\ req[c] = Idle /\ op \in {"report", "force"}
    /\ req' = [req EXCEPT ![c] = [op |-> op, step |-> "lock", today |-> 0]] /\ UNCHANGED db

\* One pass at a time, until the day before is logged
AskSummary(c) ==
    /\ req[c] = Idle /\ db.day > 1 /\ db.day - 1 \notin DOMAIN db.logs /\ \A e \in Clerks : req[e].op # "summary"
    /\ req' = [req EXCEPT ![c] = [op |-> "summary", step |-> "lock", today |-> db.day]] /\ UNCHANGED db

At(c, step) == req[c] # Idle /\ req[c].step = step
Rebuilding(c) == req[c] # Idle /\ req[c].step \notin {"lock", "done"}

\* stockSourceFingerprint: what each of its queries finds, in their order.
\* That of the entries finds the deleted ones as well.
Newest(S) == Max(S \cup {0})
Fingerprint ==
    << Cardinality(db.entries), Newest({x.at : x \in db.entries}), Newest({x.gone : x \in db.entries}),
       Cardinality({k \in Keys : db.stock[k].day # 0}), Newest({db.stock[k].at : k \in Keys}) >>

Lock(c) ==
    /\ At(c, "lock") /\ \A e \in Clerks : ~Rebuilding(e)
    /\ req' = [req EXCEPT ![c] = [op |-> @.op, today |-> @.today, step |-> "print", fp |-> << >>]] /\ UNCHANGED db

Printed(c) == Len(req[c].fp) = Len(Fingerprint)

Query(c) ==
    /\ At(c, "print") /\ ~Printed(c) /\ UNCHANGED db
    /\ req' = [req EXCEPT ![c].fp = Append(@, Fingerprint[Len(@) + 1])]

Done(c) == [op |-> req[c].op, today |-> req[c].today, step |-> "done"]

\* The kept rows stand, or a rebuild begins
Compare(c) ==
    /\ At(c, "print") /\ Printed(c) /\ UNCHANGED db
    /\ req' = [req EXCEPT ![c] = IF @.op # "force" /\ db.fp = @.fp /\ db.through >= db.day THEN Done(c)
                                 ELSE [@ EXCEPT !.step = "stock"]]

ReadStock(c) ==
    /\ At(c, "stock") /\ UNCHANGED db
    /\ req' = [req EXCEPT ![c] = [step |-> "entries", stock |-> db.stock] @@ @]

ReadEntries(c) ==
    /\ At(c, "entries") /\ UNCHANGED db
    /\ req' = [req EXCEPT ![c] = [step |-> "prices", entries |-> db.entries] @@ @]

ReadPrices(c) ==
    /\ At(c, "prices") /\ UNCHANGED db
    /\ req' = [req EXCEPT ![c] = [step |-> "write", price |-> db.price, now |-> db.day] @@ @]

Kept_Late(c) == Fingerprint

\* The fingerprint that is kept was taken before the tables were read
Kept(c) == req[c].fp

Rebuild(c) ==
    LET r == req[c] IN
    /\ At(c, "write")
    /\ db' = [db EXCEPT !.snaps = Rebuilt(r.stock, r.entries, r.price, r.now), !.fp = Kept(c), !.used = r.price,
                        !.through = Through(r.stock, r.entries, r.now)]
    /\ req' = [req EXCEPT ![c] = Done(c)]

\* A query or the transaction fails: the request goes on with the old rows
Fail(c) == Rebuilding(c) /\ req' = [req EXCEPT ![c] = Done(c)] /\ UNCHANGED db

Report(c) == At(c, "done") /\ req[c].op # "summary" /\ req' = [req EXCEPT ![c] = Idle] /\ UNCHANGED db

LogFrom_Yesterday(yesterday) == yesterday

LogFrom(yesterday) ==
    LET First == UNION {DOMAIN db.snaps[k] : k \in Keys}
    IN  IF DOMAIN db.logs # {} THEN Max(DOMAIN db.logs) + 1 ELSE Min(First \cup {yesterday})

\* writeDailyStockSummaryLogs, after its refresh: nothing if the range is empty
Log(c) ==
    LET to   == req[c].today - 1
        from == LogFrom(to)
        new  == Positions(from, to)
    IN  /\ At(c, "done") /\ req[c].op = "summary"
        /\ db' = IF from > to THEN db
                 ELSE [db EXCEPT !.logs = [d \in DOMAIN @ \cup from .. to |-> IF d \in from .. to THEN new[d] ELSE @[d]]]
        /\ req' = [req EXCEPT ![c] = Idle]

Restart == req' = [c \in Clerks |-> Idle] /\ UNCHANGED db

-----------------------------------------------------------------------------
(* The opening stock a superadmin declares *)

Declare(d, q) ==
    LET live == {o \in db.over : o.live /\ o.day = d}
    IN  /\ db' = [db EXCEPT !.over = IF live = {} THEN @ \cup {[id |-> Cardinality(@), day |-> d, q |-> q, live |-> TRUE]}
                                     ELSE (@ \ live) \cup {[o EXCEPT !.q = q] : o \in live}]
        /\ Cardinality(db.over) < MaxOver /\ UNCHANGED req

TakeBack(o) ==
    /\ o.live
    /\ db' = [db EXCEPT !.over = (@ \ {o}) \cup {[o EXCEPT !.live = FALSE]}] /\ UNCHANGED req

-----------------------------------------------------------------------------
Next ==
    \/ \E k \in Keys, cost \in Costs :
          \/ \E q \in Quantities, d \in Days : AddEntry(k, q, cost, d, "approved") \/ AddEntry(k, 0 - q, 0, d, "approved")
          \/ \E q \in Quantities : AddEntry(k, q, cost, db.day, "pending")
          \/ \E q \in Holdings : SaveStock(k, q, cost)
    \/ \E x \in db.entries :
          \/ \E q \in Quantities \cup {0}, cost \in Costs : EditEntry(x, q, cost)
          \/ Review(x, "approved") \/ Review(x, "rejected") \/ DeleteEntry(x)
    \/ \E k \in Keys, p \in Prices : SetPrice(k, p)
    \/ NextDay \/ Restart
    \/ \E c \in Clerks :
          \/ Ask(c, "report") \/ Ask(c, "force") \/ AskSummary(c)
          \/ Lock(c) \/ Query(c) \/ Compare(c) \/ ReadStock(c) \/ ReadEntries(c) \/ ReadPrices(c) \/ Rebuild(c)
          \/ Fail(c) \/ Report(c) \/ Log(c)
    \/ \E d \in Days, q \in Declared : Declare(d, q)
    \/ \E o \in db.over : TakeBack(o)

Spec == Init /\ [][Next]_vars

-----------------------------------------------------------------------------
(* Properties *)

Fresh == db.fp = Fingerprint /\ db.through >= db.day

\* Snapshots that count as fresh are those of the stock rows and the entries as
\* they are - added, edited, reviewed or deleted - whatever was written while
\* they were rebuilt: refreshStockSnapshots keeps the fingerprint it took before
\* rebuildStockSnapshots read anything.  The units without a cost are valued at
\* the purchase prices of that rebuild: stockSourceFingerprint knows nothing of
\* a price that changed since.
SnapshotsFresh == Fresh => db.snaps = Rebuilt(db.stock, db.entries, db.used, db.through)

\* Fresh snapshots of a product that has a stock row end with the stock there
\* is, whether entries explain it or not: the baseline of rebuildStockSnapshots.
ClosingIsStock ==
    Fresh => \A k \in Keys : db.stock[k].day # 0 => LastRow(k, db.through).close = db.stock[k].qty

\* A day whose rows are worth nothing has the quantities of the day before
Worthless == \E k \in Keys : db.used[k] = 0

Agreed ==
    \A from \in 1 .. db.day :
        LET P == Positions(from, db.day)
        IN  \A d \in from .. db.day :
                /\ P[d].open.val = Overall(d - 1).val /\ P[d].close.val = Overall(d).val
                /\ Worthless \/ (P[d].open = Overall(d - 1) /\ P[d].close = Overall(d))

\* The daily report and the stock report agree on the value of the opening and
\* the closing of every day, and on its quantity unless a product has no
\* purchase price, whatever range is asked for, as long as no opening stock was
\* taken back: loadDailyStockPositions and overallPositionAsOf.
ReportsAgree == (Fresh /\ \A o \in db.over : o.live) => Agreed

\* No day is missing from the log, however long the job did not run and
\* whenever midnight passed: writeDailyStockSummaryLogs starts after the last
\* logged day.
LogsUnbroken ==
    DOMAIN db.logs # {} =>
        /\ DOMAIN db.logs = Min(DOMAIN db.logs) .. Max(DOMAIN db.logs)
        /\ Max(DOMAIN db.logs) < db.day

\* They do as well once one was taken back: DeleteOpeningStockOverride says
\* that "reports immediately fall back to the computed position".
TakenBackForgotten == Fresh => Agreed

SnapshotsExact == SnapshotsFresh /\ ClosingIsStock /\ ReportsAgree /\ LogsUnbroken

=============================================================================
