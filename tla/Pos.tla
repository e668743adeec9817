--------------------------------- MODULE Pos ---------------------------------
(***************************************************************************)
(* The point of sale: cash sessions, sales that a till sends again until   *)
(* it has an answer, and sales made offline and synchronised later.        *)
(* (controllers/pos_session.go, pos_offline.go, sync.go, and what          *)
(* CreateInvoice does for a till)                                          *)
(*                                                                         *)
(* A sale is an invoice with the client_sale_id the till gave it.  req     *)
(* holds where each request is; every database access is a step, which may *)
(* fail, and the server may die between two of them.                       *)
(***************************************************************************)
EXTENDS Integers, FiniteSets, Functions

CONSTANTS
    Tills,          \* requests under way at a time
    Sales,          \* ids the tills give
    Sessions,
    NoSession,
    SaleTotals, Cash,
    Deaths,         \* whether the server dies, and statements fail
    Meanwhile,      \* whether sessions are opened and saved beside other requests
    MaxMoves        \* bound: cash movements

VARIABLES
    db,     \* the tables
    req,    \* what each request is doing
    lost    \* sales whose request died, or failed, before it was done

vars  == << db, req, lost >>
Idle  == [op |-> "idle"]
Unmade == [doc |-> "none", session |-> NoSession, total |-> 0]

Init ==
    /\ db = [sales    |-> [s \in Sales |-> Unmade],
             taken    |-> [s \in Sales |-> 0],      \* times the stock was taken
             sessions |-> [x \in Sessions |-> [status |-> "none", sales |-> 0, invoices |-> 0, cash |-> 0]],
             moves    |-> {},
             uncounted |-> {}]      \* movements whose session was not saved
    /\ req = [t \in Tills |-> Idle]
    /\ lost = {}

Open       == {x \in Sessions : db.sessions[x].status = "open"}
Loading    == {"open", "close", "cash", "save_cash"}     \* requests that write back a session they read
Alone(t)   == Meanwhile \/ \A u \in Tills \ {t} : req[u] = Idle
Beside(t)  == Meanwhile \/ \A u \in Tills \ {t} : req[u].op \notin Loading
Begin(t, r) == req[t] = Idle /\ req' = [req EXCEPT ![t] = r] /\ UNCHANGED << db, lost >>
On(t, op)  == req[t].op = op
Go(t, op, to)  == req' = [req EXCEPT ![t].op = op] /\ db' = to /\ UNCHANGED lost
Answer(t, to)  == req' = [req EXCEPT ![t] = Idle] /\ db' = to /\ UNCHANGED lost
Lose(t)        == Deaths /\ lost' = lost \cup {req[t].sale}

-----------------------------------------------------------------------------
(* A sale: CreateInvoice *)

\* findInvoiceByClientSaleID sees the sales that are not deleted, and a sale
\* that is there is the answer
FindSale(t, s, given, total) ==
    /\ Beside(t)
    /\ db.sales[s].doc # "live"
    /\ Begin(t, [op |-> "resolve", sale |-> s, session |-> given, total |-> total])

\* resolvePOSSessionID: the session named, the open one, or a new one
ResolveSession(t) ==
    LET given == req[t].session IN
    /\ On(t, "resolve")
    /\ IF given # NoSession /\ db.sessions[given].status # "none" THEN Go(t, "store", db)
       ELSE IF Open # {} THEN
          \E x \in Open : req' = [req EXCEPT ![t].op = "store", ![t].session = x] /\ UNCHANGED << db, lost >>
       ELSE IF given = NoSession THEN Go(t, "store", db)
       ELSE Alone(t) /\ Go(t, "create", db)

CreateSession(t) ==
    LET x == req[t].session IN
    /\ On(t, "create")
    /\ IF db.sessions[x].status = "none"
       THEN Go(t, "store", [db EXCEPT !.sessions[x].status = "open"])
       ELSE req' = [req EXCEPT ![t].op = "store", ![t].session = NoSession] /\ UNCHANGED << db, lost >>


TakenId(s) == db.sales[s].doc # "none"

StoreSale(t) ==
    LET r == req[t] IN
    /\ On(t, "store")
    /\ IF TakenId(r.sale) THEN Answer(t, db)
       ELSE Go(t, "stock", [db EXCEPT !.sales[r.sale] = [doc |-> "live", session |-> r.session, total |-> r.total]])

\* The customer's points come first: if they fail the sale is deleted, unless
\* that fails as well
RefuseSale(t) ==
    /\ On(t, "stock") /\ Lose(t)
    /\ req' = [req EXCEPT ![t] = Idle]
    /\ UNCHANGED db \/ db' = [db EXCEPT !.sales[req[t].sale].doc = "deleted"]

\* An error of the stock is printed, one of the count is not looked at
TakeStock(t) ==
    /\ On(t, "stock")
    /\ \/ Go(t, "count", [db EXCEPT !.taken[req[t].sale] = @ + 1])
       \/ Lose(t) /\ req' = [req EXCEPT ![t].op = "count"] /\ UNCHANGED db

\* The session counts the sale while it is open
CountSale(t) ==
    LET x == req[t].session IN
    /\ On(t, "count")
    /\ \/ Answer(t, IF x \in Open THEN [db EXCEPT !.sessions[x].sales = @ + req[t].total,
                                                  !.sessions[x].invoices = @ + 1]
                    ELSE db)
       \/ Lose(t) /\ req' = [req EXCEPT ![t] = Idle] /\ UNCHANGED db

DeleteInvoice(s) ==
    /\ db.sales[s].doc = "live"
    /\ db' = [db EXCEPT !.sales[s].doc = "deleted"]
    /\ UNCHANGED << req, lost >>

\* processInvoiceSync stores the invoice and takes its stock, and does no more
SyncSale(t, s, total) ==
    /\ Beside(t) /\ req[t] = Idle /\ ~TakenId(s)
    /\ db' = [db EXCEPT !.sales[s] = [doc |-> "live", session |-> NoSession, total |-> total]]
    /\ req' = [req EXCEPT ![t] = [op |-> "sync_stock", sale |-> s]]
    /\ UNCHANGED lost

\* unless one of the items, which are stored one by one before it, fails
SyncStock(t) ==
    /\ On(t, "sync_stock")
    /\ \/ Answer(t, [db EXCEPT !.taken[req[t].sale] = @ + 1])
       \/ Lose(t) /\ req' = [req EXCEPT ![t] = Idle] /\ UNCHANGED db

-----------------------------------------------------------------------------
(* Sessions *)

MayOpen_Always == TRUE

MayOpen == Open = {}

LoadOpen(t, x) == Alone(t) /\ MayOpen /\ Begin(t, [op |-> "open", session |-> x])

OpenPOSSession(t) ==
    LET x == req[t].session IN
    /\ On(t, "open")
    /\ Answer(t, IF db.sessions[x].status = "none" THEN [db EXCEPT !.sessions[x].status = "open"] ELSE db)

LoadClose(t, x) ==
    /\ Alone(t) /\ db.sessions[x].status = "open"
    /\ Begin(t, [op |-> "close", session |-> x, seen |-> db.sessions[x]])

\* Save writes every column of the session that was read
ClosePOSSession(t) ==
    /\ On(t, "close")
    /\ Answer(t, [db EXCEPT !.sessions[req[t].session] = [req[t].seen EXCEPT !.status = "closed"]])

LoadCash(t, x, n) ==
    /\ Alone(t) /\ x \in Open /\ Cardinality(db.moves) < MaxMoves
    /\ Begin(t, [op |-> "cash", session |-> x, seen |-> db.sessions[x], n |-> n])

NewMove(r) == [no |-> Cardinality(db.moves) + 1, session |-> r.session, n |-> r.n]

RecordMove(t) ==
    LET m == NewMove(req[t]) IN
    /\ On(t, "cash")
    /\ req' = [req EXCEPT ![t] = [op |-> "save_cash", session |-> req[t].session, seen |-> req[t].seen, move |-> m]]
    /\ db' = [db EXCEPT !.moves = @ \cup {m}, !.uncounted = @ \cup {m}]
    /\ UNCHANGED lost

\* Nothing looks at the error of this save
AddCashMovement(t) ==
    LET r == req[t] IN
    /\ On(t, "save_cash")
    /\ \/ Answer(t, [db EXCEPT !.sessions[r.session] = [r.seen EXCEPT !.cash = @ + r.move.n], !.uncounted = @ \ {r.move}])
       \/ Deaths /\ Answer(t, db)

\* The first statement of what is left to do fails, which is answered
Fail(t) == Deaths /\ req[t].op \in {"store", "open", "close", "cash"} /\ Answer(t, db)

\* The server dies between two accesses; the tills send their sales again
Die ==
    /\ Deaths /\ \E t \in Tills : req[t] # Idle
    /\ req' = [t \in Tills |-> Idle]
    /\ lost' = lost \cup {req[t].sale : t \in {u \in Tills : req[u].op \in {"stock", "count", "sync_stock"}}}
    /\ UNCHANGED db

-----------------------------------------------------------------------------
SaleSteps(t) ==
    \/ \E s \in Sales, x \in Sessions \cup {NoSession}, total \in SaleTotals : FindSale(t, s, x, total)
    \/ ResolveSession(t) \/ CreateSession(t) \/ StoreSale(t) \/ RefuseSale(t) \/ TakeStock(t) \/ CountSale(t)
    \/ \E s \in Sales, total \in SaleTotals : SyncSale(t, s, total)
    \/ SyncStock(t)

SessionSteps(t) ==
    \/ \E x \in Sessions : LoadOpen(t, x) \/ LoadClose(t, x) \/ \E n \in Cash : LoadCash(t, x, n)
    \/ OpenPOSSession(t) \/ ClosePOSSession(t) \/ RecordMove(t) \/ AddCashMovement(t) \/ Fail(t)

Next ==
    \/ \E t \in Tills : SaleSteps(t) \/ SessionSteps(t)
    \/ \E s \in Sales : DeleteInvoice(s)
    \/ Die

Spec == Init /\ [][Next]_vars

-----------------------------------------------------------------------------
(* Properties *)

SaleType    == [doc : {"none", "live", "deleted"}, session : Sessions \cup {NoSession}, total : SaleTotals \cup {0}]
SessionType == [status : {"none", "open", "closed"}, sales : Int, invoices : Int, cash : Int]
MoveType    == [no : Nat, session : Sessions, n : Cash]
RequestType ==
    [op : {"idle"}]
        \cup [op : {"resolve", "store", "stock", "count"}, sale : Sales, session : Sessions \cup {NoSession}, total : SaleTotals]
        \cup [op : {"create"}, sale : Sales, session : Sessions, total : SaleTotals]
        \cup [op : {"sync_stock"}, sale : Sales]
        \cup [op : {"open"}, session : Sessions]
        \cup [op : {"close"}, session : Sessions, seen : SessionType]
        \cup [op : {"cash"}, session : Sessions, seen : SessionType, n : Cash]
        \cup [op : {"save_cash"}, session : Sessions, seen : SessionType, move : MoveType]

DbType ==
    [sales : [Sales -> SaleType], taken : [Sales -> Nat], sessions : [Sessions -> SessionType], moves : SUBSET MoveType,
     uncounted : SUBSET MoveType]

\* What the tables and the requests under way hold.
TypeOK ==
    /\ db \in DbType
    /\ IsFiniteSet(db.moves)
    /\ req \in [Tills -> RequestType]
    /\ lost \in SUBSET Sales

Unfinished == {t \in Tills : req[t].op \in {"stock", "count", "sync_stock"}}
UnderWay   == {req[t].sale : t \in Unfinished}

\* However often a till sends a sale again, at the same time too, through
\* CreateInvoice or SyncOfflineData, before or after the sale is deleted or the
\* server dies: its stock is taken at most once, and is taken unless the request
\* is under way, or died or failed after the sale was stored (invoice.go:441,
\* sync.go:133).
StockTakenOnce ==
    /\ \A s \in Sales : db.taken[s] <= 1
    /\ \A s \in Sales \ (lost \cup UnderWay) : TakenId(s) => db.taken[s] = 1

\* What the session was rung up for, and by which of its sales for sure
SalesOf(x) == {s \in Sales : db.sales[s].session = x}
MovesOf(x) == {m \in db.moves : m.session = x}
Rung(S)    == SumFunctionOnSet([s \in Sales |-> db.sales[s].total], S)
Moved(M)   == SumFunctionOnSet([m \in db.moves |-> m.n], M)

\* A session that is open counts each of its sales once, too, but for those
\* whose request died or failed; its cash is what was put in and taken out, but
\* for movements after which it was not saved (pos_session.go:234).
CountedOnce ==
    /\ StockTakenOnce
    /\ \A x \in Open :
          /\ db.sessions[x].sales \in Rung(SalesOf(x) \ (lost \cup UnderWay)) .. Rung(SalesOf(x))
          /\ db.sessions[x].invoices <= Cardinality(SalesOf(x))
          /\ db.sessions[x].cash = Moved(MovesOf(x) \ db.uncounted)

\* While sessions are opened one request at a time, a cashier never has two
\* open ("An active session already exists"), whether a session was opened or
\* came with a sale made offline.
OneOpenSession == Cardinality(Open) <= 1

\* Sales, sessions and stock together, when sessions are opened and saved while
\* nothing else is under way (sync.go:133, pos_session.go).
PosExact == CountedOnce /\ OneOpenSession

=============================================================================
