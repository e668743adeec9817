----------------------------- MODULE Procurement -----------------------------
(***************************************************************************)
(* Paper that moves goods or says where they are: purchase orders and      *)
(* receipts, stock transfers, delivery challans, warehouses.               *)
(* (controllers/purchase.go, inventory.go, delivery_challan.go,            *)
(* warehouse.go)                                                           *)
(*                                                                         *)
(* A handler that makes several writes makes them one by one, in no        *)
(* transaction: req holds what it has read and how far it has come, and    *)
(* the server may die in between.                                          *)
(***************************************************************************)
EXTENDS Naturals, FiniteSets

CONSTANTS
    Clerks,         \* requests under way at a time
    Orders, Receipts, Transfers, Challans,
    Warehouses,     \* rows, deleted ones included
    Codes,
    Lines,          \* of a receipt or a transfer
    Deaths,         \* whether the server dies
    Meanwhile       \* whether two requests are about one document, or about the warehouses

VARIABLES
    db,     \* the tables
    req     \* what each request has read

vars   == << db, req >>
Idle   == [op |-> "idle"]
Unused == [st |-> "unused"]

Init ==
    /\ db = [orders     |-> [o \in Orders |-> Unused],
             receipts   |-> [r \in Receipts |-> "unused"],
             entries    |-> [r \in Receipts |-> 0],      \* stock entries made for a receipt
             transfers  |-> [t \in Transfers |-> [st |-> "unused", sent |-> 0, received |-> 0]],
             challans   |-> [x \in Challans |-> "unused"],
             warehouses |-> [w \in Warehouses |-> Unused],
             cut        |-> [r \in Receipts |-> 0]]      \* submissions that a death cut short
    /\ req = [c \in Clerks |-> Idle]

On(c, op)   == req[c].op = op
Free(c, d)  == req[c] = Idle /\ (Meanwhile \/ \A e \in Clerks : req[e] # Idle => req[e].doc # d)
Load(c, r)  == Free(c, r.doc) /\ req' = [req EXCEPT ![c] = r] /\ UNCHANGED db
Go(c, r, to) == req' = [req EXCEPT ![c] = r] /\ db' = to
Write(to)   == db' = to /\ UNCHANGED req

-----------------------------------------------------------------------------
(* Purchase orders and receipts: only a draft is edited, submitted, deleted *)

LiveOrders == {o \in Orders : db.orders[o].st \in {"draft", "submitted"}}

CreatePurchaseOrder(o) ==
    /\ db.orders[o] = Unused
    /\ Write([db EXCEPT !.orders[o] = [st |-> "draft", no |-> Cardinality(LiveOrders) + 1]])

EndDraft(o, to) == db.orders[o].st = "draft" /\ Write([db EXCEPT !.orders[o].st = to])

SubmitPurchaseOrder(o) == EndDraft(o, "submitted")

DeletePurchaseOrder(o) == EndDraft(o, "deleted")

CreatePurchaseReceipt(r) == db.receipts[r] = "unused" /\ Write([db EXCEPT !.receipts[r] = "draft"])

Submittable_Always(r) == db.receipts[r] # "unused"

Submittable(r) == db.receipts[r] = "draft"

LoadReceipt(c, r) == Submittable(r) /\ Load(c, [op |-> "receipt", doc |-> r, left |-> Lines])

AddEntry(c) ==
    /\ On(c, "receipt") /\ req[c].left > 0
    /\ Go(c, [req[c] EXCEPT !.left = @ - 1], [db EXCEPT !.entries[req[c].doc] = @ + 1])

SubmitPurchaseReceipt(c) ==
    /\ On(c, "receipt") /\ req[c].left = 0
    /\ Go(c, Idle, [db EXCEPT !.receipts[req[c].doc] = "submitted"])

-----------------------------------------------------------------------------
(* Transfers: the quantities of the lines first, one by one, then the status *)

CreateStockTransfer(t) == db.transfers[t].st = "unused" /\ Write([db EXCEPT !.transfers[t].st = "draft"])

LoadTransfer(c, t) ==
    \/ db.transfers[t].st = "draft" /\ Load(c, [op |-> "send", doc |-> t, left |-> Lines])
    \/ /\ db.transfers[t].st = "submitted"
       /\ Load(c, [op |-> "receive", doc |-> t, left |-> Lines, seen |-> db.transfers[t].sent])

SaveLine(c) ==
    LET r == req[c]
        v == db.transfers[r.doc] IN
    /\ r.op \in {"send", "receive"} /\ r.left > 0
    /\ Go(c, [r EXCEPT !.left = @ - 1],
          [db EXCEPT !.transfers[r.doc] =
              IF r.op = "send" THEN [v EXCEPT !.sent = IF v.sent < Lines THEN v.sent + 1 ELSE v.sent]
              ELSE [v EXCEPT !.received = IF v.received < r.seen THEN v.received + 1 ELSE v.received]])

SubmitStockTransfer(c) ==
    /\ On(c, "send") /\ req[c].left = 0 /\ Go(c, Idle, [db EXCEPT !.transfers[req[c].doc].st = "submitted"])

ReceiveStockTransfer(c) ==
    /\ On(c, "receive") /\ req[c].left = 0 /\ Go(c, Idle, [db EXCEPT !.transfers[req[c].doc].st = "received"])

-----------------------------------------------------------------------------
(* Challans: any status is set, until one is delivered *)

CreateDeliveryChallan(x) == db.challans[x] = "unused" /\ Write([db EXCEPT !.challans[x] = "draft"])

Undelivered(x) == db.challans[x] \in {"draft", "cancelled"}

UpdateDeliveryChallan(x, st) == Undelivered(x) /\ Write([db EXCEPT !.challans[x] = st])

DeleteDeliveryChallan(x) == Undelivered(x) /\ Write([db EXCEPT !.challans[x] = "deleted"])

-----------------------------------------------------------------------------
(* Warehouses.  A deleted row keeps its code until somebody wants it; the   *)
(* unique index has it too.                                                 *)

Rows(st)  == {w \in Warehouses : db.warehouses[w].st = st}
Holds(code, st) == {w \in Rows(st) : db.warehouses[w].code = code}

\* A warehouse is asked for under a code that no other live one has
LoadWarehouse(c, w, code, default) ==
    /\ db.warehouses[w].st \in {"unused", "live"}
    /\ Holds(code, "live") \subseteq {w}
    /\ Load(c, [op |-> "purge", doc |-> "warehouses", w |-> w, code |-> code, default |-> default,
                new |-> db.warehouses[w] = Unused])

Purged_Update(r) == IF r.new THEN {} ELSE Holds(r.code, "deleted")

Purged(r) == Holds(r.code, "deleted")

PurgeCode(c) ==
    /\ On(c, "purge")
    /\ Go(c, [req[c] EXCEPT !.op = "default"],
          [db EXCEPT !.warehouses = [w \in Warehouses |-> IF w \in Purged(req[c]) THEN Unused ELSE @[w]]])

Others_Kept(r) == {}

Others(r) == IF r.default THEN Rows("live") \ {r.w} ELSE {}

ClearDefault(c) ==
    /\ On(c, "default")
    /\ Go(c, [req[c] EXCEPT !.op = "store"],
          [db EXCEPT !.warehouses = [w \in Warehouses |-> IF w \in Others(req[c]) THEN [@[w] EXCEPT !.default = FALSE] ELSE @[w]]])

FreeCode(r) == Holds(r.code, "live") \cup Holds(r.code, "deleted") \subseteq {r.w}

\* CreateWarehouse, UpdateWarehouse; refused where the code is taken by now
StoreWarehouse(c) ==
    LET r == req[c] IN
    /\ On(c, "store")
    /\ Go(c, Idle, IF FreeCode(r) /\ (r.new \/ db.warehouses[r.w].st = "live")
                   THEN [db EXCEPT !.warehouses[r.w] = [st |-> "live", code |-> r.code, default |-> r.default]]
                   ELSE db)

\* DeleteWarehouse and BulkDeleteWarehouses keep the default one
BulkDeleteWarehouses(S) ==
    /\ S # {} /\ (Meanwhile \/ \A c \in Clerks : req[c] # Idle => req[c].doc # "warehouses")
    /\ Write([db EXCEPT !.warehouses =
                [w \in Warehouses |-> IF w \in S /\ ~@[w].default THEN [@[w] EXCEPT !.st = "deleted"] ELSE @[w]]])

-----------------------------------------------------------------------------
Die ==
    /\ Deaths /\ \E c \in Clerks : req[c] # Idle
    /\ db' = [db EXCEPT !.cut = [r \in Receipts |->
                IF \E c \in Clerks : On(c, "receipt") /\ req[c].doc = r /\ req[c].left < Lines THEN @[r] + 1 ELSE @[r]]]
    /\ req' = [c \in Clerks |-> Idle]
    /\ \A r \in Receipts : db'.cut[r] <= 1

DocumentSteps ==
    \/ \E o \in Orders : CreatePurchaseOrder(o) \/ SubmitPurchaseOrder(o) \/ DeletePurchaseOrder(o)
    \/ \E r \in Receipts : CreatePurchaseReceipt(r) \/ \E c \in Clerks : LoadReceipt(c, r)
    \/ \E t \in Transfers : CreateStockTransfer(t) \/ \E c \in Clerks : LoadTransfer(c, t)
    \/ \E c \in Clerks : AddEntry(c) \/ SubmitPurchaseReceipt(c) \/ SaveLine(c) \/ SubmitStockTransfer(c) \/ ReceiveStockTransfer(c)
    \/ \E x \in Challans :
          \/ CreateDeliveryChallan(x) \/ DeleteDeliveryChallan(x)
          \/ \E st \in {"draft", "delivered", "cancelled"} : UpdateDeliveryChallan(x, st)

WarehouseSteps ==
    \/ \E c \in Clerks :
          \/ \E w \in Warehouses, code \in Codes, default \in BOOLEAN : LoadWarehouse(c, w, code, default)
          \/ PurgeCode(c) \/ ClearDefault(c) \/ StoreWarehouse(c)
    \/ \E S \in SUBSET Rows("live") : BulkDeleteWarehouses(S)

Next == DocumentSteps \/ WarehouseSteps \/ Die

Spec == Init /\ [][Next]_vars

-----------------------------------------------------------------------------
(* Properties *)

\* The goods of a receipt are entered once, all of them before it is submitted,
\* and once more at most for a submission that the server's death cut short; a
\* transfer is received as it was sent, line by line.
ReceivedOnce ==
    /\ \A r \in Receipts :
          /\ db.entries[r] <= Lines * (1 + db.cut[r])
          /\ db.receipts[r] = "submitted" => db.entries[r] >= Lines
    /\ \A t \in Transfers : LET v == db.transfers[t] IN
          /\ v.received <= v.sent
          /\ v.st \in {"submitted", "received"} => v.sent = Lines
          /\ v.st = "received" => v.received = Lines

\* While the warehouses are changed by one request at a time, there is never more
\* than one default among the live ones, no two rows have one code, and a code
\* that no live warehouse has is free ("so the same code can be reused after
\* delete", warehouse.go:83-84).
OneWarehouseEach ==
    /\ Cardinality({w \in Rows("live") : db.warehouses[w].default}) <= 1
    /\ \A code \in Codes : Cardinality(Holds(code, "live") \cup Holds(code, "deleted")) <= 1
    /\ \A c \in Clerks : On(c, "store") => FreeCode(req[c])

=============================================================================
